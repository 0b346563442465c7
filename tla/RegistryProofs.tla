--------------------------- MODULE RegistryProofs ----------------------------
(***************************************************************************)
(* The registry of projects keeps its promises for every tree of           *)
(* directories, every set of documents and every interleaving of its lane  *)
(* with the handlers, the disk and a shutdown.                             *)
(*                                                                         *)
(* What is promised at rest rests on what every await of a task leaves in  *)
(* order.  Its parts, in the order they are proved:                        *)
(*   JobFits, LaneFits   where a task, its gate and the session may be;    *)
(*   PrimaryFits         the primary project is loaded but while it loads; *)
(*   Coherent, MapsMatch the maps and the caches agree;                    *)
(*   AllIndexed          nothing is answered by a project not indexed;     *)
(*   FilesFit            an index holds its own files, but in a tree that  *)
(*                       is being added;                                   *)
(*   OpenFit             an open document is indexed, or still on its way  *)
(*                       there;                                            *)
(*   ChangesDue          a recorded change has a reload to come;           *)
(*   RootsFit, TreesFit  the known roots are those a walk on disk finds,   *)
(*                       and no tree lacks one;                            *)
(*   RoutedFit           an open document is asked for, or has a home.     *)
(* The last three speak of directories whose changes were all reported.    *)
(***************************************************************************)
EXTENDS ProjectRegistry, FiniteSetTheorems, TLAPS


\* The records a task of the lane runs through.
Jobs == [kind : Kinds \cup {"none"}, call : Call \cup {NoCall}, pc : Awaits,
         anchor : Dirs \cup {NoDir}, fallback : BOOLEAN,
         todo : SUBSET Dirs, evicted : SUBSET Documents]

Adding == {"discover", "nested", "index"}
Anchored == Adding \cup {"load", "end"}
Starting == session \in {"initializing", "indexing"}

\* Where a task of each kind may wait, and for what.
JobShape ==
  /\ job \in Jobs
  /\ job.kind = "none" => job = Idle
  /\ job.kind # "none" => job.pc # "idle"
  /\ job.kind = "init" => job.pc \in {"resolve", "load", "end"}
  /\ job.kind = "indexAll" => job.pc \in Adding \cup {"end"}
  /\ job.kind = "create" => job.call \in Call /\ job.pc \in {"resolve"} \cup Anchored
  /\ job.kind = "reload" => job.pc \in {"reload", "resolve"} \cup Anchored
  /\ job.kind # "create" => job.call = NoCall /\ ~job.fallback
  /\ job.pc \in Anchored => job.anchor \in Dirs
  /\ job.kind = "create" /\ job.pc \in Anchored => job.anchor \in Above[DirOf[job.call.file]]
  /\ job.fallback => job.pc \in {"load", "end"} /\ job.anchor = DirOf[job.call.file]

JobPlace ==
  /\ job.kind = "reload" /\ job.pc # "reload" => workspaceRoot # NoDir
  /\ job.pc \in Adding \cup {"end"} => contexts[job.anchor] # 0
  /\ job.pc = "load" => contexts[job.anchor] = 0
  /\ job.pc = "load" /\ job.fallback => Primary = 0 /\ workspaceRoot = NoDir
  /\ job.pc = "load" /\ job.fallback => KnownRoots \cap Above[job.anchor] = {}
  /\ job.pc \in {"resolve", "load"} /\ job.kind \in {"init", "reload"} => KnownRoots = {}
  /\ job.pc = "resolve" /\ job.kind = "create" =>
       KnownRoots \cap Above[DirOf[job.call.file]] = {}
  /\ job.pc = "nested" => \A n \in job.todo : contexts[n] = 0 /\ job.anchor \in Above[n]
  /\ job.pc = "index" => \A f \in job.evicted : job.anchor \in Above[DirOf[f]]

JobFits == JobShape /\ JobPlace

\* How the gate, the lane and the session go together.
SessionFits ==
  /\ session = "initializing" =>
       /\ \/ job = Idle /\ lane = << [kind |-> "init", call |-> NoCall] >>
          \/ job.kind = "init" /\ lane = <<>>
       /\ ~timer
  /\ session = "indexing" =>
       \/ job = Idle /\ lane # <<>> /\ lane[1].kind = "indexAll"
       \/ job.kind = "indexAll"
  /\ job.kind = "init" => session = "initializing"
  /\ job.kind = "indexAll" => session = "indexing"
  /\ Starting => workspaceRoot # NoDir

LaneItems ==
  \A i \in DOMAIN lane :
    /\ lane[i].kind = "init" => session = "initializing"
    /\ lane[i].kind = "indexAll" => session = "indexing" /\ job = Idle /\ i = 1
    /\ lane[i].kind = "create" => lane[i].call \in Call
    /\ lane[i].kind # "create" => lane[i].call = NoCall

GateFits ==
  /\ startupOpen <=>
       /\ ~Starting
       /\ job = Idle \/ job.pc = "reload" \/ (job.kind = "create" /\ job.pc = "resolve")
  /\ startupOpen => gate = <<>>

LaneFits == SessionFits /\ LaneItems /\ GateFits

\* The primary project is loaded, except while it is being resolved or loaded.
PrimaryFits ==
  /\ primaryRoot # NoDir =>
       \/ contexts[primaryRoot] # 0
       \/ job.kind \in {"init", "reload"} /\ job.pc = "load" /\ job.anchor = primaryRoot
  /\ workspaceRoot # NoDir =>
       \/ primaryRoot # NoDir
       \/ session = "initializing" /\ job.pc # "load" /\ job.pc # "end"
       \/ job.kind = "reload" /\ job.pc = "resolve"
  /\ session = "initializing" /\ job.pc # "load" /\ job.pc # "end" => primaryRoot = NoDir
  /\ Starting /\ job.kind # "indexAll" => KnownRoots \subseteq {primaryRoot}

\* The maps hold live contexts of the roots they are held under.
MapsMatch ==
  /\ \A d \in KnownRoots : ctxs[contexts[d]].root = d
  /\ ~shuttingDown => \A d \in KnownRoots : ~ctxs[contexts[d]].disposed
  /\ \A d \in Dirs : walkUpCache[d] \in Dirs => walkUpCache[d] \in Above[d]

\* While the gate is open every project that is known is indexed.
AllIndexed ==
  /\ ~shuttingDown
  /\ \/ startupOpen
     \/ job.kind = "create" /\ job.pc = "load"
     \/ job.kind # "init" /\ job.pc = "end"
  => \A i \in Mapped : ctxs[i].indexed

\* An index holds files of its owner, but where a tree is being added.
FilesFit ==
  ~shuttingDown =>
    \A i \in Mapped : \A f \in ctxs[i].files :
      \/ ContextFor(f) = i
      \/ job.pc \in {"discover", "nested"} /\ job.anchor \in Above[DirOf[f]]

\* A document waits at the gate; its call is queued; its call was answered with
\* a live context; a reachable context has it.
Waiting(f) == \E i \in DOMAIN gate : gate[i].file = f
Queueing(f) == \E i \in DOMAIN lane : lane[i].kind = "create" /\ lane[i].call.file = f
Parsing(f) == \E g \in got : g.call.file = f /\ ~ctxs[g.ctx].disposed
Held(f) == \E i \in Mapped : f \in ctxs[i].files

Called(f) ==
  \/ f \in reindex \/ Waiting(f) \/ Queueing(f)
  \/ job.kind = "create" /\ job.call.file = f
  \/ job.kind = "reload" /\ job.pc # "reload"

Evicted(f) == job.pc = "index" /\ f \in job.evicted

CaredFor(f) == Called(f) \/ f \in edited \/ Parsing(f) \/ Held(f) \/ Evicted(f)

OpenFit == ~shuttingDown => \A f \in open : CaredFor(f)

\* A change that is recorded has its reload to come.
ReloadQueued == \E i \in DOMAIN lane : lane[i].kind = "reload"

ChangesDue == pendingChanges # {} /\ ~shuttingDown => timer \/ ReloadQueued

\* Every change above the directory was reported.
OnRecord(d) == Above[d] \cap unreported = {}

\* What the walk up from a directory of its own finds.
RootLike(r) ==
  OnRecord(r) => ConfigRoot(r) = r \/ (r = primaryRoot /\ ConfigRoot(r) = NoDir)

\* The changes that are on record leave the known roots what they are on disk.
Followed == workspaceRoot # NoDir /\ "structural" \notin pendingChanges

\* The known roots, those about to be, and the cached walks are those on disk.
RootsFit ==
  Followed =>
    /\ \A r \in KnownRoots : RootLike(r)
    /\ job.pc = "nested" => \A n \in job.todo : OnRecord(n) => ConfigRoot(n) = n
    /\ job.pc \in Anchored => RootLike(job.anchor)
    /\ \A d \in Dirs :
         /\ walkUpCache[d] \in Dirs /\ OnRecord(walkUpCache[d]) => ConfigRoot(walkUpCache[d]) = walkUpCache[d]
         /\ OnRecord(d) => walkUpCache[d] \in {Absent, ConfigRoot(d)}
    /\ job.kind = "create" /\ job.pc \in Anchored =>
         LET d == DirOf[job.call.file] IN OnRecord(d) => job.anchor = ConfigRoot(d)

\* Below a known root every root on disk is known, or will be when its tree is.
TreesFit ==
  Followed /\ ~shuttingDown /\ (~Starting \/ job.kind = "indexAll") =>
    \A r \in KnownRoots : \A c \in Dirs :
      r \in Above[c] /\ OnRecord(c) /\ ConfigRoot(c) = c =>
        \/ c \in KnownRoots
        \/ job.pc = "discover" /\ r = job.anchor
        \/ job.pc = "nested" /\ c \in job.todo

\* An open document is asked for, or has a home.
RoutedFit ==
  workspaceRoot # NoDir /\ ~shuttingDown =>
    \A f \in open : \/ Called(f)
                    \/ KnownRoots \cap Above[DirOf[f]] # {}
                    \/ walkUpCache[DirOf[f]] = NoDir

\* The inductive invariant.
RegistryInv ==
  /\ TypeOK /\ JobFits /\ LaneFits /\ PrimaryFits /\ Coherent /\ MapsMatch
  /\ AllIndexed /\ FilesFit /\ OpenFit /\ ChangesDue /\ RootsFit /\ TreesFit /\ RoutedFit
-------------------------------------------------------------------------------
\* The directories above one are in a line: some of them, one is the deepest.
LEMMA Deepest ==
  ASSUME NEW d \in Dirs, NEW S, S \cap Above[d] # {}
  PROVE  \E r \in S \cap Above[d] : S \cap Above[d] \subseteq Above[r]
<1>1. \A e \in Dirs : \A above \in SUBSET Above[e] : above # {} => \E r \in above : above \subseteq Above[r]
  BY RegistryAssumption
<1> DEFINE A == S \cap Above[d]
<1>2. A \in SUBSET Above[d]
  OBVIOUS
<1>3. A # {} => \E r \in A : A \subseteq Above[r]
  <2> HIDE DEF A
  <2> QED
    BY <1>1, <1>2
<1> QED
  BY <1>3

\* nearestRoot returns a member of S at or above d that is below all others, or none.
LEMMA NearestIs ==
  ASSUME NEW d \in Dirs, NEW S
  PROVE  \/ S \cap Above[d] = {} /\ NearestRoot(d, S) = NoDir
         \/ /\ NearestRoot(d, S) \in S \cap Above[d] /\ NearestRoot(d, S) \in Dirs
            /\ NearestRoot(d, S) # NoDir
            /\ S \cap Above[d] \subseteq Above[NearestRoot(d, S)]
<1>1. CASE S \cap Above[d] = {}
  BY <1>1 DEF NearestRoot
<1>2. CASE S \cap Above[d] # {}
  <2>1. S \cap Above[d] \in SUBSET Above[d] /\ Above[d] \subseteq Dirs
    BY RegistryAssumption
  <2>2. PICK r \in S \cap Above[d] : S \cap Above[d] \subseteq Above[r]
    BY <1>2, Deepest
  <2>3. NearestRoot(d, S) = CHOOSE x \in S \cap Above[d] : S \cap Above[d] \subseteq Above[x]
    BY <1>2 DEF NearestRoot
  <2>4. NearestRoot(d, S) \in S \cap Above[d] /\ S \cap Above[d] \subseteq Above[NearestRoot(d, S)]
    BY <2>2, <2>3
  <2> QED
    BY <2>1, <2>4, RegistryAssumption
<1> QED
  BY <1>1, <1>2

\* ... and there is one such member.
LEMMA NearestOnly ==
  ASSUME NEW d \in Dirs, NEW S, NEW r \in S \cap Above[d], S \cap Above[d] \subseteq Above[r]
  PROVE  NearestRoot(d, S) = r
<1>1. NearestRoot(d, S) \in S \cap Above[d] /\ S \cap Above[d] \subseteq Above[NearestRoot(d, S)]
  BY NearestIs
<1>2. r \in Dirs /\ NearestRoot(d, S) \in Dirs /\ r \in Above[NearestRoot(d, S)]
        /\ NearestRoot(d, S) \in Above[r]
  BY <1>1, RegistryAssumption
<1> QED
  BY <1>2, RegistryAssumption

\* What is not above d is nothing to its nearest root.
LEMMA NearestSame ==
  ASSUME NEW d \in Dirs, NEW S, NEW T, S \cap Above[d] = T \cap Above[d]
  PROVE  NearestRoot(d, S) = NearestRoot(d, T)
<1>1. CASE S \cap Above[d] = {}
  BY <1>1 DEF NearestRoot
<1>2. CASE S \cap Above[d] # {}
  <2>1. NearestRoot(d, S) \in T \cap Above[d] /\ T \cap Above[d] \subseteq Above[NearestRoot(d, S)]
    BY <1>2, NearestIs
  <2> QED
    BY <2>1, NearestOnly
<1> QED
  BY <1>1, <1>2

\* Two directories above a third are one above the other.
LEMMA InLine ==
  ASSUME NEW d \in Dirs, NEW x \in Above[d], NEW y \in Above[d]
  PROVE  x \in Above[y] \/ y \in Above[x]
<1>1. {x, y} \cap Above[d] = {x, y}
  OBVIOUS
<1>2. PICK r \in {x, y} \cap Above[d] : {x, y} \cap Above[d] \subseteq Above[r]
  BY <1>1, Deepest
<1> QED
  BY <1>1, <1>2

\* What the walk up finds is what the walk up from there finds.
LEMMA ConfigRootIs ==
  ASSUME NEW d \in Dirs
  PROVE  \/ configured \cap Above[d] = {} /\ ConfigRoot(d) = NoDir
         \/ /\ ConfigRoot(d) \in configured \cap Above[d] /\ ConfigRoot(d) \in Dirs
            /\ ConfigRoot(d) # NoDir
            /\ ConfigRoot(ConfigRoot(d)) = ConfigRoot(d)
<1> DEFINE c == ConfigRoot(d)
<1>1. CASE configured \cap ProjectYaml \cap Above[d] # {}
  <2>1. c = NearestRoot(d, configured \cap ProjectYaml)
    BY <1>1 DEF ConfigRoot
  <2>2. /\ c \in configured \cap ProjectYaml \cap Above[d] /\ c \in Dirs /\ c # NoDir
        /\ configured \cap ProjectYaml \cap Above[d] \subseteq Above[c]
    BY <1>1, <2>1, NearestIs
  <2>3. Above[c] \subseteq Above[d] /\ c \in Above[c]
    BY <2>2, RegistryAssumption
  <2>4. configured \cap ProjectYaml \cap Above[c] # {} /\ c \in (configured \cap ProjectYaml) \cap Above[c]
        /\ (configured \cap ProjectYaml) \cap Above[c] \subseteq Above[c]
    BY <2>2, <2>3
  <2>5. NearestRoot(c, configured \cap ProjectYaml) = c
    BY <2>2, <2>4, NearestOnly
  <2>6. ConfigRoot(c) = c
    BY <2>4, <2>5 DEF ConfigRoot
  <2> QED
    BY <2>2, <2>6
<1>2. CASE configured \cap ProjectYaml \cap Above[d] = {} /\ configured \cap Above[d] # {}
  <2>1. c = NearestRoot(d, configured)
    BY <1>2 DEF ConfigRoot
  <2>2. c \in configured \cap Above[d] /\ c \in Dirs /\ c # NoDir
    BY <1>2, <2>1, NearestIs
  <2>3. Above[c] \subseteq Above[d] /\ c \in Above[c]
    BY <2>2, RegistryAssumption
  <2>4. configured \cap ProjectYaml \cap Above[c] = {} /\ c \in configured \cap Above[c]
    BY <1>2, <2>2, <2>3
  <2>5. NearestRoot(c, configured) = c
    BY <2>2, <2>4, NearestOnly
  <2>6. ConfigRoot(c) = c
    BY <2>4, <2>5 DEF ConfigRoot
  <2> QED
    BY <2>2, <2>6
<1>3. CASE configured \cap Above[d] = {}
  BY <1>3, NearestIs DEF ConfigRoot
<1> QED
  BY <1>1, <1>2, <1>3

\* Of two roots above a directory, the one it belongs to is the deeper one.
LEMMA ConfigRootBelow ==
  ASSUME NEW d \in Dirs, NEW r \in Above[d], ConfigRoot(r) = r, r \in Dirs
  PROVE  r \in Above[ConfigRoot(d)] /\ ConfigRoot(d) \in Dirs
<1> DEFINE c == ConfigRoot(d)
<1>1. r \in configured /\ r # NoDir
  BY ConfigRootIs, RegistryAssumption
<1>2. c \in configured \cap Above[d] /\ c \in Dirs /\ ConfigRoot(c) = c
  BY <1>1, ConfigRootIs
<1>3. CASE r \in ProjectYaml
  <2>1. configured \cap ProjectYaml \cap Above[d] # {} /\ c = NearestRoot(d, configured \cap ProjectYaml)
    BY <1>1, <1>3 DEF ConfigRoot
  <2> QED
    BY <1>1, <1>2, <1>3, <2>1, NearestIs
<1>4. CASE r \notin ProjectYaml
  <2>1. configured \cap ProjectYaml \cap Above[r] = {}
    <3>1. SUFFICES ASSUME configured \cap ProjectYaml \cap Above[r] # {} PROVE FALSE
      OBVIOUS
    <3>2. ConfigRoot(r) = NearestRoot(r, configured \cap ProjectYaml)
      BY <3>1 DEF ConfigRoot
    <3> QED
      BY <1>4, <3>1, <3>2, NearestIs
  <2>2. CASE c \in Above[r]
    <3>1. c \notin ProjectYaml
      BY <1>2, <2>1, <2>2
    <3>2. configured \cap ProjectYaml \cap Above[d] = {}
      <4>1. SUFFICES ASSUME configured \cap ProjectYaml \cap Above[d] # {} PROVE FALSE
        OBVIOUS
      <4>2. c = NearestRoot(d, configured \cap ProjectYaml)
        BY <4>1 DEF ConfigRoot
      <4> QED
        BY <3>1, <4>1, <4>2, NearestIs
    <3>3. c = NearestRoot(d, configured)
      BY <3>2 DEF ConfigRoot
    <3> QED
      BY <1>1, <1>2, <3>3, NearestIs
  <2> QED
    BY <1>2, <2>2, InLine
<1> QED
  BY <1>2, <1>3, <1>4

\* A change below a directory, or beside it, is nothing to its root.
LEMMA ConfigRootStays ==
  ASSUME NEW d \in Dirs, configured' \cap Above[d] = configured \cap Above[d]
  PROVE  ConfigRoot(d)' = ConfigRoot(d)
<1>1. configured' \cap ProjectYaml \cap Above[d] = configured \cap ProjectYaml \cap Above[d]
  OBVIOUS
<1>2. NearestRoot(d, configured') = NearestRoot(d, configured)
      /\ NearestRoot(d, configured' \cap ProjectYaml) = NearestRoot(d, configured \cap ProjectYaml)
  BY <1>1, NearestSame
<1> QED
  BY <1>1, <1>2 DEF ConfigRoot

-------------------------------------------------------------------------------
\* The slow waiters of the gate are queued, each of them, and no others.
LEMMA SlowPlaces ==
  ASSUME gate \in Seq(Call)
  PROVE  /\ IsFiniteSet(Slow) /\ Cardinality(Slow) \in Nat
         /\ \A n \in 1..Cardinality(Slow) : SlowPlace(n) \in Slow
         /\ \A i \in Slow : \E n \in 1..Cardinality(Slow) : SlowPlace(n) = i
<1> DEFINE Lower(i) == {j \in Slow : j < i}
           Size == Cardinality(Slow)
           rank == [i \in Slow |-> Cardinality(Lower(i))]
<1>1. Slow \in SUBSET (1..Len(gate)) /\ Len(gate) \in Nat
  BY DEF Slow
<1>2. IsFiniteSet(Slow) /\ Size \in Nat
  <2>1. IsFiniteSet(1..Len(gate))
    BY <1>1, FS_Interval
  <2> QED
    BY <1>1, <2>1, FS_Subset, FS_CardinalityType
<1>3. \A i \in Slow : i \in Nat
  BY <1>1
<1>4. DOMAIN rank = Slow /\ rank = [i \in Slow |-> rank[i]] /\ \A i \in Slow : rank[i] = Cardinality(Lower(i))
  OBVIOUS
<1>7. \A n \in 1..Size : SlowPlace(n) = CHOOSE i \in Slow : Cardinality(Lower(i)) = n - 1
  BY DEF SlowPlace
<1> HIDE DEF rank, Size
<1>5. ASSUME NEW i \in Slow
      PROVE  IsFiniteSet(Lower(i)) /\ rank[i] \in Nat /\ rank[i] < Size
  <2>1. IsFiniteSet(Slow \ {i}) /\ Cardinality(Slow \ {i}) = Size - 1
    BY <1>2, FS_RemoveElement DEF Size
  <2>2. Lower(i) \in SUBSET (Slow \ {i})
    BY <1>3
  <2>3. IsFiniteSet(Lower(i)) /\ Cardinality(Lower(i)) <= Cardinality(Slow \ {i})
    BY <2>1, <2>2, FS_Subset
  <2>4. Cardinality(Lower(i)) \in Nat
    BY <2>3, FS_CardinalityType
  <2> QED
    BY <1>2, <1>4, <2>1, <2>3, <2>4
<1>6. ASSUME NEW i \in Slow, NEW j \in Slow, i < j PROVE rank[i] < rank[j]
  <2>1. Lower(i) \in SUBSET Lower(j) /\ Lower(i) # Lower(j)
    <3>1. i \in Lower(j) /\ i \notin Lower(i)
      BY <1>3, <1>6
    <3>2. ASSUME NEW l \in Lower(i) PROVE l \in Lower(j)
      BY <1>3, <1>6
    <3> QED
      BY <3>1, <3>2
  <2>2. Cardinality(Lower(i)) <= Cardinality(Lower(j)) /\ Cardinality(Lower(i)) # Cardinality(Lower(j))
    BY <1>5, <2>1, FS_Subset
  <2>3. rank[i] = Cardinality(Lower(i)) /\ rank[j] = Cardinality(Lower(j))
    BY <1>4
  <2>4. rank[i] \in Nat /\ rank[j] \in Nat
    BY <1>5
  <2> HIDE DEF Lower
  <2> QED
    BY <2>2, <2>3, <2>4
<1>8. ASSUME NEW i \in Slow, NEW j \in Slow, rank[i] = rank[j] PROVE i = j
  <2>1. rank[i] \in Nat /\ rank[j] \in Nat /\ i \in Nat /\ j \in Nat
    BY <1>3, <1>5
  <2>2. ~(i < j) /\ ~(j < i)
    BY <1>6, <1>8, <2>1
  <2> QED
    BY <2>1, <2>2
<1>9. ASSUME NEW k \in 0..(Size - 1) PROVE \E i \in Slow : rank[i] = k
  <2> SUFFICES ASSUME \A i \in Slow : rank[i] # k PROVE FALSE
    OBVIOUS
  <2> DEFINE Others == (0..(Size - 1)) \ {k}
  <2>1. IsFiniteSet(0..(Size - 1)) /\ Cardinality(0..(Size - 1)) = Size
    BY <1>2, FS_Interval
  <2>2. IsFiniteSet(Others) /\ Cardinality(Others) = Size - 1
    BY <2>1, FS_RemoveElement
  <2>3. ASSUME NEW i \in Slow PROVE rank[i] \in Others
    <3>1. rank[i] \in Nat /\ rank[i] < Size
      BY <1>5
    <3>2. rank[i] # k
      OBVIOUS
    <3> QED
      BY <1>2, <3>1, <3>2
  <2>4. rank \in [Slow -> Others]
    BY <1>4, <2>3
  <2>5. Cardinality(Others) < Cardinality(Slow)
    BY <1>2, <2>2 DEF Size
  <2> HIDE DEF Others
  <2>6. \E i, j \in Slow : i # j /\ rank[i] = rank[j]
    BY <1>2, <2>2, <2>4, <2>5, FS_PigeonHole
  <2> QED
    BY <1>8, <2>6
<1>10. ASSUME NEW n \in 1..Size PROVE SlowPlace(n) \in Slow /\ rank[SlowPlace(n)] = n - 1
  <2>1. n - 1 \in 0..(Size - 1)
    BY <1>2
  <2>2. \E i \in Slow : Cardinality(Lower(i)) = n - 1
    BY <1>4, <1>9, <2>1
  <2> QED
    BY <1>4, <1>7, <2>2
<1>11. ASSUME NEW i \in Slow PROVE \E n \in 1..Size : SlowPlace(n) = i
  <2>1. rank[i] + 1 \in 1..Size /\ (rank[i] + 1) - 1 = rank[i]
    <3>1. rank[i] \in Nat /\ rank[i] < Size
      BY <1>5
    <3> QED
      BY <1>2, <3>1
  <2>2. rank[SlowPlace(rank[i] + 1)] = rank[i] /\ SlowPlace(rank[i] + 1) \in Slow
    BY <1>10, <2>1
  <2> QED
    BY <1>8, <2>1, <2>2
<1> QED
  BY <1>2, <1>10, <1>11 DEF Size

-------------------------------------------------------------------------------
\* The context of the nearest known root, without a cache.
Home(d) ==
  LET owner == NearestRoot(d, KnownRoots)
  IN  IF owner = NoDir THEN Primary ELSE contexts[owner]

\* A fresh cache answers as a walk over the known roots would.
LEMMA OwnerIs ==
  ASSUME CacheFresh, NEW d \in Dirs
  PROVE  OwnerRoot(d) = NearestRoot(d, KnownRoots)
BY DEF CacheFresh, OwnerRoot

LEMMA OwnerIsNext ==
  ASSUME CacheFresh', NEW d \in Dirs
  PROVE  OwnerRoot(d)' = NearestRoot(d, KnownRoots')
BY DEF CacheFresh, OwnerRoot

\* ... so contextFor gives the home of the document.
LEMMA ContextForIs ==
  ASSUME CacheFresh, NEW f \in Documents
  PROVE  ContextFor(f) = Home(DirOf[f])
<1>1. DirOf[f] \in Dirs
  BY RegistryAssumption
<1> QED
  BY <1>1, OwnerIs DEF ContextFor, Home

LEMMA ContextForIsNext ==
  ASSUME CacheFresh', NEW f \in Documents
  PROVE  ContextFor(f)' = Home(DirOf[f])'
<1>1. DirOf[f] \in Dirs
  BY RegistryAssumption
<1>2. OwnerRoot(DirOf[f])' = NearestRoot(DirOf[f], KnownRoots')
  BY <1>1, OwnerIsNext
<1> QED
  BY <1>2 DEF ContextFor, Home

\* Reading owners leaves the cache fresh.
LEMMA CacheOwnersKeeps ==
  ASSUME CacheFresh, NEW D, CacheOwners(D), UNCHANGED contexts
  PROVE  CacheFresh'
<1>1. KnownRoots' = KnownRoots
  BY DEF KnownRoots
<1>2. ASSUME NEW d \in Dirs PROVE ownerCache'[d] \in {Absent, NearestRoot(d, KnownRoots)}
  <2>1. ownerCache'[d] \in {ownerCache[d], OwnerRoot(d)}
    BY DEF CacheOwners
  <2> QED
    BY <2>1, OwnerIs DEF CacheFresh
<1> QED
  BY <1>1, <1>2 DEF CacheFresh

\* A new root changes the owner of nothing but what is below it.
LEMMA HomeBesides ==
  ASSUME NEW d \in Dirs, NEW r \in Dirs, NEW n, n # 0, contexts \in [Dirs -> Nat],
         contexts[r] = 0, r \notin Above[d],
         contexts' = [contexts EXCEPT ![r] = n],
         primaryRoot' = primaryRoot \/ Primary = 0,
         Home(d) # 0, primaryRoot \in Dirs \cup {NoDir}
  PROVE  Home(d)' = Home(d)
<1>1. KnownRoots' = KnownRoots \cup {r}
  BY DEF KnownRoots
<1>2. NearestRoot(d, KnownRoots') = NearestRoot(d, KnownRoots)
  BY <1>1, NearestSame
<1>3. CASE NearestRoot(d, KnownRoots) = NoDir
  <2>1. primaryRoot' = primaryRoot /\ Primary # 0
    BY <1>3 DEF Home
  <2>2. Primary' = Primary
    BY <2>1 DEF Primary
  <2> QED
    BY <1>2, <1>3, <2>2 DEF Home
<1>4. CASE NearestRoot(d, KnownRoots) # NoDir
  <2>1. NearestRoot(d, KnownRoots) \in Above[d] /\ NearestRoot(d, KnownRoots) \in Dirs
    BY <1>4, NearestIs
  <2>2. contexts'[NearestRoot(d, KnownRoots)] = contexts[NearestRoot(d, KnownRoots)]
    BY <2>1
  <2> QED
    BY <1>2, <1>4, <2>2 DEF Home
<1> QED
  BY <1>3, <1>4

\* As long as no root comes or goes every document keeps its home.
LEMMA HomeStays ==
  ASSUME NEW d \in Dirs, UNCHANGED <<contexts, primaryRoot>>
  PROVE  Home(d)' = Home(d) /\ KnownRoots' = KnownRoots /\ Primary' = Primary
BY DEF Home, KnownRoots, Primary

-------------------------------------------------------------------------------
\* What a step leaves of the contexts there are, field by field.
LEMMA IsSequence ==
  ASSUME NEW S, NEW n \in Nat, NEW s, DOMAIN s = 1..n, s = [i \in 1..n |-> s[i]],
         \A i \in 1..n : s[i] \in S
  PROVE  s \in Seq(S) /\ Len(s) = n
OBVIOUS

Typed == ctxs' \in Seq(Context) /\ Len(ctxs') = Len(ctxs) /\ DOMAIN ctxs' = DOMAIN ctxs

LEMMA DisposedField ==
  ASSUME NEW c \in Context, NEW x \in BOOLEAN
  PROVE  /\ [c EXCEPT !.disposed = x] \in Context
         /\ [c EXCEPT !.disposed = x].root = c.root
         /\ [c EXCEPT !.disposed = x].disposed = x
BY DEF Context

LEMMA RebuildCtxs ==
  ASSUME ctxs \in Seq(Context), Rebuild
  PROVE  /\ Typed
         /\ \A i \in DOMAIN ctxs :
              /\ ctxs'[i].root = ctxs[i].root
              /\ ctxs'[i].disposed = (ctxs[i].disposed \/ i \in {contexts[d] : d \in Dirs})
<1>1. DOMAIN ctxs' = 1..Len(ctxs) /\ DOMAIN ctxs = 1..Len(ctxs) /\ Len(ctxs) \in Nat
      /\ ctxs' = [i \in 1..Len(ctxs) |-> ctxs'[i]]
  BY DEF Rebuild
<1>2. ASSUME NEW i \in 1..Len(ctxs)
      PROVE  /\ ctxs'[i] \in Context /\ ctxs'[i].root = ctxs[i].root
             /\ ctxs'[i].disposed = (ctxs[i].disposed \/ i \in {contexts[d] : d \in Dirs})
  <2> DEFINE x == ctxs[i].disposed \/ i \in {contexts[d] : d \in Dirs}
  <2>1. ctxs[i] \in Context
    OBVIOUS
  <2>0. x \in BOOLEAN
    OBVIOUS
  <2>2. ctxs'[i] = [ctxs[i] EXCEPT !.disposed = x]
    BY <1>1 DEF Rebuild
  <2> HIDE DEF x
  <2>3. ctxs'[i] \in Context /\ ctxs'[i].root = ctxs[i].root /\ ctxs'[i].disposed = x
    BY <2>0, <2>1, <2>2, DisposedField
  <2> QED
    BY <2>3 DEF x
<1>3. ctxs' \in Seq(Context) /\ Len(ctxs') = Len(ctxs)
  BY <1>1, <1>2, IsSequence
<1> QED
  BY <1>1, <1>2, <1>3 DEF Typed

LEMMA ShutdownCtxs ==
  ASSUME ctxs \in Seq(Context), Shutdown
  PROVE  /\ Typed
         /\ \A i \in DOMAIN ctxs :
              /\ ctxs'[i].root = ctxs[i].root
              /\ ctxs'[i].disposed = (ctxs[i].disposed \/ i \in Mapped)
<1>1. DOMAIN ctxs' = 1..Len(ctxs) /\ DOMAIN ctxs = 1..Len(ctxs) /\ Len(ctxs) \in Nat
      /\ ctxs' = [i \in 1..Len(ctxs) |-> ctxs'[i]]
  BY DEF Shutdown
<1>2. ASSUME NEW i \in 1..Len(ctxs)
      PROVE  /\ ctxs'[i] \in Context /\ ctxs'[i].root = ctxs[i].root
             /\ ctxs'[i].disposed = (ctxs[i].disposed \/ i \in Mapped)
  <2> DEFINE x == ctxs[i].disposed \/ i \in Mapped
  <2>1. ctxs[i] \in Context
    OBVIOUS
  <2>0. x \in BOOLEAN
    OBVIOUS
  <2>2. ctxs'[i] = [ctxs[i] EXCEPT !.disposed = x]
    BY <1>1 DEF Shutdown
  <2> HIDE DEF x
  <2>3. ctxs'[i] \in Context /\ ctxs'[i].root = ctxs[i].root /\ ctxs'[i].disposed = x
    BY <2>0, <2>1, <2>2, DisposedField
  <2> QED
    BY <2>3 DEF x
<1>3. ctxs' \in Seq(Context) /\ Len(ctxs') = Len(ctxs)
  BY <1>1, <1>2, IsSequence
<1> QED
  BY <1>1, <1>2, <1>3 DEF Typed

LEMMA EvictCtxs ==
  ASSUME ctxs \in Seq(Context), EvictForeignFiles
  PROVE  /\ Typed
         /\ \A i \in DOMAIN ctxs :
              /\ ctxs'[i].root = ctxs[i].root
              /\ ctxs'[i].indexed = ctxs[i].indexed
              /\ ctxs'[i].disposed = ctxs[i].disposed
              /\ ctxs'[i].files = IF i \in Mapped THEN ctxs[i].files \ Foreign(i) ELSE ctxs[i].files
<1>1. DOMAIN ctxs' = 1..Len(ctxs) /\ DOMAIN ctxs = 1..Len(ctxs) /\ Len(ctxs) \in Nat
      /\ ctxs' = [i \in 1..Len(ctxs) |-> ctxs'[i]]
  BY DEF EvictForeignFiles
<1>2. ASSUME NEW i \in 1..Len(ctxs)
      PROVE  /\ ctxs'[i] \in Context /\ ctxs'[i].root = ctxs[i].root
             /\ ctxs'[i].indexed = ctxs[i].indexed
             /\ ctxs'[i].disposed = ctxs[i].disposed
             /\ ctxs'[i].files = IF i \in Mapped THEN ctxs[i].files \ Foreign(i) ELSE ctxs[i].files
  <2> DEFINE F == ctxs[i].files \ Foreign(i)
  <2>0. ctxs[i] \in Context
    OBVIOUS
  <2>1. F \in SUBSET Documents
    BY <2>0 DEF Context
  <2>2. ctxs'[i] = IF i \in Mapped THEN [ctxs[i] EXCEPT !.files = F] ELSE ctxs[i]
    BY <1>1 DEF EvictForeignFiles
  <2> HIDE DEF F
  <2>3. CASE i \in Mapped
    <3>1. ctxs'[i] = [ctxs[i] EXCEPT !.files = F]
      BY <2>2, <2>3
    <3>2. /\ ctxs'[i] \in Context /\ ctxs'[i].root = ctxs[i].root /\ ctxs'[i].indexed = ctxs[i].indexed
          /\ ctxs'[i].disposed = ctxs[i].disposed /\ ctxs'[i].files = F
      BY <2>0, <2>1, <3>1 DEF Context
    <3> QED
      BY <2>3, <3>2 DEF F
  <2>4. CASE i \notin Mapped
    BY <2>0, <2>2, <2>4
  <2> QED
    BY <2>3, <2>4
<1>3. ctxs' \in Seq(Context) /\ Len(ctxs') = Len(ctxs)
  BY <1>1, <1>2, IsSequence
<1> QED
  BY <1>1, <1>2, <1>3 DEF Typed

LEMMA HandOverCtxs ==
  ASSUME ctxs \in Seq(Context), HandOver, open \subseteq Documents
  PROVE  /\ Typed
         /\ \A i \in DOMAIN ctxs :
              /\ ctxs'[i].root = ctxs[i].root
              /\ ctxs'[i].indexed = ctxs[i].indexed
              /\ ctxs'[i].disposed = ctxs[i].disposed
              /\ ctxs[i].files \subseteq ctxs'[i].files
              /\ \A f \in ctxs'[i].files \ ctxs[i].files : ContextFor(f) = i
              /\ ~shuttingDown => \A f \in job.evicted \cap open : ContextFor(f) = i => f \in ctxs'[i].files
<1> DEFINE moved == IF shuttingDown THEN {} ELSE job.evicted \cap open
<1>1. DOMAIN ctxs' = 1..Len(ctxs) /\ DOMAIN ctxs = 1..Len(ctxs) /\ Len(ctxs) \in Nat
      /\ ctxs' = [i \in 1..Len(ctxs) |-> ctxs'[i]]
  BY DEF HandOver
<1>2. ASSUME NEW i \in 1..Len(ctxs)
      PROVE  /\ ctxs'[i] \in Context /\ ctxs'[i].root = ctxs[i].root
             /\ ctxs'[i].indexed = ctxs[i].indexed
             /\ ctxs'[i].disposed = ctxs[i].disposed
             /\ ctxs'[i].files = ctxs[i].files \cup {f \in moved : ContextFor(f) = i}
  <2> DEFINE F == ctxs[i].files \cup {f \in moved : ContextFor(f) = i}
  <2>0. ctxs[i] \in Context
    OBVIOUS
  <2>1. F \in SUBSET Documents
    BY <2>0 DEF Context
  <2>2. ctxs'[i] = [ctxs[i] EXCEPT !.files = F]
    BY <1>1 DEF HandOver
  <2> HIDE DEF F
  <2>3. /\ ctxs'[i] \in Context /\ ctxs'[i].root = ctxs[i].root /\ ctxs'[i].indexed = ctxs[i].indexed
        /\ ctxs'[i].disposed = ctxs[i].disposed /\ ctxs'[i].files = F
    BY <2>0, <2>1, <2>2 DEF Context
  <2> QED
    BY <2>3 DEF F
<1>3. ctxs' \in Seq(Context) /\ Len(ctxs') = Len(ctxs)
  BY <1>1, <1>2, IsSequence
<1> QED
  BY <1>1, <1>2, <1>3 DEF Typed

LEMMA IndexProjectCtxs ==
  ASSUME ctxs \in Seq(Context), IndexProject, Mapped \subseteq DOMAIN ctxs
  PROVE  /\ Typed
         /\ \E i \in Mapped :
              /\ ctxs'[i].root = ctxs[i].root /\ ctxs'[i].indexed
              /\ ctxs'[i].disposed = ctxs[i].disposed
              /\ ctxs'[i].files = ctxs[i].files \cup Walked(i)
              /\ \A j \in DOMAIN ctxs \ {i} : ctxs'[j] = ctxs[j]
<1>1. PICK i \in Mapped : ctxs' = [ctxs EXCEPT ![i].indexed = TRUE, ![i].files = @ \cup Walked(i)]
  BY DEF IndexProject
<1>2. DOMAIN ctxs' = 1..Len(ctxs) /\ DOMAIN ctxs = 1..Len(ctxs) /\ Len(ctxs) \in Nat
      /\ i \in 1..Len(ctxs)
  BY <1>1
<1> DEFINE F == ctxs[i].files \cup Walked(i)
<1>0. ctxs[i] \in Context
  BY <1>2
<1>3. F \in SUBSET Documents
  BY <1>0, RegistryAssumption DEF Context, Walked
<1>4. ctxs'[i] = [ctxs[i] EXCEPT !.indexed = TRUE, !.files = F]
      /\ \A j \in 1..Len(ctxs) : j # i => ctxs'[j] = ctxs[j]
  BY <1>0, <1>1, <1>2 DEF Context
<1> HIDE DEF F
<1>5. /\ ctxs'[i] \in Context /\ ctxs'[i].root = ctxs[i].root /\ ctxs'[i].indexed
      /\ ctxs'[i].disposed = ctxs[i].disposed /\ ctxs'[i].files = F
  BY <1>0, <1>3, <1>4 DEF Context
<1>6. \A j \in 1..Len(ctxs) : ctxs'[j] \in Context
  BY <1>4, <1>5
<1>7. ctxs' = [j \in 1..Len(ctxs) |-> ctxs'[j]]
  BY <1>1, <1>2
<1>8. ctxs' \in Seq(Context) /\ Len(ctxs') = Len(ctxs)
  BY <1>2, <1>6, <1>7, IsSequence
<1> QED
  BY <1>2, <1>4, <1>5, <1>8 DEF Typed, F

LEMMA ParsedCtxs ==
  ASSUME ctxs \in Seq(Context), NEW g \in got, Parsed(g), g.ctx \in DOMAIN ctxs,
         g.call.file \in Documents
  PROVE  /\ Typed
         /\ LET f == g.call.file
                kept == ctxs[g.ctx].disposed \/ ContextFor(f) = g.ctx
            IN  /\ ctxs'[g.ctx].root = ctxs[g.ctx].root
                /\ ctxs'[g.ctx].indexed = ctxs[g.ctx].indexed
                /\ ctxs'[g.ctx].disposed = ctxs[g.ctx].disposed
                /\ kept => ctxs'[g.ctx].files = ctxs[g.ctx].files \cup {f}
                /\ ~kept => ctxs'[g.ctx].files = ctxs[g.ctx].files \ {f}
         /\ \A j \in DOMAIN ctxs \ {g.ctx} : ctxs'[j] = ctxs[j]
<1> DEFINE i == g.ctx
           f == g.call.file
           kept == ctxs[i].disposed \/ ContextFor(f) = i
           F == IF kept THEN ctxs[i].files \cup {f} ELSE ctxs[i].files \ {f}
<1>1. ctxs' = [ctxs EXCEPT ![i].files = IF kept THEN @ \cup {f} ELSE @ \ {f}]
  BY DEF Parsed
<1>2. DOMAIN ctxs' = 1..Len(ctxs) /\ DOMAIN ctxs = 1..Len(ctxs) /\ Len(ctxs) \in Nat
      /\ i \in 1..Len(ctxs)
  BY <1>1
<1>0. ctxs[i] \in Context
  BY <1>2
<1>3. F \in SUBSET Documents
  BY <1>0 DEF Context
<1> HIDE DEF kept, i
<1>4. ctxs'[i] = [ctxs[i] EXCEPT !.files = F]
      /\ \A j \in 1..Len(ctxs) : j # i => ctxs'[j] = ctxs[j]
  BY <1>1, <1>2
<1> HIDE DEF F
<1>5. /\ ctxs'[i] \in Context /\ ctxs'[i].root = ctxs[i].root /\ ctxs'[i].indexed = ctxs[i].indexed
      /\ ctxs'[i].disposed = ctxs[i].disposed /\ ctxs'[i].files = F
  BY <1>0, <1>3, <1>4 DEF Context
<1>6. \A j \in 1..Len(ctxs) : ctxs'[j] \in Context
  BY <1>4, <1>5
<1>7. ctxs' = [j \in 1..Len(ctxs) |-> ctxs'[j]]
  BY <1>1, <1>2
<1>8. ctxs' \in Seq(Context) /\ Len(ctxs') = Len(ctxs)
  BY <1>2, <1>6, <1>7, IsSequence
<1>9. (kept => ctxs'[i].files = ctxs[i].files \cup {f}) /\ (~kept => ctxs'[i].files = ctxs[i].files \ {f})
  BY <1>5 DEF F
<1> QED
  BY <1>2, <1>4, <1>5, <1>8, <1>9 DEF Typed, i, kept

LEMMA CreateContextCtxs ==
  ASSUME ctxs \in Seq(Context), NEW root \in Dirs, NEW indexed \in BOOLEAN,
         shuttingDown \in BOOLEAN, CreateContext(root, indexed)
  PROVE  /\ ctxs' \in Seq(Context) /\ Len(ctxs') = Len(ctxs) + 1
         /\ DOMAIN ctxs' = DOMAIN ctxs \cup {Len(ctxs) + 1} /\ Len(ctxs) + 1 \notin DOMAIN ctxs
         /\ \A i \in DOMAIN ctxs : ctxs'[i] = ctxs[i]
         /\ ctxs'[Len(ctxs) + 1].root = root
         /\ ctxs'[Len(ctxs) + 1].indexed = indexed
         /\ ctxs'[Len(ctxs) + 1].disposed = shuttingDown
         /\ ctxs'[Len(ctxs) + 1].files = {}
<1> DEFINE c == [root |-> root, indexed |-> indexed, disposed |-> shuttingDown, files |-> {}]
<1>1. ctxs' = Append(ctxs, c) /\ Len(ctxs) \in Nat
  BY DEF CreateContext
<1>2. c \in Context /\ c.root = root /\ c.indexed = indexed /\ c.disposed = shuttingDown /\ c.files = {}
  BY DEF Context
<1> HIDE DEF c
<1> QED
  BY <1>1, <1>2

-------------------------------------------------------------------------------
\* Answers that are typed.
Answers(S) == \A g \in S : g.call \in Call /\ g.ctx \in 1..Len(ctxs)

\* The types of what the handlers read and answer.
LEMMA ContextForType ==
  ASSUME TypeOK, CacheFresh, NEW f \in Documents
  PROVE  ContextFor(f) \in 0..Len(ctxs) /\ OwnerRoot(DirOf[f]) \in Dirs \cup {NoDir}
<1>1. DirOf[f] \in Dirs
  BY RegistryAssumption
<1>2. OwnerRoot(DirOf[f]) \in Dirs \cup {NoDir}
  BY <1>1, OwnerIs, NearestIs
<1>3. contexts \in [Dirs -> 0..Len(ctxs)] /\ primaryRoot \in Dirs \cup {NoDir} /\ Len(ctxs) \in Nat
  BY DEF TypeOK
<1> QED
  BY <1>2, <1>3 DEF ContextFor, Primary

LEMMA CacheOwnersType ==
  ASSUME TypeOK, CacheFresh, NEW D, CacheOwners(D)
  PROVE  ownerCache' \in [Dirs -> Dirs \cup {NoDir, Absent}]
<1>1. \A d \in Dirs : OwnerRoot(d) \in Dirs \cup {NoDir} /\ ownerCache[d] \in Dirs \cup {NoDir, Absent}
  BY OwnerIs, NearestIs DEF TypeOK
<1> QED
  BY <1>1 DEF CacheOwners

LEMMA AnsweredType ==
  ASSUME TypeOK, CacheFresh, NEW S, \A c \in S : c \in Call /\ Fast(c)
  PROVE  Answers(Answered(S))
<1>1. ASSUME NEW c \in S PROVE ContextFor(c.file) \in 1..Len(ctxs)
  <2>1. c.file \in Documents /\ ContextFor(c.file) # 0
    BY <1>1 DEF Call, Fast
  <2> QED
    BY <2>1, ContextForType
<1> QED
  BY <1>1 DEF Answers, Answered

LEMMA CreateTask ==
  ASSUME NEW call \in Call
  PROVE  [kind |-> "create", call |-> call] \in Task
BY DEF Task, Kinds

LEMMA EnsureTypes ==
  ASSUME TypeOK, CacheFresh, NEW call \in Call, EnsureContextFor(call)
  PROVE  /\ gate' \in Seq(Call) /\ lane' \in Seq(Task) /\ Answers(got')
         /\ ownerCache' \in [Dirs -> Dirs \cup {NoDir, Absent}]
<1>1. gate \in Seq(Call) /\ lane \in Seq(Task) /\ Answers(got)
      /\ ownerCache \in [Dirs -> Dirs \cup {NoDir, Absent}]
  BY DEF TypeOK, Answers
<1>2. CASE startupOpen
  <2>1. ownerCache' \in [Dirs -> Dirs \cup {NoDir, Absent}]
    BY <1>2, CacheOwnersType DEF EnsureContextFor
  <2>2. CASE Fast(call)
    <3>1. got' = got \cup Answered({call}) /\ lane' = lane /\ gate' = gate
      BY <1>2, <2>2 DEF EnsureContextFor
    <3>2. Answers(Answered({call}))
      BY <2>2, AnsweredType
    <3> QED
      BY <1>1, <2>1, <3>1, <3>2 DEF Answers
  <2>3. CASE ~Fast(call)
    <3>1. got' = got /\ lane' = Append(lane, [kind |-> "create", call |-> call]) /\ gate' = gate
      BY <1>2, <2>3 DEF EnsureContextFor
    <3> QED
      BY <1>1, <2>1, <3>1, CreateTask DEF Answers
  <2> QED
    BY <2>2, <2>3
<1>3. CASE ~startupOpen
  BY <1>1, <1>3 DEF EnsureContextFor, Answers
<1> QED
  BY <1>2, <1>3

LEMMA FinishTypes ==
  ASSUME TypeOK, CacheFresh, NEW also, Answers(also), FinishStartup(also)
  PROVE  /\ gate' \in Seq(Call) /\ lane' \in Seq(Task) /\ Answers(got')
         /\ ownerCache' \in [Dirs -> Dirs \cup {NoDir, Absent}] /\ startupOpen' = TRUE
<1>1. gate \in Seq(Call) /\ lane \in Seq(Task) /\ Answers(got)
  BY DEF TypeOK, Answers
<1>2. ownerCache' \in [Dirs -> Dirs \cup {NoDir, Absent}]
  BY CacheOwnersType DEF FinishStartup
<1>3. Answers(Answered({c \in ToSet(gate) : Fast(c)}))
  <2>1. \A c \in ToSet(gate) : c \in Call
    BY <1>1 DEF ToSet
  <2> QED
    BY <2>1, AnsweredType
<1>4. Answers(got')
  BY <1>1, <1>3 DEF FinishStartup, Answers
<1> DEFINE n == Cardinality(Slow)
           more == [k \in 1..n |-> [kind |-> "create", call |-> gate[SlowPlace(k)]]]
<1>5. more \in Seq(Task)
  <2>1. n \in Nat /\ \A k \in 1..n : SlowPlace(k) \in Slow
    BY <1>1, SlowPlaces
  <2>2. \A i \in Slow : gate[i] \in Call
    BY <1>1 DEF Slow
  <2>3. \A k \in 1..n : more[k] \in Task
    BY <2>1, <2>2, CreateTask
  <2> HIDE DEF n
  <2> QED
    BY <2>1, <2>3, IsSequence
<1>6. lane' = lane \o more
  BY DEF FinishStartup
<1> HIDE DEF more
<1>7. lane' \in Seq(Task)
  BY <1>1, <1>5, <1>6
<1>8. gate' = <<>> /\ startupOpen' = TRUE
  BY DEF FinishStartup
<1> QED
  BY <1>2, <1>4, <1>7, <1>8

\* Every step leaves the contexts well formed, and their roots and order as they are.
LEMMA CtxsKeep ==
  ASSUME TypeOK, JobFits, LaneFits, [Next]_vars
  PROVE  /\ ctxs' \in Seq(Context) /\ Len(ctxs') \in Nat /\ Len(ctxs) <= Len(ctxs')
         /\ contexts' \in [Dirs -> 0..Len(ctxs')] /\ primaryRoot' \in Dirs \cup {NoDir}
<1> DEFINE Goal == /\ ctxs' \in Seq(Context) /\ Len(ctxs') \in Nat /\ Len(ctxs) <= Len(ctxs')
                   /\ contexts' \in [Dirs -> 0..Len(ctxs')] /\ primaryRoot' \in Dirs \cup {NoDir}
<1>1. /\ ctxs \in Seq(Context) /\ Len(ctxs) \in Nat /\ contexts \in [Dirs -> 0..Len(ctxs)]
      /\ primaryRoot \in Dirs \cup {NoDir} /\ shuttingDown \in BOOLEAN
      /\ open \subseteq Documents
  BY DEF TypeOK
<1>2. Mapped \subseteq DOMAIN ctxs
  BY <1>1 DEF Mapped, KnownRoots
<1>3. CASE UNCHANGED <<ctxs, contexts, primaryRoot>>
  BY <1>1, <1>3
<1>4. ASSUME Typed, UNCHANGED <<contexts, primaryRoot>> PROVE Goal
  BY <1>1, <1>4 DEF Typed
<1>5. ASSUME Rebuild PROVE Goal
  <2>1. Typed
    BY <1>1, <1>5, RebuildCtxs
  <2>2. contexts' = [d \in Dirs |-> 0] /\ primaryRoot' = NoDir
    BY <1>5 DEF Rebuild
  <2> QED
    BY <1>1, <2>1, <2>2 DEF Typed
<1>6. ASSUME NEW r \in Dirs, NEW b \in BOOLEAN, CreateContext(r, b), primaryRoot' \in Dirs \cup {NoDir} PROVE Goal
  <2>1. ctxs' \in Seq(Context) /\ Len(ctxs') = Len(ctxs) + 1
    BY <1>1, <1>6, CreateContextCtxs
  <2>2. contexts' = [contexts EXCEPT ![r] = Len(ctxs) + 1]
    BY <1>6 DEF CreateContext
  <2> QED
    BY <1>1, <1>6, <2>1, <2>2
<1>7. CASE StartReload
  BY <1>3, <1>5, <1>7 DEF StartReload
<1>8. CASE Reloaded
  BY <1>3, <1>5, <1>8 DEF Reloaded
<1>9. CASE ResolvePrimary
  <2>1. workspaceRoot \in Dirs
    BY <1>9, RegistryAssumption DEF TypeOK, ResolvePrimary, JobFits, JobPlace, LaneFits, SessionFits, Starting
  <2>2. ConfigRoot(workspaceRoot) \in Dirs \cup {NoDir}
    BY <2>1, ConfigRootIs
  <2>3. UNCHANGED <<ctxs, contexts>> /\ primaryRoot' \in {workspaceRoot, ConfigRoot(workspaceRoot)}
    BY <1>9 DEF ResolvePrimary
  <2> QED
    BY <1>1, <2>1, <2>2, <2>3
<1>10. CASE AnchorLoaded
  <2>1. job.anchor \in Dirs /\ job.fallback \in BOOLEAN /\ CreateContext(job.anchor, job.fallback)
        /\ primaryRoot' \in {primaryRoot, job.anchor}
    BY <1>10 DEF AnchorLoaded, JobFits, JobShape, Jobs, Anchored
  <2> QED
    BY <1>1, <1>6, <2>1
<1>11. CASE NestedLoaded
  <2>1. PICK n \in job.todo : CreateContext(n, FALSE)
    BY <1>11 DEF NestedLoaded
  <2>2. n \in Dirs /\ primaryRoot' = primaryRoot
    BY <1>11 DEF NestedLoaded, TypeOK
  <2> QED
    BY <1>1, <1>6, <2>1, <2>2
<1>12. CASE EvictForeignFiles
  BY <1>1, <1>4, <1>12, EvictCtxs DEF EvictForeignFiles
<1>13. CASE IndexProject
  BY <1>1, <1>2, <1>4, <1>13, IndexProjectCtxs DEF IndexProject
<1>14. CASE HandOver
  BY <1>1, <1>4, <1>14, HandOverCtxs DEF HandOver
<1>15. CASE Shutdown
  BY <1>1, <1>4, <1>15, ShutdownCtxs DEF Shutdown
<1>16. CASE \E g \in got : Parsed(g)
  <2>1. PICK g \in got : Parsed(g)
    BY <1>16
  <2>2. g.ctx \in DOMAIN ctxs /\ g.call.file \in Documents
    BY <1>1 DEF TypeOK, Call
  <2> QED
    BY <1>1, <1>4, <2>1, <2>2, ParsedCtxs DEF Parsed
<1>17. CASE \/ StartInit \/ StartIndexAll \/ StartCreate \/ ResolveDocument \/ Discovered \/ EndTask
  BY <1>3, <1>17 DEF StartInit, StartIndexAll, StartCreate, ResolveDocument, Discovered, EndTask
<1>18. CASE \/ \E f \in Documents : Open(f) \/ Edit(f) \/ ParseTimer(f) \/ ReindexNext(f)
            \/ \E d \in Dirs : ChangeConfig(d)
            \/ RegisterWatchers \/ ReloadTimer \/ UNCHANGED vars
  BY <1>3, <1>18 DEF Open, Edit, ParseTimer, ReindexNext, ChangeConfig, RegisterWatchers, ReloadTimer, vars
<1> QED
  BY <1>7, <1>8, <1>9, <1>10, <1>11, <1>12, <1>13, <1>14, <1>15, <1>16, <1>17, <1>18 DEF Next, LaneStep

\* So it does the rest of what the types fix: the disk, the job and the handlers.
LEMMA DisplayKeeps ==
  ASSUME TypeOK, [Next]_vars
  PROVE  /\ configured' \subseteq Dirs /\ unreported' \subseteq Dirs /\ open' \subseteq Documents
         /\ session' \in {"initializing", "indexing", "indexed", "watching"}
         /\ changes' \in 0..MaxChanges /\ events' \in 0..MaxEvents
         /\ workspaceRoot' \in WorkspaceRoots /\ timer' \in BOOLEAN /\ shuttingDown' \in BOOLEAN
         /\ pendingChanges' \subseteq {"structural", "content"}
         /\ edited' \subseteq Documents /\ reindex' \subseteq Documents
<1> DEFINE Goal == /\ configured' \subseteq Dirs /\ unreported' \subseteq Dirs /\ open' \subseteq Documents
                   /\ session' \in {"initializing", "indexing", "indexed", "watching"}
                   /\ changes' \in 0..MaxChanges /\ events' \in 0..MaxEvents
                   /\ workspaceRoot' \in WorkspaceRoots /\ timer' \in BOOLEAN /\ shuttingDown' \in BOOLEAN
                   /\ pendingChanges' \subseteq {"structural", "content"}
                   /\ edited' \subseteq Documents /\ reindex' \subseteq Documents
<1>1. LaneStep => Goal
  <2> USE DEF TypeOK, disk, watch, handlers
  <2>1. CASE StartInit \/ StartIndexAll \/ StartCreate \/ StartReload \/ Reloaded
    BY <2>1 DEF StartInit, StartIndexAll, StartCreate, StartReload, Reloaded
  <2>2. CASE ResolvePrimary \/ ResolveDocument \/ AnchorLoaded \/ Discovered \/ NestedLoaded
    BY <2>2 DEF ResolvePrimary, ResolveDocument, AnchorLoaded, Discovered, NestedLoaded
  <2>3. CASE EvictForeignFiles \/ IndexProject \/ HandOver
    BY <2>3 DEF EvictForeignFiles, IndexProject, HandOver
  <2>4. CASE EndTask
    BY <2>4 DEF EndTask
  <2> QED
    BY <2>1, <2>2, <2>3, <2>4 DEF LaneStep
<1>2. ASSUME NEW f \in Documents, Open(f) \/ Edit(f) \/ ParseTimer(f) \/ ReindexNext(f) PROVE Goal
  <2> USE DEF TypeOK, disk, watch, handlers
  <2>0. MaxEvents \in Nat
    BY RegistryAssumption
  <2>1. CASE Open(f)
    BY <2>0, <2>1 DEF Open
  <2>2. CASE Edit(f)
    BY <2>0, <2>2 DEF Edit
  <2>3. CASE ParseTimer(f) \/ ReindexNext(f)
    BY <2>3 DEF ParseTimer, ReindexNext
  <2> QED
    BY <1>2, <2>1, <2>2, <2>3
<1>3. ASSUME NEW g \in got, Parsed(g) PROVE Goal
  <2>1. g.call.file \in Documents
    BY DEF TypeOK, Call
  <2> QED
    BY <1>3, <2>1 DEF TypeOK, disk, watch, Parsed
<1>4. ASSUME NEW d \in Dirs, ChangeConfig(d) PROVE Goal
  <2>1. MaxChanges \in Nat /\ changes < MaxChanges /\ changes' = changes + 1
    BY <1>4, RegistryAssumption DEF ChangeConfig
  <2>2. PICK kind \in {"structural", "content"} : Note(d, kind) /\ configured' \subseteq configured \cup {d}
    BY <1>4 DEF ChangeConfig
  <2>3. pendingChanges' \subseteq {"structural", "content"} /\ timer' \in BOOLEAN /\ unreported' \subseteq Dirs
    BY <2>2 DEF Note, TypeOK
  <2>4. UNCHANGED <<workspaceRoot, session, open, events, shuttingDown, edited, reindex>>
    BY <1>4 DEF ChangeConfig, handlers
  <2> QED
    BY <2>1, <2>2, <2>3, <2>4 DEF TypeOK
<1>5. CASE RegisterWatchers \/ ReloadTimer \/ Shutdown \/ UNCHANGED vars
  BY <1>5 DEF TypeOK, vars, disk, watch, handlers, RegisterWatchers, ReloadTimer, Shutdown
<1> QED
  BY <1>1, <1>2, <1>3, <1>4, <1>5 DEF Next

-------------------------------------------------------------------------------
\* One step keeps the running task at a place where a task of its kind may be.
LEMMA JobKeeps ==
  ASSUME RegistryInv, [Next]_vars
  PROVE  JobFits'
<1> DEFINE dir == DirOf[job.call.file]
<1>1. TypeOK /\ JobFits /\ LaneFits /\ PrimaryFits /\ Coherent /\ MapsMatch
  BY DEF RegistryInv
<1>2. /\ contexts \in [Dirs -> 0..Len(ctxs)] /\ Len(ctxs) \in Nat /\ lane \in Seq(Task)
      /\ primaryRoot \in Dirs \cup {NoDir} /\ job \in Jobs /\ NoDir \notin Dirs
      /\ walkUpCache \in [Dirs -> Dirs \cup {NoDir, Absent}]
      /\ \A d \in Dirs : d \in Above[d] /\ Above[d] \subseteq Dirs
  BY <1>1, RegistryAssumption DEF TypeOK, JobFits, JobShape
<1>3. CASE UNCHANGED <<job, contexts, primaryRoot, workspaceRoot>>
  <2>1. KnownRoots' = KnownRoots /\ Primary' = Primary
    BY <1>3 DEF KnownRoots, Primary
  <2> QED
    BY <1>1, <1>3, <2>1 DEF JobFits, JobShape, JobPlace
<1>4. CASE job' = Idle
  BY <1>4 DEF JobFits, JobShape, JobPlace, Idle, Jobs, Anchored, Adding, Awaits, NoCall
<1>5. ASSUME lane # <<>>
      PROVE  /\ Head(lane) \in Task /\ Head(lane).kind \in Kinds
             /\ Head(lane).kind = "create" => Head(lane).call \in Call
             /\ Head(lane).kind # "create" => Head(lane).call = NoCall
  <2>1. Head(lane) = lane[1] /\ 1 \in DOMAIN lane /\ Head(lane) \in Task
    BY <1>2, <1>5
  <2> QED
    BY <1>1, <2>1 DEF LaneFits, SessionFits, LaneItems, Task
<1>6. CASE StartInit
  <2>1. job' = [kind |-> "init", call |-> NoCall, pc |-> "resolve", anchor |-> NoDir,
                fallback |-> FALSE, todo |-> {}, evicted |-> {}]
    BY <1>5, <1>6 DEF StartInit, Start, Began, Idle
  <2>2. session = "initializing" /\ job = Idle
    <3>1. Head(lane) = lane[1] /\ 1 \in DOMAIN lane
      BY <1>2, <1>6 DEF StartInit, Start
    <3> QED
      BY <1>1, <1>6, <3>1 DEF StartInit, Start, LaneFits, SessionFits, LaneItems
  <2>3. KnownRoots' = {}
    BY <1>1, <1>2, <1>6, <2>2 DEF PrimaryFits, Starting, Idle, KnownRoots, StartInit
  <2> QED
    BY <2>1, <2>3 DEF JobFits, JobShape, JobPlace, Jobs, Anchored, Adding, Awaits, Kinds
<1>7. CASE StartIndexAll
  <2>1. job' = [kind |-> "indexAll", call |-> NoCall, pc |-> IF shuttingDown \/ Primary = 0 THEN "end" ELSE "discover",
                anchor |-> primaryRoot, fallback |-> FALSE, todo |-> {}, evicted |-> {}]
    BY <1>5, <1>7 DEF StartIndexAll, Start, Began, Idle
  <2>2. session = "indexing" /\ job = Idle
    <3>1. Head(lane) = lane[1] /\ 1 \in DOMAIN lane
      BY <1>2, <1>7 DEF StartIndexAll, Start
    <3> QED
      BY <1>1, <1>7, <3>1 DEF StartIndexAll, Start, LaneFits, SessionFits, LaneItems
  <2>3. primaryRoot \in Dirs /\ contexts[primaryRoot] # 0 /\ contexts' = contexts
    BY <1>1, <1>2, <1>7, <2>2 DEF PrimaryFits, LaneFits, SessionFits, LaneItems, Starting, Idle, StartIndexAll
  <2>4. job'.pc \in {"end", "discover"}
    BY <2>1
  <2> QED
    BY <2>1, <2>3, <2>4 DEF JobFits, JobShape, JobPlace, Jobs, Anchored, Adding, Awaits, Kinds
<1>8. CASE StartCreate
  <2> DEFINE d == DirOf[Head(lane).call.file]
  <2>1. CASE job' # Idle
    <3>1. job' = [kind |-> "create", call |-> Head(lane).call, pc |-> "resolve", anchor |-> NoDir,
                  fallback |-> FALSE, todo |-> {}, evicted |-> {}] /\ OwnerRoot(d) = NoDir
      BY <1>8, <2>1 DEF StartCreate, Start, Began, Idle
    <3>2. Head(lane).call \in Call /\ d \in Dirs /\ UNCHANGED contexts
      BY <1>5, <1>8, RegistryAssumption DEF StartCreate, Start, Call
    <3>3. KnownRoots \cap Above[d] = {}
      BY <1>1, <1>2, <3>1, <3>2, OwnerIs, NearestIs DEF Coherent
    <3>4. KnownRoots' = KnownRoots
      BY <3>2 DEF KnownRoots
    <3> QED
      BY <3>1, <3>2, <3>3, <3>4 DEF JobFits, JobShape, JobPlace, Jobs, Anchored, Adding, Awaits, Kinds
  <2> QED
    BY <1>4, <2>1
<1>9. CASE StartReload
  <2>1. CASE Rebuild /\ workspaceRoot # NoDir
    <3>1. job' = [kind |-> "reload", call |-> NoCall, pc |-> "resolve", anchor |-> NoDir,
                  fallback |-> FALSE, todo |-> {}, evicted |-> {}]
      BY <2>1 DEF Rebuild, Idle
    <3>2. KnownRoots' = {}
      BY <2>1 DEF Rebuild, KnownRoots
    <3>3. workspaceRoot' # NoDir
      BY <1>9, <2>1 DEF StartReload, disk
    <3> QED
      BY <3>1, <3>2, <3>3 DEF JobFits, JobShape, JobPlace, Jobs, Anchored, Adding, Awaits, Kinds
  <2>2. CASE Began("reload", NoDir)
    <3>1. job' = [kind |-> "reload", call |-> NoCall, pc |-> "reload", anchor |-> NoDir,
                  fallback |-> FALSE, todo |-> {}, evicted |-> {}]
      BY <1>5, <1>9, <2>2 DEF StartReload, Start, Began, Idle
    <3> QED
      BY <3>1 DEF JobFits, JobShape, JobPlace, Jobs, Anchored, Adding, Awaits, Kinds
  <2> QED
    BY <1>4, <1>9, <2>1, <2>2 DEF StartReload
<1>10. CASE Reloaded
  <2>1. CASE Rebuild /\ workspaceRoot # NoDir
    <3>1. job' = [kind |-> "reload", call |-> NoCall, pc |-> "resolve", anchor |-> NoDir,
                  fallback |-> FALSE, todo |-> {}, evicted |-> {}]
      BY <2>1 DEF Rebuild, Idle
    <3>2. KnownRoots' = {} /\ workspaceRoot' # NoDir
      BY <1>10, <2>1 DEF Rebuild, KnownRoots, Reloaded, disk
    <3> QED
      BY <3>1, <3>2 DEF JobFits, JobShape, JobPlace, Jobs, Anchored, Adding, Awaits, Kinds
  <2> QED
    BY <1>4, <1>10, <2>1 DEF Reloaded
<1>11. CASE ResolvePrimary
  <2>1. job.pc = "resolve" /\ job.kind \in {"init", "reload"} /\ UNCHANGED <<contexts, workspaceRoot>>
    BY <1>11 DEF ResolvePrimary, disk
  <2>2. workspaceRoot \in Dirs
    BY <1>1, <2>1, RegistryAssumption DEF TypeOK, JobFits, JobPlace, LaneFits, SessionFits, LaneItems, Starting
  <2>3. ConfigRoot(workspaceRoot) \in Dirs \cup {NoDir}
    BY <2>2, ConfigRootIs
  <2>4. PICK root \in Dirs : job' = [job EXCEPT !.pc = "load", !.anchor = root]
    BY <1>11, <2>2, <2>3 DEF ResolvePrimary
  <2>5. /\ job'.kind = job.kind /\ job'.call = job.call /\ job'.pc = "load" /\ job'.anchor = root
        /\ job'.fallback = job.fallback /\ job'.todo = job.todo /\ job'.evicted = job.evicted
        /\ job' \in Jobs
    BY <1>2, <2>4 DEF Jobs, Awaits
  <2>6. KnownRoots = {} /\ KnownRoots' = {}
    BY <1>1, <2>1 DEF JobFits, JobShape, JobPlace, KnownRoots
  <2>7. contexts'[root] = 0
    BY <2>1, <2>6 DEF KnownRoots
  <2>8. job.call = NoCall /\ ~job.fallback
    BY <1>1, <2>1 DEF JobFits, JobShape, JobPlace
  <2> QED
    BY <1>2, <2>1, <2>2, <2>5, <2>6, <2>7, <2>8, RegistryAssumption DEF JobFits, JobShape, JobPlace, Anchored, Adding
<1>12. CASE ResolveDocument
  <2> DEFINE found == IF walkUpCache[dir] # Absent THEN walkUpCache[dir] ELSE ConfigRoot(dir)
             anchor == IF found = NoDir THEN dir ELSE found
             pc == IF found # NoDir /\ contexts[found] # 0 THEN "discover" ELSE "load"
  <2>1. job.pc = "resolve" /\ job.kind = "create" /\ UNCHANGED <<contexts, workspaceRoot, primaryRoot>>
    BY <1>12 DEF ResolveDocument, disk
  <2>2. job.call \in Call /\ dir \in Dirs /\ KnownRoots \cap Above[dir] = {}
    BY <1>1, <2>1, RegistryAssumption DEF JobFits, JobShape, JobPlace, Call
  <2>3. found = NoDir \/ (found \in Dirs /\ found \in Above[dir])
    BY <1>1, <1>2, <2>2, ConfigRootIs DEF MapsMatch
  <2>4. anchor \in Dirs /\ anchor \in Above[dir]
    BY <1>2, <2>2, <2>3
  <2>5. KnownRoots' = KnownRoots /\ Primary' = Primary
    BY <2>1 DEF KnownRoots, Primary
  <2>6. contexts[anchor] = 0
    BY <2>2, <2>4 DEF KnownRoots
  <2>7. CASE job' = [job EXCEPT !.anchor = anchor, !.fallback = found = NoDir, !.pc = pc]
              /\ ~(found = NoDir /\ Primary # 0)
    <3>1. found # NoDir => anchor = found
      OBVIOUS
    <3>2. pc = "load"
      BY <2>6, <3>1
    <3>3. (found = NoDir) \in BOOLEAN
      OBVIOUS
    <3> DEFINE fallback == found = NoDir
    <3> HIDE DEF pc, anchor, found, fallback
    <3>4. /\ job'.kind = job.kind /\ job'.call = job.call /\ job'.pc = "load" /\ job'.anchor = anchor
          /\ job'.todo = job.todo /\ job'.evicted = job.evicted
          /\ job' \in Jobs /\ (job'.fallback <=> found = NoDir)
      BY <1>2, <2>4, <2>7, <3>2, <3>3 DEF Jobs, Awaits
    <3>5. found = NoDir => anchor = dir /\ Primary = 0
      BY <2>7 DEF anchor
    <3>6. found = NoDir => workspaceRoot = NoDir
      BY <1>1, <1>2, <2>1, <3>5 DEF PrimaryFits, Primary, LaneFits, SessionFits, LaneItems, Idle
    <3> QED
      BY <2>1, <2>2, <2>4, <2>5, <2>6, <3>4, <3>5, <3>6 DEF JobFits, JobShape, JobPlace, Anchored, Adding
  <2>8. job' = Idle \/ (/\ job' = [job EXCEPT !.anchor = anchor, !.fallback = found = NoDir, !.pc = pc]
                        /\ ~(found = NoDir /\ Primary # 0))
    BY <1>12 DEF ResolveDocument
  <2> QED
    BY <1>4, <2>7, <2>8
<1>13. CASE AnchorLoaded
  <2>1. job.pc = "load" /\ job.anchor \in Dirs /\ CreateContext(job.anchor, job.fallback) /\ UNCHANGED workspaceRoot
    BY <1>1, <1>13 DEF AnchorLoaded, JobFits, JobShape, Anchored, disk
  <2>2. contexts' = [contexts EXCEPT ![job.anchor] = Len(ctxs) + 1]
    BY <2>1 DEF CreateContext
  <2>3. contexts'[job.anchor] # 0
    BY <1>2, <2>1, <2>2
  <2>4. PICK pc \in {"end", "discover"} : job' = [job EXCEPT !.pc = pc] /\ (job.kind = "init" => pc = "end")
                                           /\ (job.fallback => pc = "end")
    BY <1>13 DEF AnchorLoaded
  <2>5. /\ job'.kind = job.kind /\ job'.call = job.call /\ job'.pc = pc /\ job'.anchor = job.anchor
        /\ job'.fallback = job.fallback /\ job'.todo = job.todo /\ job'.evicted = job.evicted
        /\ job' \in Jobs
    BY <1>2, <2>4 DEF Jobs, Awaits
  <2>8. JobShape'
    BY <1>1, <2>1, <2>3, <2>4, <2>5 DEF JobFits, JobShape, Anchored, Adding, Idle
  <2>9. JobPlace'
    BY <1>1, <2>1, <2>3, <2>4, <2>5 DEF JobFits, JobPlace, Anchored, Adding
  <2> QED
    BY <2>8, <2>9 DEF JobFits
<1>14. CASE Discovered
  <2>1. job.pc = "discover" /\ UNCHANGED <<contexts, workspaceRoot, primaryRoot>>
    BY <1>14 DEF Discovered, disk
  <2>2. PICK T : T = {n \in NestedRoots(job.anchor) : contexts[n] = 0 /\ NearestRoot(n, KnownRoots) \in {job.anchor, NoDir}}
                 /\ job' = [job EXCEPT !.todo = T, !.pc = "nested"]
    BY <1>14 DEF Discovered
  <2>3. \A n \in T : n \in Dirs /\ contexts[n] = 0 /\ job.anchor \in Above[n]
    BY <2>2 DEF NestedRoots
  <2>4. T \in SUBSET Dirs
    BY <2>3
  <2>5. /\ job'.kind = job.kind /\ job'.call = job.call /\ job'.pc = "nested" /\ job'.anchor = job.anchor
        /\ job'.fallback = job.fallback /\ job'.todo = T /\ job'.evicted = job.evicted
        /\ job' \in Jobs
    BY <1>2, <2>2, <2>4 DEF Jobs, Awaits
  <2>8. JobShape'
    BY <1>1, <2>1, <2>3, <2>5 DEF JobFits, JobShape, Anchored, Adding, Idle
  <2>9. JobPlace'
    BY <1>1, <2>1, <2>3, <2>5 DEF JobFits, JobPlace, Anchored, Adding
  <2> QED
    BY <2>8, <2>9 DEF JobFits
<1>15. CASE NestedLoaded
  <2>1. PICK n \in job.todo : CreateContext(n, FALSE) /\ job' = [job EXCEPT !.todo = job.todo \ {n}]
    BY <1>15 DEF NestedLoaded
  <2>2. job.pc = "nested" /\ UNCHANGED workspaceRoot /\ contexts' = [contexts EXCEPT ![n] = Len(ctxs) + 1]
    BY <1>15, <2>1 DEF NestedLoaded, CreateContext, disk
  <2>3. job.todo \in SUBSET Dirs /\ n \in Dirs
    BY <1>2 DEF Jobs
  <2>4. /\ job'.kind = job.kind /\ job'.call = job.call /\ job'.pc = "nested" /\ job'.anchor = job.anchor
        /\ job'.fallback = job.fallback /\ job'.todo = job.todo \ {n} /\ job'.evicted = job.evicted
        /\ job' \in Jobs
    BY <1>2, <2>1, <2>2, <2>3 DEF Jobs
  <2>5. job.anchor \in Dirs /\ contexts[job.anchor] # 0 /\ contexts'[job.anchor] # 0
    BY <1>1, <1>2, <2>2, <2>3 DEF JobFits, JobShape, JobPlace, Anchored, Adding
  <2>6. \A m \in job.todo \ {n} : contexts'[m] = contexts[m]
    BY <1>2, <2>2, <2>3
  <2>8. JobShape'
    BY <1>1, <2>2, <2>4, <2>5, <2>6 DEF JobFits, JobShape, Anchored, Adding, Idle
  <2>9. JobPlace'
    BY <1>1, <2>2, <2>4, <2>5, <2>6 DEF JobFits, JobPlace, Anchored, Adding
  <2> QED
    BY <2>8, <2>9 DEF JobFits
<1>16. CASE EvictForeignFiles
  <2>1. job.pc = "nested" /\ UNCHANGED <<contexts, workspaceRoot, primaryRoot>>
    BY <1>16 DEF EvictForeignFiles, disk
  <2>2. PICK E : E = UNION {Foreign(i) : i \in Mapped} /\ job' = [job EXCEPT !.pc = "index", !.evicted = E]
    BY <1>16 DEF EvictForeignFiles
  <2>3. ASSUME NEW i \in Mapped, NEW f \in Foreign(i) PROVE f \in Documents /\ job.anchor \in Above[DirOf[f]]
    <3>1. ctxs[i] \in Context
      BY <1>1, <1>2 DEF Mapped, KnownRoots, TypeOK
    <3> QED
      BY <3>1 DEF Foreign, Context
  <2>4. E \in SUBSET Documents /\ \A f \in E : job.anchor \in Above[DirOf[f]]
    BY <2>2, <2>3
  <2>5. /\ job'.kind = job.kind /\ job'.call = job.call /\ job'.pc = "index" /\ job'.anchor = job.anchor
        /\ job'.fallback = job.fallback /\ job'.todo = job.todo /\ job'.evicted = E
        /\ job' \in Jobs
    BY <1>2, <2>2, <2>4 DEF Jobs, Awaits
  <2>8. JobShape'
    BY <1>1, <2>1, <2>4, <2>5 DEF JobFits, JobShape, Anchored, Adding, Idle
  <2>9. JobPlace'
    BY <1>1, <2>1, <2>4, <2>5 DEF JobFits, JobPlace, Anchored, Adding
  <2> QED
    BY <2>8, <2>9 DEF JobFits
<1>17. CASE HandOver
  <2>1. job.pc = "index" /\ UNCHANGED <<contexts, workspaceRoot, primaryRoot>> /\ job' = [job EXCEPT !.pc = "end"]
    BY <1>17 DEF HandOver, disk
  <2>2. /\ job'.kind = job.kind /\ job'.call = job.call /\ job'.pc = "end" /\ job'.anchor = job.anchor
        /\ job'.fallback = job.fallback /\ job'.todo = job.todo /\ job'.evicted = job.evicted
        /\ job' \in Jobs
    BY <1>2, <2>1 DEF Jobs, Awaits
  <2>8. JobShape'
    BY <1>1, <2>1, <2>2 DEF JobFits, JobShape, Anchored, Adding, Idle
  <2>9. JobPlace'
    BY <1>1, <2>1, <2>2 DEF JobFits, JobPlace, Anchored, Adding
  <2> QED
    BY <2>8, <2>9 DEF JobFits
<1>18. CASE EndTask
  BY <1>4, <1>18 DEF EndTask
<1>19. CASE IndexProject \/ RegisterWatchers \/ ReloadTimer \/ Shutdown \/ UNCHANGED vars
  BY <1>3, <1>19 DEF IndexProject, RegisterWatchers, ReloadTimer, Shutdown, vars, disk
<1>20. CASE \/ \E f \in Documents : Open(f) \/ Edit(f) \/ ParseTimer(f) \/ ReindexNext(f)
            \/ \E g \in got : Parsed(g)
            \/ \E d \in Dirs : ChangeConfig(d)
  BY <1>3, <1>20 DEF Open, Edit, ParseTimer, ReindexNext, Parsed, ChangeConfig, disk
<1> QED
  BY <1>6, <1>7, <1>8, <1>9, <1>10, <1>11, <1>12, <1>13, <1>14, <1>15, <1>16, <1>17, <1>18, <1>19, <1>20
     DEF Next, LaneStep

-------------------------------------------------------------------------------
\* What is in the lane once its first task is taken.
LEMMA TailItems ==
  ASSUME NEW S, NEW s \in Seq(S), s # <<>>
  PROVE  /\ Tail(s) \in Seq(S) /\ 1 \in DOMAIN s /\ Head(s) = s[1] /\ s[1] \in S
         /\ \A i \in DOMAIN Tail(s) : i + 1 \in DOMAIN s /\ Tail(s)[i] = s[i + 1] /\ i + 1 > 1
         /\ \A i \in DOMAIN s : i = 1 \/ \E j \in DOMAIN Tail(s) : Tail(s)[j] = s[i]
<1>1. ASSUME NEW i \in DOMAIN s, i # 1 PROVE i - 1 \in DOMAIN Tail(s) /\ Tail(s)[i - 1] = s[i]
  BY <1>1
<1> QED
  BY <1>1

\* The lane is what it was, and calls are queued behind it.
Queued ==
  /\ lane' \in Seq(Task)
  /\ \A i \in DOMAIN lane : i \in DOMAIN lane' /\ lane'[i] = lane[i]
  /\ \A i \in DOMAIN lane' : i \in DOMAIN lane \/ (lane'[i].kind = "create" /\ lane'[i].call \in Call)

LEMMA EnsureQueues ==
  ASSUME TypeOK, NEW call \in Call, EnsureContextFor(call)
  PROVE  /\ Queued
         /\ startupOpen => gate' = gate
         /\ ~startupOpen => lane' = lane
<1>1. lane \in Seq(Task)
  BY DEF TypeOK
<1>2. CASE lane' = lane
  <2>1. Queued
    BY <1>1, <1>2 DEF Queued
  <2> QED
    BY <1>2, <2>1 DEF EnsureContextFor
<1>3. CASE lane' = Append(lane, [kind |-> "create", call |-> call]) /\ startupOpen /\ gate' = gate
  <2> DEFINE t == [kind |-> "create", call |-> call]
  <2>1. t \in Task /\ t.kind = "create" /\ t.call \in Call
    BY CreateTask
  <2> HIDE DEF t
  <2>2. lane' = Append(lane, t)
    BY <1>3 DEF t
  <2>3. lane' \in Seq(Task) /\ \A i \in DOMAIN lane : i \in DOMAIN lane' /\ lane'[i] = lane[i]
    BY <1>1, <2>1, <2>2
  <2>4. \A i \in DOMAIN lane' : i \in DOMAIN lane \/ lane'[i] = t
    BY <1>1, <2>1, <2>2
  <2>5. \A i \in DOMAIN lane' : i \in DOMAIN lane \/ (lane'[i].kind = "create" /\ lane'[i].call \in Call)
    BY <2>1, <2>4
  <2>6. Queued
    BY <2>3, <2>5 DEF Queued
  <2> QED
    BY <1>3, <2>6
<1> QED
  BY <1>2, <1>3 DEF EnsureContextFor

LEMMA FinishQueues ==
  ASSUME TypeOK, NEW also, FinishStartup(also)
  PROVE  /\ Queued
         /\ \A i \in Slow : \E j \in DOMAIN lane' : lane'[j] = [kind |-> "create", call |-> gate[i]]
<1> DEFINE n == Cardinality(Slow)
           more == [k \in 1..n |-> [kind |-> "create", call |-> gate[SlowPlace(k)]]]
<1>1. lane \in Seq(Task) /\ gate \in Seq(Call)
  BY DEF TypeOK
<1>2. /\ n \in Nat /\ \A k \in 1..n : SlowPlace(k) \in Slow
      /\ \A i \in Slow : \E k \in 1..n : SlowPlace(k) = i
  BY <1>1, SlowPlaces
<1>3. \A i \in Slow : gate[i] \in Call
  BY <1>1 DEF Slow
<1>4. \A k \in 1..n : more[k] \in Task /\ more[k].kind = "create" /\ more[k].call \in Call
  BY <1>2, <1>3, CreateTask
<1>5. \A i \in Slow : \E k \in 1..n : more[k] = [kind |-> "create", call |-> gate[i]]
  BY <1>2
<1>6. lane' = lane \o more
  BY DEF FinishStartup
<1>7. more \in Seq(Task) /\ Len(more) = n
  <2> HIDE DEF n
  <2> QED
    BY <1>2, <1>4, IsSequence
<1> HIDE DEF more, n
<1>0. lane \o more \in Seq(Task) /\ Len(lane \o more) = Len(lane) + n
  BY <1>1, <1>7
<1>8. Len(lane) \in Nat /\ Len(lane') = Len(lane) + n /\ DOMAIN lane' = 1..(Len(lane) + n)
      /\ DOMAIN lane = 1..Len(lane) /\ lane' \in Seq(Task)
  BY <1>0, <1>1, <1>2, <1>6
<1>9. \A i \in 1..Len(lane) : lane'[i] = lane[i]
  BY <1>1, <1>6, <1>7, <1>8
<1>10. \A k \in 1..n : lane'[Len(lane) + k] = more[k]
  BY <1>1, <1>2, <1>6, <1>7, <1>8
<1>11. ASSUME NEW i \in DOMAIN lane', i \notin DOMAIN lane
       PROVE  lane'[i].kind = "create" /\ lane'[i].call \in Call
  <2>1. i - Len(lane) \in 1..n /\ i = Len(lane) + (i - Len(lane))
    BY <1>2, <1>8, <1>11
  <2>2. lane'[i] = more[i - Len(lane)]
    BY <1>10, <2>1
  <2> QED
    BY <1>4, <2>1, <2>2
<1>12. ASSUME NEW i \in Slow PROVE \E j \in DOMAIN lane' : lane'[j] = [kind |-> "create", call |-> gate[i]]
  <2>1. PICK k \in 1..n : more[k] = [kind |-> "create", call |-> gate[i]]
    BY <1>5
  <2>2. Len(lane) + k \in DOMAIN lane'
    BY <1>2, <1>8
  <2> QED
    BY <1>10, <2>1, <2>2
<1>13. \A i \in DOMAIN lane : i \in DOMAIN lane' /\ lane'[i] = lane[i]
  BY <1>2, <1>8, <1>9
<1>14. Queued
  BY <1>8, <1>11, <1>13 DEF Queued
<1> QED
  BY <1>12, <1>14

\* The lane and the session as calls of ensureContextFor leave them.
LEMMA QueuedKeeps ==
  ASSUME TypeOK, JobFits, LaneFits, Queued, UNCHANGED <<job, workspaceRoot>>,
         session = "initializing" => ~timer' /\ lane' = lane /\ session' = session,
         session' = session
  PROVE  SessionFits' /\ LaneItems'
<1>1. lane \in Seq(Task)
  BY DEF TypeOK
<1>2. LaneItems'
  BY DEF LaneFits, LaneItems, Queued, NoCall, Idle
<1>3. SessionFits'
  <2>1. lane # <<>> => /\ 1 \in DOMAIN lane /\ lane' # <<>> /\ lane'[1] = lane[1]
    BY <1>1 DEF Queued
  <2> QED
    BY <2>1 DEF LaneFits, SessionFits, Starting
<1> QED
  BY <1>2, <1>3

\* A task that waits for its next await, the gate armed before and after.
LEMMA MovedKeeps ==
  ASSUME JobFits, LaneFits, UNCHANGED <<session, lane, timer, workspaceRoot, gate, startupOpen>>,
         job'.kind = job.kind, job.kind # "none",
         job.pc \notin {"idle", "reload"}, ~(job.kind = "create" /\ job.pc = "resolve"),
         job'.pc \notin {"idle", "resolve", "reload"}
  PROVE  LaneFits'
<1>1. job # Idle /\ job' # Idle
  BY DEF Idle
<1>2. SessionFits'
  BY <1>1 DEF LaneFits, SessionFits, Starting
<1>3. LaneItems'
  BY <1>1 DEF LaneFits, LaneItems
<1>4. GateFits'
  BY <1>1 DEF LaneFits, GateFits, Starting
<1> QED
  BY <1>2, <1>3, <1>4 DEF LaneFits

\* One step keeps the lane, the gate and the session together.
LEMMA LaneKeeps ==
  ASSUME RegistryInv, [Next]_vars
  PROVE  LaneFits'
<1>1. TypeOK /\ JobFits /\ LaneFits /\ CacheFresh
  BY DEF RegistryInv, Coherent
<1>2. /\ lane \in Seq(Task) /\ session \in {"initializing", "indexing", "indexed", "watching"}
      /\ startupOpen \in BOOLEAN /\ timer \in BOOLEAN /\ job \in Jobs
  BY <1>1 DEF TypeOK, JobFits, JobShape
<1>3. CASE UNCHANGED <<session, lane, job, startupOpen, gate, workspaceRoot>> /\ (timer' = timer \/ ~timer')
  BY <1>1, <1>3 DEF LaneFits, SessionFits, LaneItems, GateFits, Starting
<1>4. ASSUME NEW f \in Documents, NEW by \in {"event", "reindex"}, EnsureContextFor([by |-> by, file |-> f]),
             UNCHANGED <<session, job, startupOpen, workspaceRoot, timer>>
      PROVE  LaneFits'
  <2>1. [by |-> by, file |-> f] \in Call
    BY DEF Call
  <2>2. Queued /\ (startupOpen => gate' = gate) /\ (~startupOpen => lane' = lane)
    BY <1>1, <1>4, <2>1, EnsureQueues
  <2>3. session = "initializing" => ~startupOpen /\ ~timer
    BY <1>1 DEF LaneFits, SessionFits, GateFits, Starting
  <2>4. SessionFits' /\ LaneItems'
    BY <1>1, <1>4, <2>2, <2>3, QueuedKeeps
  <2>5. GateFits'
    BY <1>1, <1>2, <1>4, <2>2 DEF LaneFits, GateFits, Starting
  <2> QED
    BY <2>4, <2>5 DEF LaneFits
\* The next task leaves the lane.
<1>5. ASSUME lane # <<>>, job = Idle, lane' = Tail(lane), UNCHANGED <<session, workspaceRoot, timer>>,
             Head(lane).kind \in {"init", "indexAll"} => job'.kind = Head(lane).kind,
             Head(lane).kind \notin {"init", "indexAll"} => job'.kind \notin {"init", "indexAll"}
      PROVE  SessionFits' /\ LaneItems' /\ (Head(lane).kind \in {"create", "reload"} => ~Starting)
  <2>1. /\ Head(lane) = lane[1] /\ 1 \in DOMAIN lane
        /\ \A i \in DOMAIN Tail(lane) : i + 1 \in DOMAIN lane /\ Tail(lane)[i] = lane[i + 1] /\ i + 1 > 1
    BY <1>2, <1>5, TailItems
  <2>2. session = "initializing" => lane = << [kind |-> "init", call |-> NoCall] >> /\ ~timer
    BY <1>1, <1>5 DEF LaneFits, SessionFits, Idle
  <2>3. session = "indexing" => Head(lane).kind = "indexAll"
    BY <1>1, <1>5, <2>1 DEF LaneFits, SessionFits, Idle
  <2>4. session = "initializing" => Head(lane).kind = "init" /\ Tail(lane) = <<>>
    BY <2>1, <2>2
  <2>5. LaneItems'
    <3>1. ASSUME NEW i \in DOMAIN Tail(lane)
          PROVE  /\ Tail(lane)[i].kind # "indexAll"
                 /\ Tail(lane)[i].kind = "init" => session = "initializing"
                 /\ Tail(lane)[i].kind = "create" => Tail(lane)[i].call \in Call
                 /\ Tail(lane)[i].kind # "create" => Tail(lane)[i].call = NoCall
      <4>1. i + 1 \in DOMAIN lane /\ Tail(lane)[i] = lane[i + 1] /\ i + 1 # 1
        BY <2>1
      <4> QED
        BY <1>1, <4>1 DEF LaneFits, LaneItems
    <3> QED
      BY <1>5, <3>1 DEF LaneItems, NoCall
  <2>6. Head(lane).kind = "init" => session = "initializing"
    BY <1>1, <2>1 DEF LaneFits, LaneItems
  <2>7. Head(lane).kind = "indexAll" => session = "indexing"
    BY <1>1, <2>1 DEF LaneFits, LaneItems
  <2>8. SessionFits'
    BY <1>1, <1>5, <2>2, <2>3, <2>4, <2>6, <2>7 DEF LaneFits, SessionFits, Starting
  <2>9. Head(lane).kind \in {"create", "reload"} => ~Starting
    BY <2>3, <2>4 DEF Starting
  <2> QED
    BY <2>5, <2>8, <2>9
<1>6. CASE StartInit
  <2>1. lane # <<>> /\ job = Idle /\ lane' = Tail(lane) /\ Head(lane).kind = "init" /\ job'.kind = "init"
        /\ job'.pc = "resolve" /\ UNCHANGED <<session, workspaceRoot, timer, startupOpen, gate>>
    BY <1>6 DEF StartInit, Start, Began, Idle, disk, watch
  <2>2. SessionFits' /\ LaneItems'
    BY <1>5, <2>1
  <2>3. session = "initializing"
    BY <2>1, <2>2 DEF SessionFits
  <2>4. GateFits'
    BY <1>1, <1>2, <2>1, <2>3 DEF LaneFits, GateFits, Starting
  <2> QED
    BY <2>2, <2>4 DEF LaneFits
<1>7. CASE StartIndexAll
  <2>1. lane # <<>> /\ job = Idle /\ lane' = Tail(lane) /\ Head(lane).kind = "indexAll" /\ job'.kind = "indexAll"
        /\ UNCHANGED <<session, workspaceRoot, timer, startupOpen, gate>>
    BY <1>7 DEF StartIndexAll, Start, Began, Idle, disk, watch
  <2>2. SessionFits' /\ LaneItems'
    BY <1>5, <2>1
  <2>3. session = "indexing"
    BY <2>1, <2>2 DEF SessionFits
  <2>4. GateFits'
    BY <1>1, <1>2, <2>1, <2>3 DEF LaneFits, GateFits, Starting
  <2> QED
    BY <2>2, <2>4 DEF LaneFits
<1>8. CASE StartCreate
  <2>1. lane # <<>> /\ job = Idle /\ lane' = Tail(lane) /\ Head(lane).kind = "create"
        /\ UNCHANGED <<session, workspaceRoot, timer, startupOpen, gate>>
    BY <1>8 DEF StartCreate, Start, disk, watch
  <2>2. job' = Idle \/ (job'.kind = "create" /\ job'.pc = "resolve")
    BY <1>8, <2>1 DEF StartCreate, Began, Idle
  <2>3. job'.kind \notin {"init", "indexAll"}
    BY <2>2 DEF Idle
  <2>4. SessionFits' /\ LaneItems' /\ ~Starting
    BY <1>5, <2>1, <2>3
  <2>5. GateFits'
    BY <1>1, <1>2, <2>1, <2>2, <2>4 DEF LaneFits, GateFits, Starting
  <2> QED
    BY <2>4, <2>5 DEF LaneFits
<1>9. CASE StartReload
  <2>1. lane # <<>> /\ job = Idle /\ lane' = Tail(lane) /\ Head(lane).kind = "reload"
        /\ UNCHANGED <<session, workspaceRoot, timer, gate>>
    BY <1>9 DEF StartReload, Start, disk
  <2>2. \/ job' = Idle /\ startupOpen' = startupOpen
        \/ job'.kind = "reload" /\ job'.pc = "reload" /\ startupOpen' = startupOpen
        \/ job'.kind = "reload" /\ job'.pc = "resolve" /\ startupOpen' = FALSE
    BY <1>9, <2>1 DEF StartReload, Began, Idle, Rebuild
  <2>3. job'.kind \notin {"init", "indexAll"}
    BY <2>2 DEF Idle
  <2>4. SessionFits' /\ LaneItems' /\ ~Starting
    BY <1>5, <2>1, <2>3
  <2>5. GateFits'
    BY <1>1, <1>2, <2>1, <2>2, <2>4 DEF LaneFits, GateFits, Starting, Idle
  <2> QED
    BY <2>4, <2>5 DEF LaneFits
<1>10. CASE Reloaded
  <2>1. job.pc = "reload" /\ UNCHANGED <<session, workspaceRoot, timer, gate, lane>>
    BY <1>10 DEF Reloaded, disk, watch
  <2>2. \/ job' = Idle /\ startupOpen' = startupOpen
        \/ job'.kind = "reload" /\ job'.pc = "resolve" /\ startupOpen' = FALSE
    BY <1>10 DEF Reloaded, Idle, Rebuild
  <2>3. job.kind = "reload" /\ job # Idle
    BY <1>1, <1>2, <2>1 DEF JobFits, JobShape, Anchored, Adding, Idle, Jobs, Kinds
  <2>4. ~Starting
    BY <1>1, <2>3 DEF LaneFits, SessionFits, Starting
  <2>5. SessionFits' /\ LaneItems'
    BY <1>1, <2>1, <2>2, <2>3, <2>4 DEF LaneFits, SessionFits, LaneItems, Starting, Idle
  <2>6. GateFits'
    BY <1>1, <1>2, <2>1, <2>2, <2>4 DEF LaneFits, GateFits, Starting, Idle
  <2> QED
    BY <2>5, <2>6 DEF LaneFits
<1>11. CASE ResolvePrimary \/ AnchorLoaded \/ Discovered \/ NestedLoaded \/ EvictForeignFiles \/ HandOver
  <2>1. UNCHANGED <<session, lane, timer, workspaceRoot, gate, startupOpen>> /\ job'.kind = job.kind
    BY <1>11, <1>2 DEF ResolvePrimary, AnchorLoaded, Discovered, NestedLoaded, EvictForeignFiles, HandOver,
                 disk, watch, Jobs
  <2>2. job.pc \in {"load", "discover", "nested", "index"} \/ (job.pc = "resolve" /\ job.kind # "create")
    BY <1>11 DEF ResolvePrimary, AnchorLoaded, Discovered, NestedLoaded, EvictForeignFiles, HandOver
  <2>3. job'.pc \notin {"idle", "resolve", "reload"}
    BY <1>11, <1>2 DEF ResolvePrimary, AnchorLoaded, Discovered, NestedLoaded, EvictForeignFiles, HandOver, Jobs
  <2>4. job.kind # "none"
    BY <1>1, <2>2 DEF JobFits, JobShape, Idle
  <2> QED
    BY <1>1, <2>1, <2>2, <2>3, <2>4, MovedKeeps
<1>12. CASE ResolveDocument
  <2>1. job.pc = "resolve" /\ job.kind = "create" /\ UNCHANGED <<session, workspaceRoot, timer, gate, lane>>
    BY <1>12 DEF ResolveDocument, disk, watch
  <2>2. \/ job' = Idle /\ startupOpen' = startupOpen
        \/ job'.kind = "create" /\ job'.pc \in {"discover", "load"} /\ startupOpen' = FALSE
    BY <1>2, <1>12 DEF ResolveDocument, Jobs
  <2>3. job # Idle
    BY <2>1 DEF Idle
  <2>4. ~Starting
    BY <1>1, <2>1, <2>3 DEF LaneFits, SessionFits, Starting
  <2>5. SessionFits' /\ LaneItems'
    BY <1>1, <2>1, <2>2, <2>3, <2>4 DEF LaneFits, SessionFits, LaneItems, Starting, Idle
  <2>6. GateFits'
    BY <1>1, <1>2, <2>1, <2>2, <2>4 DEF LaneFits, GateFits, Starting, Idle
  <2> QED
    BY <2>5, <2>6 DEF LaneFits
<1>13. CASE EndTask
  <2>1. job.pc = "end" /\ job' = Idle /\ UNCHANGED <<workspaceRoot, timer>> /\ job # Idle /\ job.kind \in Kinds
    BY <1>1, <1>2, <1>13 DEF EndTask, disk, watch, Idle, JobFits, JobShape, Jobs
  <2>2. CASE job.kind = "init"
    <3>1. session = "initializing" /\ lane = <<>> /\ session' = "indexing" /\ UNCHANGED <<startupOpen, gate>>
          /\ workspaceRoot # NoDir
      BY <1>1, <1>13, <2>1, <2>2 DEF EndTask, LaneFits, SessionFits, Starting
    <3>2. lane' = << [kind |-> "indexAll", call |-> NoCall] >>
      BY <1>13, <2>2, <3>1 DEF EndTask
    <3>3. DOMAIN lane' = {1} /\ lane'[1].kind = "indexAll" /\ lane'[1].call = NoCall /\ lane' # <<>>
      BY <3>2
    <3>4. SessionFits'
      BY <2>1, <3>1, <3>3 DEF SessionFits, Starting, Idle
    <3>5. LaneItems'
      BY <2>1, <3>1, <3>3 DEF LaneItems, NoCall
    <3>6. GateFits'
      BY <1>1, <1>2, <3>1 DEF LaneFits, GateFits, Starting
    <3> QED
      BY <3>4, <3>5, <3>6 DEF LaneFits
  <2>3. CASE job.kind # "init"
    <3>1. PICK also : FinishStartup(also)
      BY <1>13, <2>3 DEF EndTask
    <3>2. Queued /\ startupOpen' = TRUE /\ gate' = <<>>
      BY <1>1, <3>1, FinishQueues DEF FinishStartup
    <3>3. session # "initializing" /\ session' = IF job.kind = "indexAll" THEN "indexed" ELSE session
      BY <1>1, <1>13, <2>1, <2>3 DEF EndTask, LaneFits, SessionFits
    <3>4. session' \notin {"initializing", "indexing"}
      BY <1>1, <1>2, <2>1, <3>3 DEF LaneFits, SessionFits
    <3>5. \A i \in DOMAIN lane : lane[i].kind \notin {"init", "indexAll"}
      BY <1>1, <2>1, <3>3 DEF LaneFits, LaneItems
    <3>6. LaneItems'
      BY <1>1, <3>2, <3>5 DEF LaneFits, LaneItems, Queued
    <3>7. SessionFits'
      BY <2>1, <3>4 DEF SessionFits, Starting, Idle
    <3>8. GateFits'
      BY <2>1, <3>2, <3>4 DEF GateFits, Starting
    <3> QED
      BY <3>6, <3>7, <3>8 DEF LaneFits
  <2> QED
    BY <2>2, <2>3
<1>14. CASE \E f \in Documents : Open(f) \/ ParseTimer(f) \/ ReindexNext(f)
  <2>1. PICK f \in Documents : Open(f) \/ ParseTimer(f) \/ ReindexNext(f)
    BY <1>14
  <2>2. UNCHANGED <<session, job, startupOpen, workspaceRoot, timer>>
    BY <2>1 DEF Open, ParseTimer, ReindexNext, disk, watch
  <2>3. \E by \in {"event", "reindex"} : EnsureContextFor([by |-> by, file |-> f])
    BY <2>1 DEF Open, ParseTimer, ReindexNext
  <2> QED
    BY <1>4, <2>2, <2>3
<1>15. CASE ReloadTimer
  <2> DEFINE t == [kind |-> "reload", call |-> NoCall]
  <2>1. timer /\ lane' = Append(lane, t) /\ ~timer' /\ UNCHANGED <<session, job, startupOpen, gate, workspaceRoot>>
    BY <1>15 DEF ReloadTimer, disk
  <2>2. session # "initializing"
    BY <1>1, <2>1 DEF LaneFits, SessionFits
  <2>3. t.kind = "reload" /\ t.call = NoCall /\ t \in Task
    BY DEF Task, Kinds
  <2> HIDE DEF t
  <2>4. \A i \in DOMAIN lane' : (i \in DOMAIN lane /\ lane'[i] = lane[i]) \/ lane'[i] = t
    BY <1>2, <2>1, <2>3
  <2>5. LaneItems'
    BY <1>1, <2>1, <2>3, <2>4 DEF LaneFits, LaneItems, NoCall
  <2>6. lane # <<>> => lane' # <<>> /\ lane'[1] = lane[1]
    BY <1>2, <2>1, <2>3
  <2>7. SessionFits'
    BY <1>1, <2>1, <2>2, <2>6 DEF LaneFits, SessionFits, Starting
  <2>8. GateFits'
    BY <1>1, <1>2, <2>1 DEF LaneFits, GateFits, Starting
  <2> QED
    BY <2>5, <2>7, <2>8 DEF LaneFits
<1>16. CASE \E d \in Dirs : ChangeConfig(d)
  <2>1. PICK d \in Dirs : ChangeConfig(d)
    BY <1>16
  <2>2. UNCHANGED <<session, lane, job, startupOpen, gate, workspaceRoot>>
    BY <2>1 DEF ChangeConfig
  <2>3. timer' = timer \/ session # "initializing"
    BY <1>2, <2>1 DEF ChangeConfig, Note
  <2> QED
    BY <1>1, <2>2, <2>3 DEF LaneFits, SessionFits, LaneItems, GateFits, Starting
<1>17. CASE RegisterWatchers
  BY <1>1, <1>2, <1>17 DEF RegisterWatchers, LaneFits, SessionFits, LaneItems, GateFits, Starting, disk, watch
<1>18. CASE IndexProject \/ Shutdown \/ UNCHANGED vars \/ (\E f \in Documents : Edit(f)) \/ (\E g \in got : Parsed(g))
  BY <1>3, <1>18 DEF IndexProject, Shutdown, vars, disk, watch, Edit, Parsed
<1> QED
  BY <1>6, <1>7, <1>8, <1>9, <1>10, <1>11, <1>12, <1>13, <1>14, <1>15, <1>16, <1>17, <1>18 DEF Next, LaneStep

-------------------------------------------------------------------------------
\* An owner that is found has a context.
LEMMA OwnerHasContext ==
  ASSUME TypeOK, CacheFresh, NEW f \in Documents, OwnerRoot(DirOf[f]) # NoDir
  PROVE  ContextFor(f) \in 1..Len(ctxs)
<1>1. DirOf[f] \in Dirs
  BY RegistryAssumption
<1>2. OwnerRoot(DirOf[f]) \in KnownRoots
  BY <1>1, OwnerIs, NearestIs
<1>3. ContextFor(f) # 0
  BY <1>2 DEF KnownRoots, ContextFor
<1> QED
  BY <1>3, ContextForType

\* One step keeps the types.
LEMMA TypeKeeps ==
  ASSUME RegistryInv, [Next]_vars
  PROVE  TypeOK'
<1> DEFINE Typing == /\ gate' \in Seq(Call) /\ lane' \in Seq(Task) /\ Answers(got') /\ startupOpen' \in BOOLEAN
                     /\ ownerCache' \in [Dirs -> Dirs \cup {NoDir, Absent}]
                     /\ walkUpCache' \in [Dirs -> Dirs \cup {NoDir, Absent}]
<1>1. TypeOK /\ JobFits /\ LaneFits /\ PrimaryFits /\ CacheFresh
  BY DEF RegistryInv, Coherent
<1>2. /\ gate \in Seq(Call) /\ lane \in Seq(Task) /\ Answers(got) /\ startupOpen \in BOOLEAN
      /\ ownerCache \in [Dirs -> Dirs \cup {NoDir, Absent}]
      /\ walkUpCache \in [Dirs -> Dirs \cup {NoDir, Absent}]
      /\ contexts \in [Dirs -> 0..Len(ctxs)] /\ primaryRoot \in Dirs \cup {NoDir} /\ Len(ctxs) \in Nat
      /\ job \in Jobs
  BY <1>1 DEF TypeOK, Answers, JobFits, JobShape
<1>3. EmptyCache \in [Dirs -> Dirs \cup {NoDir, Absent}]
  BY DEF EmptyCache
<1>4. lane # <<>> => Head(lane) \in Task /\ Tail(lane) \in Seq(Task)
        /\ (Head(lane).kind = "create" => Head(lane).call \in Call)
  <2>1. lane # <<>> => Head(lane) = lane[1] /\ 1 \in DOMAIN lane /\ Head(lane) \in Task /\ Tail(lane) \in Seq(Task)
    BY <1>2, TailItems
  <2> QED
    BY <1>1, <2>1 DEF LaneFits, LaneItems
<1>5. ASSUME UNCHANGED <<gate, lane, got, startupOpen, walkUpCache>>,
             ownerCache' = ownerCache \/ ownerCache' = EmptyCache \/ \E D : CacheOwners(D)
      PROVE  Typing
  BY <1>1, <1>2, <1>3, <1>5, CacheOwnersType
<1>6. ASSUME StartInit \/ StartIndexAll
      PROVE  Typing
  BY <1>2, <1>4, <1>6 DEF StartInit, StartIndexAll, Start, caches, handlers
<1>7. ASSUME StartCreate
      PROVE  Typing
  <2> DEFINE call == Head(lane).call
  <2>1. lane # <<>> /\ lane' = Tail(lane) /\ call \in Call /\ UNCHANGED <<gate, startupOpen, walkUpCache>>
    BY <1>4, <1>7 DEF StartCreate, Start
  <2>2. \E D : CacheOwners(D)
    BY <1>7 DEF StartCreate
  <2>3. got' = got \/ (got' = got \cup Answered({call}) /\ OwnerRoot(DirOf[call.file]) # NoDir)
    BY <1>7 DEF StartCreate
  <2>4. CASE got' = got \cup Answered({call}) /\ OwnerRoot(DirOf[call.file]) # NoDir
    <3>1. call.file \in Documents
      BY <2>1 DEF Call
    <3>2. ContextFor(call.file) \in 1..Len(ctxs)
      BY <1>1, <2>4, <3>1, OwnerHasContext
    <3>3. Answers(got')
      BY <1>2, <2>1, <2>4, <3>2 DEF Answers, Answered
    <3> QED
      BY <1>1, <1>2, <1>4, <2>1, <2>2, <3>3, CacheOwnersType
  <2> QED
    BY <1>1, <1>2, <1>4, <2>1, <2>2, <2>3, <2>4, CacheOwnersType
<1>8. ASSUME StartReload \/ Reloaded
      PROVE  Typing
  <2>1. gate' = gate /\ got' = got /\ lane' \in {lane, Tail(lane)} /\ (lane # <<>> \/ lane' = lane)
    BY <1>8 DEF StartReload, Reloaded, Start, handlers
  <2>2. \/ UNCHANGED <<startupOpen, ownerCache, walkUpCache>>
        \/ startupOpen' = FALSE /\ ownerCache' = EmptyCache /\ walkUpCache' = EmptyCache
    BY <1>8 DEF StartReload, Reloaded, Rebuild, caches
  <2> QED
    BY <1>2, <1>3, <1>4, <2>1, <2>2
<1>9. ASSUME ResolvePrimary \/ AnchorLoaded \/ Discovered \/ NestedLoaded
      PROVE  Typing
  BY <1>5, <1>9 DEF ResolvePrimary, AnchorLoaded, Discovered, NestedLoaded, CreateContext, caches, handlers
<1>10. ASSUME EvictForeignFiles \/ IndexProject \/ HandOver
      PROVE  Typing
  <2>1. \E D : CacheOwners(D)
    BY <1>10 DEF EvictForeignFiles, IndexProject, HandOver
  <2> QED
    BY <1>5, <1>10, <2>1 DEF EvictForeignFiles, IndexProject, HandOver, handlers
<1>11. ASSUME ResolveDocument
      PROVE  Typing
  <2> DEFINE dir == DirOf[job.call.file]
             found == IF walkUpCache[dir] # Absent THEN walkUpCache[dir] ELSE ConfigRoot(dir)
  <2>1. job.call \in Call /\ dir \in Dirs
    BY <1>1, <1>11, RegistryAssumption DEF ResolveDocument, JobFits, JobShape, Call
  <2>2. found \in Dirs \cup {NoDir}
    BY <1>2, <2>1, ConfigRootIs
  <2>3. walkUpCache' = [walkUpCache EXCEPT ![dir] = found] /\ UNCHANGED <<gate, lane, ownerCache>>
        /\ startupOpen' \in {startupOpen, FALSE}
    BY <1>11 DEF ResolveDocument
  <2>4. got' = got \/ (got' = got \cup {[call |-> job.call, ctx |-> Primary]} /\ Primary # 0)
    BY <1>11 DEF ResolveDocument
  <2> HIDE DEF found, dir
  <2>5. Answers(got')
    <3>1. Primary \in 0..Len(ctxs)
      BY <1>2 DEF Primary
    <3> QED
      BY <1>2, <2>1, <2>4, <3>1 DEF Answers
  <2> QED
    BY <1>2, <2>1, <2>2, <2>3, <2>5
<1>12. ASSUME EndTask
      PROVE  Typing
  <2>0. walkUpCache' = walkUpCache
    BY <1>12 DEF EndTask
  <2>1. CASE job.kind = "init"
    <3> DEFINE t == [kind |-> "indexAll", call |-> NoCall]
    <3>1. t \in Task
      BY DEF Task, Kinds
    <3>2. lane' = Append(lane, t) /\ UNCHANGED <<startupOpen, gate, got, ownerCache>>
      BY <1>12, <2>1 DEF EndTask
    <3> HIDE DEF t
    <3>3. lane' \in Seq(Task)
      BY <1>2, <3>1, <3>2
    <3> QED
      BY <1>2, <2>0, <3>2, <3>3
  <2>2. CASE job.kind # "init"
    <3>1. PICK also : FinishStartup(also) /\ (also = {} \/ (job.kind = "create" /\ also = {[call |-> job.call, ctx |-> contexts[job.anchor]]}))
      BY <1>12, <2>2 DEF EndTask
    <3>2. Answers(also)
      <4>1. CASE job.kind = "create" /\ also = {[call |-> job.call, ctx |-> contexts[job.anchor]]}
        <5>1. job.call \in Call /\ job.anchor \in Dirs /\ contexts[job.anchor] # 0
          BY <1>1, <1>12, <4>1 DEF EndTask, JobFits, JobShape, JobPlace, Anchored, Adding
        <5> QED
          BY <1>2, <4>1, <5>1 DEF Answers
      <4> QED
        BY <3>1, <4>1 DEF Answers
    <3> QED
      BY <1>1, <1>2, <2>0, <3>1, <3>2, FinishTypes
  <2> QED
    BY <2>1, <2>2
<1>13. ASSUME \E f \in Documents : Open(f) \/ ParseTimer(f) \/ ReindexNext(f)
      PROVE  Typing
  <2>1. PICK f \in Documents, by \in {"event", "reindex"} : EnsureContextFor([by |-> by, file |-> f])
    BY <1>13 DEF Open, ParseTimer, ReindexNext
  <2>2. UNCHANGED <<startupOpen, walkUpCache>>
    BY <1>13 DEF Open, ParseTimer, ReindexNext
  <2>3. [by |-> by, file |-> f] \in Call
    BY DEF Call
  <2> QED
    BY <1>1, <1>2, <2>1, <2>2, <2>3, EnsureTypes
<1>14. ASSUME \E f \in Documents : Edit(f)
      PROVE  Typing
  BY <1>5, <1>14 DEF Edit
<1>15. ASSUME \E g \in got : Parsed(g)
      PROVE  Typing
  <2>1. PICK g \in got : Parsed(g)
    BY <1>15
  <2>2. got' = got \ {g} /\ UNCHANGED <<gate, lane, startupOpen, walkUpCache>>
        /\ (ownerCache' = ownerCache \/ \E D : CacheOwners(D))
    BY <2>1 DEF Parsed
  <2>3. Answers(got')
    BY <1>2, <2>2 DEF Answers
  <2> QED
    BY <1>1, <1>2, <2>2, <2>3, CacheOwnersType
<1>16. ASSUME ReloadTimer
      PROVE  Typing
  <2>1. [kind |-> "reload", call |-> NoCall] \in Task
    BY DEF Task, Kinds
  <2> QED
    BY <1>2, <1>16, <2>1 DEF ReloadTimer, caches, handlers
<1>17. ASSUME RegisterWatchers \/ Shutdown \/ UNCHANGED vars \/ (\E d \in Dirs : ChangeConfig(d))
      PROVE  Typing
  BY <1>5, <1>17 DEF RegisterWatchers, Shutdown, vars, ChangeConfig, caches, handlers
<1>18. Typing
  BY <1>6, <1>7, <1>8, <1>9, <1>10, <1>11, <1>12, <1>13, <1>14, <1>15, <1>16, <1>17 DEF Next, LaneStep
<1>19. job' \in Jobs
  BY JobKeeps DEF JobFits, JobShape
<1>20. /\ ctxs' \in Seq(Context) /\ Len(ctxs') \in Nat /\ Len(ctxs) <= Len(ctxs')
       /\ contexts' \in [Dirs -> 0..Len(ctxs')] /\ primaryRoot' \in Dirs \cup {NoDir}
  BY <1>1, CtxsKeep
<1>21. \A g \in got' : g.call \in Call /\ g.ctx \in 1..Len(ctxs')
  BY <1>2, <1>18, <1>20 DEF Answers
<1> QED
  BY <1>1, <1>18, <1>19, <1>20, <1>21, DisplayKeeps DEF TypeOK, Jobs

-------------------------------------------------------------------------------
\* The fields of a context.
LEMMA ContextTypes ==
  ASSUME ctxs \in Seq(Context), NEW i \in DOMAIN ctxs
  PROVE  /\ ctxs[i] \in Context /\ ctxs[i].root \in Dirs /\ ctxs[i].indexed \in BOOLEAN
         /\ ctxs[i].disposed \in BOOLEAN /\ ctxs[i].files \subseteq Documents
         /\ i \in 1..Len(ctxs) /\ i # 0
<1>1. ctxs[i] \in Context /\ i \in 1..Len(ctxs) /\ i # 0
  OBVIOUS
<1> QED
  BY <1>1 DEF Context

\* The contexts keep their roots and their state, and the maps are not touched.
Kept == /\ Typed
        /\ \A i \in DOMAIN ctxs : ctxs'[i].root = ctxs[i].root /\ ctxs'[i].disposed = ctxs[i].disposed

LEMMA KeptMaps ==
  ASSUME TypeOK, MapsMatch, LiveIsMapped, Kept, UNCHANGED <<contexts, shuttingDown>>
  PROVE  /\ LiveIsMapped'
         /\ \A d \in KnownRoots' : ctxs'[contexts'[d]].root = d
         /\ ~shuttingDown' => \A d \in KnownRoots' : ~ctxs'[contexts'[d]].disposed
<1>1. \A d \in KnownRoots : contexts[d] \in DOMAIN ctxs
  BY DEF TypeOK, KnownRoots
<1>2. KnownRoots' = KnownRoots
  BY DEF KnownRoots
<1>3. LiveIsMapped'
  BY DEF LiveIsMapped, Kept, Typed
<1> QED
  BY <1>1, <1>2, <1>3 DEF Kept, MapsMatch

\* After a rebuild the maps are empty, and so they match.
LEMMA RebuildMaps ==
  ASSUME TypeOK, LiveIsMapped, Rebuild, UNCHANGED shuttingDown
  PROVE  CacheFresh' /\ LiveIsMapped' /\ MapsMatch'
<1>1. ctxs \in Seq(Context) /\ DOMAIN ctxs = 1..Len(ctxs)
  BY DEF TypeOK
<1>2. /\ Typed
      /\ \A i \in DOMAIN ctxs :
              /\ ctxs'[i].root = ctxs[i].root
              /\ ctxs'[i].disposed = (ctxs[i].disposed \/ i \in {contexts[d] : d \in Dirs})
  BY <1>1, RebuildCtxs
<1>3. \A d \in Dirs : ownerCache'[d] = Absent /\ walkUpCache'[d] = Absent /\ contexts'[d] = 0
  BY DEF Rebuild, EmptyCache
<1>4. ASSUME NEW i \in DOMAIN ctxs PROVE ctxs'[i].disposed
  <2>1. ctxs[i].root \in Dirs
    BY <1>1, ContextTypes
  <2> QED
    BY <1>2, <2>1 DEF LiveIsMapped
<1>5. LiveIsMapped'
  BY <1>2, <1>4 DEF LiveIsMapped, Typed
<1>6. KnownRoots' = {}
  BY <1>3 DEF KnownRoots
<1>7. MapsMatch'
  BY <1>3, <1>6, RegistryAssumption DEF MapsMatch
<1>8. CacheFresh'
  BY <1>3 DEF CacheFresh
<1> QED
  BY <1>5, <1>7, <1>8

\* A context that is created is the one its root maps to.
LEMMA CreateMaps ==
  ASSUME TypeOK, LiveIsMapped, MapsMatch, NEW r \in Dirs, NEW b \in BOOLEAN,
         CreateContext(r, b), contexts[r] = 0, UNCHANGED <<shuttingDown, walkUpCache>>
  PROVE  CacheFresh' /\ LiveIsMapped' /\ MapsMatch'
<1>1. /\ ctxs \in Seq(Context) /\ DOMAIN ctxs = 1..Len(ctxs) /\ Len(ctxs) \in Nat
      /\ contexts \in [Dirs -> 0..Len(ctxs)] /\ shuttingDown \in BOOLEAN
  BY DEF TypeOK
<1>2. /\ ctxs' \in Seq(Context) /\ Len(ctxs') = Len(ctxs) + 1
      /\ DOMAIN ctxs' = DOMAIN ctxs \cup {Len(ctxs) + 1} /\ Len(ctxs) + 1 \notin DOMAIN ctxs
      /\ \A i \in DOMAIN ctxs : ctxs'[i] = ctxs[i]
      /\ ctxs'[Len(ctxs) + 1].root = r
      /\ ctxs'[Len(ctxs) + 1].disposed = shuttingDown
  BY <1>1, CreateContextCtxs
<1>3. /\ contexts' = [contexts EXCEPT ![r] = Len(ctxs) + 1] /\ \A d \in Dirs : ownerCache'[d] = Absent
  BY DEF CreateContext, EmptyCache
<1>4. contexts'[r] = Len(ctxs) + 1 /\ \A d \in Dirs : d # r => contexts'[d] = contexts[d]
  BY <1>1, <1>3
<1>5. CacheFresh'
  BY <1>3 DEF CacheFresh
<1>6. LiveIsMapped'
  <2>1. ASSUME NEW i \in DOMAIN ctxs, ~ctxs[i].disposed PROVE contexts'[ctxs[i].root] = i /\ ~shuttingDown
    <3>1. contexts[ctxs[i].root] = i /\ ~shuttingDown /\ i # 0 /\ ctxs[i].root \in Dirs
      BY <1>1, <2>1, ContextTypes DEF LiveIsMapped
    <3> QED
      BY <1>4, <3>1
  <2> QED
    BY <1>2, <1>4, <2>1 DEF LiveIsMapped
<1>7. KnownRoots' = KnownRoots \cup {r}
  BY <1>1, <1>4 DEF KnownRoots
<1>8. ASSUME NEW d \in KnownRoots' PROVE ctxs'[contexts'[d]].root = d /\ (~shuttingDown => ~ctxs'[contexts'[d]].disposed)
  <2>1. CASE d = r
    BY <1>2, <1>4, <2>1
  <2>2. CASE d # r
    <3>1. d \in KnownRoots /\ d \in Dirs /\ contexts[d] \in DOMAIN ctxs
      BY <1>1, <1>7, <2>2 DEF KnownRoots
    <3> QED
      BY <1>2, <1>4, <2>2, <3>1 DEF MapsMatch
  <2> QED
    BY <2>1, <2>2
<1>9. MapsMatch'
  BY <1>8 DEF MapsMatch
<1> QED
  BY <1>5, <1>6, <1>9

\* One step keeps the maps in agreement.
LEMMA MapsKeep ==
  ASSUME RegistryInv, [Next]_vars
  PROVE  CacheFresh' /\ LiveIsMapped' /\ MapsMatch'
<1> DEFINE Goal == CacheFresh' /\ LiveIsMapped' /\ MapsMatch'
<1>1. TypeOK /\ JobFits /\ CacheFresh /\ LiveIsMapped /\ MapsMatch
  BY DEF RegistryInv, Coherent
<1>2. /\ ctxs \in Seq(Context) /\ DOMAIN ctxs = 1..Len(ctxs) /\ Len(ctxs) \in Nat
      /\ contexts \in [Dirs -> 0..Len(ctxs)] /\ shuttingDown \in BOOLEAN /\ open \subseteq Documents
      /\ walkUpCache \in [Dirs -> Dirs \cup {NoDir, Absent}] /\ job \in Jobs /\ job.fallback \in BOOLEAN
  BY <1>1 DEF TypeOK, JobFits, JobShape, Jobs
<1>3. Mapped \subseteq DOMAIN ctxs
  BY <1>2 DEF Mapped, KnownRoots
<1>4. ctxs' = ctxs => Kept
  BY <1>2 DEF Kept, Typed
<1>5. ASSUME Kept, UNCHANGED <<contexts, shuttingDown, walkUpCache>>,
             ownerCache' = ownerCache \/ \E D : CacheOwners(D)
      PROVE  Goal
  <2>1. CacheFresh'
    <3>1. CASE ownerCache' = ownerCache
      BY <1>1, <1>5, <3>1 DEF CacheFresh, KnownRoots
    <3> QED
      BY <1>1, <1>5, <3>1, CacheOwnersKeeps
  <2>2. LiveIsMapped' /\ MapsMatch'
    BY <1>1, <1>5, KeptMaps DEF MapsMatch
  <2> QED
    BY <2>1, <2>2
<1>6. ASSUME StartReload \/ Reloaded PROVE Goal
  <2>1. Rebuild \/ UNCHANGED <<ctxs, contexts, caches>>
    BY <1>6 DEF StartReload, Reloaded
  <2>2. UNCHANGED shuttingDown
    BY <1>6 DEF StartReload, Reloaded
  <2> QED
    BY <1>1, <1>4, <1>5, <2>1, <2>2, RebuildMaps DEF caches
<1>7. ASSUME AnchorLoaded PROVE Goal
  <2>1. job.anchor \in Dirs /\ contexts[job.anchor] = 0
    BY <1>1, <1>7 DEF AnchorLoaded, JobFits, JobShape, JobPlace, Anchored
  <2> QED
    BY <1>1, <1>2, <1>7, <2>1, CreateMaps DEF AnchorLoaded
<1>8. ASSUME NestedLoaded PROVE Goal
  <2>1. PICK n \in job.todo : CreateContext(n, FALSE)
    BY <1>8 DEF NestedLoaded
  <2>2. n \in Dirs /\ contexts[n] = 0
    BY <1>1, <1>2, <1>8 DEF NestedLoaded, JobFits, JobPlace, Jobs
  <2> QED
    BY <1>1, <1>8, <2>1, <2>2, CreateMaps DEF NestedLoaded
<1>9. ASSUME EvictForeignFiles PROVE Goal
  <2>1. Kept
    BY <1>2, <1>9, EvictCtxs DEF Kept
  <2> QED
    BY <1>5, <1>9, <2>1 DEF EvictForeignFiles
<1>10. ASSUME HandOver PROVE Goal
  <2>1. Kept
    BY <1>2, <1>10, HandOverCtxs DEF Kept
  <2>2. \E D : CacheOwners(D)
    BY <1>10 DEF HandOver
  <2> QED
    BY <1>5, <1>10, <2>1, <2>2 DEF HandOver
<1>11. ASSUME IndexProject PROVE Goal
  <2>1. Kept
    BY <1>2, <1>3, <1>11, IndexProjectCtxs DEF Kept
  <2>2. \E D : CacheOwners(D)
    BY <1>11 DEF IndexProject
  <2> QED
    BY <1>5, <1>11, <2>1, <2>2 DEF IndexProject
<1>12. ASSUME NEW g \in got, Parsed(g) PROVE Goal
  <2>1. g.ctx \in DOMAIN ctxs /\ g.call.file \in Documents
    BY <1>1, <1>2 DEF TypeOK, Call
  <2>2. Kept
    BY <1>2, <1>12, <2>1, ParsedCtxs DEF Kept
  <2>3. UNCHANGED ownerCache \/ CacheOwners({DirOf[g.call.file]})
    BY <1>12 DEF Parsed
  <2> QED
    BY <1>5, <1>12, <2>2, <2>3 DEF Parsed
<1>13. ASSUME Shutdown PROVE Goal
  <2>1. /\ Typed
        /\ \A i \in DOMAIN ctxs : ctxs'[i].root = ctxs[i].root /\ ctxs'[i].disposed = (ctxs[i].disposed \/ i \in Mapped)
    BY <1>2, <1>13, ShutdownCtxs
  <2>2. shuttingDown' /\ UNCHANGED <<contexts, ownerCache, walkUpCache>>
    BY <1>13 DEF Shutdown, caches
  <2>3. ASSUME NEW i \in DOMAIN ctxs PROVE ctxs'[i].disposed
    <3>1. ctxs[i].root \in Dirs /\ i # 0
      BY <1>2, ContextTypes
    <3>2. ctxs[i].disposed \/ i \in Mapped
      BY <1>1, <3>1 DEF LiveIsMapped, Mapped, KnownRoots
    <3> QED
      BY <2>1, <3>2
  <2>4. LiveIsMapped'
    BY <2>1, <2>3 DEF LiveIsMapped, Typed
  <2>5. KnownRoots' = KnownRoots /\ \A d \in KnownRoots : contexts[d] \in DOMAIN ctxs
    BY <1>2, <2>2 DEF KnownRoots
  <2>6. MapsMatch'
    BY <1>1, <2>1, <2>2, <2>5 DEF MapsMatch
  <2>7. CacheFresh'
    BY <1>1, <2>2, <2>5 DEF CacheFresh
  <2> QED
    BY <2>4, <2>6, <2>7
<1>14. ASSUME ResolveDocument PROVE Goal
  <2> DEFINE dir == DirOf[job.call.file]
             found == IF walkUpCache[dir] # Absent THEN walkUpCache[dir] ELSE ConfigRoot(dir)
  <2>1. UNCHANGED <<ctxs, contexts, ownerCache, shuttingDown>> /\ walkUpCache' = [walkUpCache EXCEPT ![dir] = found]
    BY <1>14 DEF ResolveDocument
  <2>2. dir \in Dirs
    BY <1>1, <1>14, RegistryAssumption DEF ResolveDocument, JobFits, JobShape, Call
  <2>3. found \in Dirs => found \in Above[dir]
    BY <1>1, <2>2, ConfigRootIs, RegistryAssumption DEF MapsMatch
  <2> HIDE DEF found, dir
  <2>4. \A d \in Dirs : walkUpCache'[d] \in Dirs => walkUpCache'[d] \in Above[d]
    BY <1>1, <1>2, <2>1, <2>3 DEF MapsMatch
  <2>5. CacheFresh'
    BY <1>1, <2>1 DEF CacheFresh, KnownRoots
  <2>6. LiveIsMapped' /\ MapsMatch'
    BY <1>1, <1>4, <2>1, <2>4, KeptMaps DEF MapsMatch
  <2> QED
    BY <2>5, <2>6
<1>15. ASSUME EndTask PROVE Goal
  <2>1. ownerCache' = ownerCache \/ \E D : CacheOwners(D)
    BY <1>15 DEF EndTask, FinishStartup
  <2> QED
    BY <1>4, <1>5, <1>15, <2>1 DEF EndTask
<1>16. ASSUME NEW f \in Documents, Open(f) \/ Edit(f) \/ ParseTimer(f) \/ ReindexNext(f) PROVE Goal
  <2>1. ownerCache' = ownerCache \/ \E D : CacheOwners(D)
    BY <1>16 DEF Open, Edit, ParseTimer, ReindexNext, EnsureContextFor
  <2>2. UNCHANGED <<ctxs, contexts, walkUpCache, shuttingDown>>
    BY <1>16 DEF Open, Edit, ParseTimer, ReindexNext
  <2> QED
    BY <1>4, <1>5, <2>1, <2>2
<1>17. ASSUME StartCreate PROVE Goal
  <2>1. \E D : CacheOwners(D)
    BY <1>17 DEF StartCreate
  <2> QED
    BY <1>4, <1>5, <1>17, <2>1 DEF StartCreate
<1>18. ASSUME \/ StartInit \/ StartIndexAll \/ ResolvePrimary \/ Discovered \/ RegisterWatchers \/ ReloadTimer
              \/ UNCHANGED vars \/ \E d \in Dirs : ChangeConfig(d)
       PROVE  Goal
  <2>1. UNCHANGED <<ctxs, contexts, ownerCache, walkUpCache, shuttingDown>>
    BY <1>18 DEF StartInit, StartIndexAll, ResolvePrimary, Discovered, RegisterWatchers, ReloadTimer,
         ChangeConfig, caches, vars
  <2> QED
    BY <1>4, <1>5, <2>1
<1> QED
  BY <1>6, <1>7, <1>8, <1>9, <1>10, <1>11, <1>12, <1>13, <1>14, <1>15, <1>16, <1>17, <1>18 DEF Next, LaneStep

-------------------------------------------------------------------------------
\* A task that is taken from the lane, at its first await.
LEMMA BeganIs ==
  ASSUME NEW pc, NEW anchor, Began(pc, anchor)
  PROVE  /\ job' = [kind |-> Head(lane).kind, call |-> Head(lane).call, pc |-> pc, anchor |-> anchor,
                    fallback |-> FALSE, todo |-> {}, evicted |-> {}]
         /\ job'.pc = pc /\ job'.kind = Head(lane).kind /\ job'.anchor = anchor
BY DEF Began, Idle

\* One step keeps the primary project loaded.
LEMMA PrimaryKeeps ==
  ASSUME RegistryInv, [Next]_vars
  PROVE  PrimaryFits'
<1>1. TypeOK /\ JobFits /\ LaneFits /\ PrimaryFits
  BY DEF RegistryInv
<1>2. /\ contexts \in [Dirs -> 0..Len(ctxs)] /\ Len(ctxs) \in Nat /\ job \in Jobs
      /\ primaryRoot \in Dirs \cup {NoDir} /\ NoDir \notin Dirs
      /\ session \in {"initializing", "indexing", "indexed", "watching"}
      /\ job.kind = "none" => job = Idle
  BY <1>1, RegistryAssumption DEF TypeOK, JobFits, JobShape
<1>3. UNCHANGED workspaceRoot
  BY DEF Next, LaneStep, StartInit, StartIndexAll, StartCreate, StartReload, Reloaded, ResolvePrimary,
     ResolveDocument, AnchorLoaded, Discovered, NestedLoaded, EvictForeignFiles, IndexProject, HandOver,
     EndTask, Open, Edit, ParseTimer, ReindexNext, Parsed, ChangeConfig, RegisterWatchers, ReloadTimer,
     Shutdown, vars, disk
<1>4. job # Idle => /\ session = "initializing" => job.kind = "init"
                    /\ session = "indexing" => job.kind = "indexAll"
                    /\ Starting => workspaceRoot # NoDir
  BY <1>1 DEF LaneFits, SessionFits
<1>5. CASE UNCHANGED <<job, contexts, primaryRoot, session>>
  BY <1>1, <1>3, <1>5 DEF PrimaryFits, KnownRoots, Starting
\* A task that starts, or ends before it has touched a thing.
<1>6. ASSUME UNCHANGED <<contexts, primaryRoot, session>>,
             job.pc \in {"idle", "reload"}, job.kind # "indexAll",
             job'.pc \notin {"load", "end"} \/ (job'.kind = "indexAll" /\ session # "initializing")
      PROVE  PrimaryFits'
  BY <1>1, <1>3, <1>6 DEF PrimaryFits, KnownRoots, Starting
<1>7. ASSUME Rebuild, UNCHANGED session, workspaceRoot # NoDir PROVE PrimaryFits'
  <2>1. primaryRoot' = NoDir /\ KnownRoots' = {} /\ job'.kind = "reload" /\ job'.pc = "resolve"
    BY <1>7 DEF Rebuild, KnownRoots, Idle
  <2> QED
    BY <2>1 DEF PrimaryFits
\* A task that adds a tree.
<1>8. ASSUME UNCHANGED <<primaryRoot, session>>, job'.kind = job.kind, job.pc \in Adding,
             job'.pc \in Adding \cup {"end"},
             \A d \in Dirs : contexts[d] # 0 => contexts'[d] # 0
      PROVE  PrimaryFits'
  <2>1. job # Idle /\ job.kind # "init"
    BY <1>1, <1>8 DEF Idle, JobFits, JobShape, Adding
  <2>2. session # "initializing" /\ (Starting => job.kind = "indexAll")
    BY <1>4, <2>1 DEF Starting
  <2>3. primaryRoot # NoDir => contexts[primaryRoot] # 0 /\ primaryRoot \in Dirs
    BY <1>1, <1>2, <1>8 DEF PrimaryFits, Adding
  <2>4. workspaceRoot # NoDir => primaryRoot # NoDir
    BY <1>1, <1>8, <2>2 DEF PrimaryFits, Adding
  <2> QED
    BY <1>3, <1>8, <2>2, <2>3, <2>4 DEF PrimaryFits, Starting
<1>9. CASE StartInit
  <2>1. job.pc = "idle" /\ job'.pc = "resolve" /\ job.kind = "none"
    BY <1>9 DEF StartInit, Start, Began, Idle
  <2> QED
    BY <1>6, <1>9, <2>1 DEF StartInit
<1>10. CASE StartIndexAll
  <2>1. job.pc = "idle" /\ job'.kind = "indexAll" /\ job.kind = "none" /\ job = Idle
    BY <1>10 DEF StartIndexAll, Start, Began, Idle
  <2>2. session # "initializing"
    <3>1. lane # <<>> /\ Head(lane).kind = "indexAll" /\ lane \in Seq(Task)
      BY <1>1, <1>10 DEF StartIndexAll, Start, TypeOK
    <3>2. 1 \in DOMAIN lane /\ Head(lane) = lane[1]
      BY <3>1, TailItems
    <3> QED
      BY <1>1, <3>1, <3>2 DEF LaneFits, LaneItems
  <2> QED
    BY <1>6, <1>10, <2>1, <2>2 DEF StartIndexAll
<1>11. CASE StartCreate
  <2>0. job = Idle /\ (job' = Idle \/ Began("resolve", NoDir))
    BY <1>11 DEF StartCreate, Start
  <2>1. job.pc = "idle" /\ job'.pc \in {"idle", "resolve"} /\ job.kind = "none"
    BY <2>0, BeganIs DEF Idle
  <2> QED
    BY <1>6, <1>11, <2>1 DEF StartCreate
<1>12. CASE StartReload
  <2>1. job.pc = "idle" /\ job.kind = "none" /\ UNCHANGED session
    BY <1>12 DEF StartReload, Start, Idle
  <2>0. \/ Rebuild /\ workspaceRoot # NoDir
        \/ UNCHANGED <<contexts, primaryRoot>> /\ (job' = Idle \/ Began("reload", NoDir))
    BY <1>12 DEF StartReload
  <2>2. \/ Rebuild /\ workspaceRoot # NoDir
        \/ UNCHANGED <<contexts, primaryRoot>> /\ job'.pc \in {"idle", "reload"}
    BY <2>0, BeganIs DEF Idle
  <2> QED
    BY <1>6, <1>7, <2>1, <2>2
<1>13. CASE Reloaded
  <2>1. job.pc = "reload" /\ UNCHANGED session /\ job.kind # "indexAll"
    BY <1>1, <1>13 DEF Reloaded, JobFits, JobShape, Adding
  <2>2. \/ Rebuild /\ workspaceRoot # NoDir
        \/ UNCHANGED <<contexts, primaryRoot>> /\ job'.pc \in {"idle", "reload"}
    BY <1>13 DEF Reloaded, Idle
  <2> QED
    BY <1>6, <1>7, <2>1, <2>2
<1>14. CASE ResolvePrimary
  <2> DEFINE found == ConfigRoot(workspaceRoot)
             root == IF found = NoDir THEN workspaceRoot ELSE found
  <2>1. job.pc = "resolve" /\ job.kind \in {"init", "reload"} /\ UNCHANGED <<contexts, session>>
        /\ primaryRoot' = root /\ job' = [job EXCEPT !.pc = "load", !.anchor = root]
    BY <1>14 DEF ResolvePrimary
  <2>2. workspaceRoot \in Dirs
    BY <1>1, <2>1, RegistryAssumption DEF TypeOK, JobFits, JobPlace, LaneFits, SessionFits, Starting
  <2>3. root \in Dirs
    BY <2>2, ConfigRootIs
  <2> HIDE DEF root
  <2>4. job'.kind = job.kind /\ job'.pc = "load" /\ job'.anchor = root
    BY <1>2, <2>1 DEF Jobs
  <2>5. KnownRoots = {} /\ KnownRoots' = {}
    BY <1>1, <2>1 DEF JobFits, JobPlace, KnownRoots
  <2> QED
    BY <1>2, <2>1, <2>3, <2>4, <2>5 DEF PrimaryFits
<1>15. CASE ResolveDocument
  <2>1. job.pc = "resolve" /\ job.kind = "create" /\ UNCHANGED <<contexts, primaryRoot, session>> /\ job # Idle
    BY <1>15 DEF ResolveDocument, Idle
  <2>2. session \notin {"initializing", "indexing"}
    BY <1>4, <2>1
  <2> QED
    BY <1>1, <1>3, <2>1, <2>2 DEF PrimaryFits, Starting
<1>16. CASE AnchorLoaded
  <2>1. job.pc = "load" /\ job.anchor \in Dirs /\ UNCHANGED session /\ job # Idle
        /\ contexts' = [contexts EXCEPT ![job.anchor] = Len(ctxs) + 1]
        /\ primaryRoot' = IF job.fallback THEN job.anchor ELSE primaryRoot
    BY <1>1, <1>16 DEF AnchorLoaded, JobFits, JobShape, Anchored, CreateContext, Idle
  <2>2. job'.kind = job.kind /\ job'.pc \in {"end", "discover"} /\ (job.kind = "init" => job'.pc = "end")
    BY <1>2, <1>16 DEF AnchorLoaded, Jobs
  <2>3. contexts'[job.anchor] # 0 /\ \A d \in Dirs : d # job.anchor => contexts'[d] = contexts[d]
    BY <1>2, <2>1
  <2>4. primaryRoot' # NoDir => contexts'[primaryRoot'] # 0
    BY <1>1, <1>2, <2>1, <2>3 DEF PrimaryFits
  <2>5. workspaceRoot # NoDir => primaryRoot # NoDir /\ primaryRoot' # NoDir
    BY <1>1, <1>2, <2>1 DEF PrimaryFits
  <2>6. session = "initializing" => job'.pc = "end"
    BY <1>4, <2>1, <2>2
  <2>7. Starting /\ job.kind # "indexAll" => KnownRoots' \subseteq {primaryRoot'}
    <3> HAVE Starting /\ job.kind # "indexAll"
    <3>1. job.kind = "init" /\ workspaceRoot # NoDir
      BY <1>4, <2>1 DEF Starting
    <3>2. KnownRoots = {} /\ ~job.fallback
      BY <1>1, <2>1, <3>1 DEF JobFits, JobShape, JobPlace
    <3>3. job.anchor = primaryRoot /\ primaryRoot' = primaryRoot
      BY <1>1, <1>2, <2>1, <2>5, <3>1, <3>2 DEF PrimaryFits, KnownRoots
    <3> QED
      BY <2>3, <3>2, <3>3 DEF KnownRoots
  <2> QED
    BY <1>3, <2>1, <2>2, <2>4, <2>5, <2>6, <2>7 DEF PrimaryFits, Starting
<1>17. CASE Discovered \/ EvictForeignFiles \/ HandOver
  <2>1. UNCHANGED <<contexts, primaryRoot, session>> /\ job'.kind = job.kind
    BY <1>2, <1>17 DEF Discovered, EvictForeignFiles, HandOver, Jobs
  <2>2. job.pc \in Adding /\ job'.pc \in Adding \cup {"end"}
    BY <1>2, <1>17 DEF Discovered, EvictForeignFiles, HandOver, Jobs, Adding
  <2> QED
    BY <1>8, <2>1, <2>2
<1>18. CASE NestedLoaded
  <2>1. PICK n \in job.todo : CreateContext(n, FALSE) /\ job' = [job EXCEPT !.todo = @ \ {n}]
    BY <1>18 DEF NestedLoaded
  <2>2. UNCHANGED <<primaryRoot, session>> /\ job'.kind = job.kind /\ job.pc = "nested" /\ job'.pc = "nested"
    BY <1>2, <1>18, <2>1 DEF NestedLoaded, Jobs
  <2>3. contexts' = [contexts EXCEPT ![n] = Len(ctxs) + 1] /\ n \in Dirs
    BY <1>2, <2>1 DEF CreateContext, Jobs
  <2>4. \A d \in Dirs : contexts[d] # 0 => contexts'[d] # 0
    BY <1>2, <2>3
  <2> QED
    BY <1>8, <2>2, <2>4 DEF Adding
<1>19. CASE EndTask
  <2>1. job.pc = "end" /\ job' = Idle /\ UNCHANGED <<contexts, primaryRoot>> /\ job # Idle /\ job.kind \in Kinds
        /\ KnownRoots' = KnownRoots
    BY <1>1, <1>2, <1>19 DEF EndTask, Idle, JobFits, JobShape, Jobs, KnownRoots
  <2>2. session' = IF job.kind = "init" THEN "indexing" ELSE IF job.kind = "indexAll" THEN "indexed" ELSE session
    BY <1>19 DEF EndTask
  <2>3. session' # "initializing" /\ (session' = "indexing" => job.kind = "init" /\ session = "initializing")
    BY <1>1, <1>4, <2>1, <2>2 DEF LaneFits, SessionFits
  <2>4. workspaceRoot # NoDir => primaryRoot # NoDir
    BY <1>1, <2>1 DEF PrimaryFits
  <2>5. primaryRoot # NoDir => contexts[primaryRoot] # 0
    BY <1>1, <2>1 DEF PrimaryFits
  <2>6. session' = "indexing" => KnownRoots \subseteq {primaryRoot}
    BY <1>1, <2>3 DEF PrimaryFits, Starting
  <2> QED
    BY <1>3, <2>1, <2>3, <2>4, <2>5, <2>6 DEF PrimaryFits, Starting
<1>20. CASE RegisterWatchers
  BY <1>1, <1>3, <1>20 DEF RegisterWatchers, PrimaryFits, KnownRoots, Starting
<1>21. CASE IndexProject \/ ReloadTimer \/ Shutdown \/ UNCHANGED vars \/ (\E f \in Documents : Edit(f))
            \/ (\E g \in got : Parsed(g)) \/ (\E d \in Dirs : ChangeConfig(d))
            \/ (\E f \in Documents : Open(f) \/ ParseTimer(f) \/ ReindexNext(f))
  BY <1>5, <1>21 DEF IndexProject, Shutdown, ReloadTimer, vars, disk, Edit, Parsed, ChangeConfig,
     Open, ParseTimer, ReindexNext
<1> QED
  BY <1>9, <1>10, <1>11, <1>12, <1>13, <1>14, <1>15, <1>16, <1>17, <1>18, <1>19, <1>20, <1>21 DEF Next, LaneStep

-------------------------------------------------------------------------------
\* A context that the maps hold is the one of its root, and is live.
LEMMA MappedIs ==
  ASSUME TypeOK, MapsMatch, NEW i \in Mapped
  PROVE  /\ i \in DOMAIN ctxs /\ i # 0 /\ ctxs[i].root \in KnownRoots /\ contexts[ctxs[i].root] = i
         /\ ~shuttingDown => ~ctxs[i].disposed
<1>1. PICK d \in KnownRoots : i = contexts[d]
  BY DEF Mapped
<1>2. i \in DOMAIN ctxs /\ i # 0
  BY <1>1 DEF TypeOK, KnownRoots
<1> QED
  BY <1>1, <1>2 DEF MapsMatch

\* A new context is a new root and one more mapped position.
LEMMA CreateMapped ==
  ASSUME TypeOK, NEW r \in Dirs, NEW b, CreateContext(r, b), contexts[r] = 0
  PROVE  /\ KnownRoots' = KnownRoots \cup {r}
         /\ Mapped' = Mapped \cup {Len(ctxs) + 1} /\ Len(ctxs) + 1 \notin Mapped
         /\ contexts'[r] = Len(ctxs) + 1
         /\ \A d \in Dirs : d # r => contexts'[d] = contexts[d]
<1>1. contexts \in [Dirs -> 0..Len(ctxs)] /\ Len(ctxs) \in Nat
  BY DEF TypeOK
<1>2. contexts' = [contexts EXCEPT ![r] = Len(ctxs) + 1]
  BY DEF CreateContext
<1>3. contexts'[r] = Len(ctxs) + 1 /\ \A d \in Dirs : d # r => contexts'[d] = contexts[d]
  BY <1>1, <1>2
<1>4. KnownRoots' = KnownRoots \cup {r} /\ r \notin KnownRoots
  BY <1>1, <1>3 DEF KnownRoots
<1>5. \A i \in Mapped : i # Len(ctxs) + 1
  BY <1>1 DEF Mapped, KnownRoots
<1>6. Mapped' = Mapped \cup {Len(ctxs) + 1}
  <2>1. ASSUME NEW d \in KnownRoots PROVE contexts'[d] = contexts[d]
    BY <1>3, <1>4 DEF KnownRoots
  <2>2. {contexts'[d] : d \in KnownRoots'} = {contexts[d] : d \in KnownRoots} \cup {Len(ctxs) + 1}
    BY <1>3, <1>4, <2>1
  <2> QED
    BY <2>2 DEF Mapped
<1> QED
  BY <1>3, <1>4, <1>5, <1>6

LEMMA MappedStays ==
  ASSUME UNCHANGED contexts
  PROVE  Mapped' = Mapped
BY DEF Mapped, KnownRoots

LEMMA RebuildMapped ==
  ASSUME Rebuild
  PROVE  Mapped' = {} /\ KnownRoots' = {}
BY DEF Rebuild, Mapped, KnownRoots

\* One step keeps every project indexed while the gate is open.
LEMMA AllIndexedKeeps ==
  ASSUME RegistryInv, [Next]_vars
  PROVE  AllIndexed'
<1>1. TypeOK /\ JobFits /\ LaneFits /\ PrimaryFits /\ MapsMatch /\ AllIndexed
  BY DEF RegistryInv
<1>2. /\ ctxs \in Seq(Context) /\ DOMAIN ctxs = 1..Len(ctxs) /\ Len(ctxs) \in Nat
      /\ contexts \in [Dirs -> 0..Len(ctxs)] /\ shuttingDown \in BOOLEAN /\ open \subseteq Documents
      /\ job \in Jobs /\ startupOpen \in BOOLEAN /\ job.fallback \in BOOLEAN
      /\ primaryRoot \in Dirs \cup {NoDir}
  BY <1>1 DEF TypeOK, JobFits, JobShape, Jobs
<1>3. Mapped \subseteq DOMAIN ctxs
  BY <1>2 DEF Mapped, KnownRoots
<1>4. LaneFits' /\ JobFits'
  BY LaneKeeps, JobKeeps
<1>5. startupOpen' => job' = Idle \/ job'.pc = "reload" \/ (job'.kind = "create" /\ job'.pc = "resolve")
  BY <1>4 DEF LaneFits, GateFits
\* A step into a place where some may not be indexed yet.
<1>6. ASSUME job'.pc \notin {"idle", "reload", "end"}, ~(job'.kind = "create" /\ job'.pc \in {"load", "resolve"})
      PROVE  AllIndexed'
  BY <1>5, <1>6 DEF AllIndexed, Idle
\* A step that leaves the contexts alone, from a place where all are indexed.
<1>7. ASSUME UNCHANGED <<ctxs, contexts, shuttingDown>>,
             \/ startupOpen
             \/ job.kind = "create" /\ job.pc = "load"
             \/ job.kind # "init" /\ job.pc = "end"
      PROVE  AllIndexed'
  BY <1>1, <1>7, MappedStays DEF AllIndexed
<1>8. ASSUME UNCHANGED <<contexts, job, startupOpen, shuttingDown>>, Typed,
             \A i \in DOMAIN ctxs : ctxs'[i].indexed = ctxs[i].indexed
      PROVE  AllIndexed'
  BY <1>1, <1>3, <1>8, MappedStays DEF AllIndexed
<1>9. CASE StartInit
  <2>1. job'.pc = "resolve" /\ job'.kind = "init"
    BY <1>9, BeganIs DEF StartInit, Start
  <2> QED
    BY <1>6, <2>1
<1>10. CASE StartIndexAll
  <2> DEFINE pc == IF shuttingDown \/ Primary = 0 THEN "end" ELSE "discover"
  <2>0. Began(pc, primaryRoot) /\ Head(lane).kind = "indexAll" /\ UNCHANGED <<contexts, primaryRoot, shuttingDown>>
    BY <1>10 DEF StartIndexAll, Start
  <2>1. job'.kind = "indexAll" /\ job'.anchor = primaryRoot /\ job'.pc = pc
    BY <2>0, BeganIs
  <2>2. contexts[primaryRoot] # 0 /\ primaryRoot \in Dirs
    <3>1. job'.pc \in Adding \cup {"end"}
      BY <2>1 DEF Adding
    <3>2. job'.anchor \in Dirs /\ contexts'[job'.anchor] # 0
      BY <1>4, <3>1 DEF JobFits, JobShape, JobPlace, Anchored
    <3> QED
      BY <2>0, <2>1, <3>2
  <2>3. Primary # 0
    BY <2>2, RegistryAssumption DEF Primary
  <2>4. job' # Idle /\ (shuttingDown \/ job'.pc = "discover")
    BY <2>1, <2>3 DEF Idle
  <2>5. shuttingDown \/ ~startupOpen'
    BY <1>5, <2>1, <2>4
  <2> QED
    BY <2>0, <2>1, <2>4, <2>5 DEF AllIndexed
<1>11. CASE StartCreate
  <2>1. UNCHANGED <<ctxs, contexts, shuttingDown, startupOpen>> /\ (job' = Idle \/ Began("resolve", NoDir))
    BY <1>11 DEF StartCreate
  <2>2. job'.pc \in {"idle", "resolve"}
    BY <2>1, BeganIs DEF Idle
  <2> QED
    BY <1>1, <2>1, <2>2, MappedStays DEF AllIndexed
<1>12. CASE StartReload \/ Reloaded
  <2>1. CASE Rebuild
    BY <2>1, RebuildMapped DEF AllIndexed
  <2>2. CASE UNCHANGED <<ctxs, contexts, startupOpen>> /\ (job' = Idle \/ Began("reload", NoDir))
    <3>1. job'.pc \in {"idle", "reload"} /\ UNCHANGED shuttingDown
      BY <1>12, <2>2, BeganIs DEF Idle, StartReload, Reloaded
    <3> QED
      BY <1>1, <2>2, <3>1, MappedStays DEF AllIndexed
  <2> QED
    BY <1>12, <2>1, <2>2 DEF StartReload, Reloaded
<1>13. CASE ResolvePrimary
  <2>1. job'.pc = "load" /\ job'.kind # "create"
    BY <1>2, <1>13 DEF ResolvePrimary, Jobs
  <2> QED
    BY <1>6, <2>1
<1>14. CASE ResolveDocument
  <2>1. job.pc = "resolve" /\ job.kind = "create" /\ job # Idle /\ UNCHANGED <<ctxs, contexts, shuttingDown>>
    BY <1>14 DEF ResolveDocument, Idle
  <2>2. startupOpen
    BY <1>1, <2>1 DEF LaneFits, SessionFits, GateFits, Starting
  <2> QED
    BY <1>7, <2>1, <2>2
<1>15. CASE AnchorLoaded
  <2>1. job.pc = "load" /\ CreateContext(job.anchor, job.fallback) /\ job.anchor \in Dirs /\ contexts[job.anchor] = 0
        /\ UNCHANGED shuttingDown
    BY <1>1, <1>15 DEF AnchorLoaded, JobFits, JobShape, JobPlace, Anchored
  <2>2. /\ job'.pc = IF job.kind = "init" \/ job.fallback \/ shuttingDown THEN "end" ELSE "discover"
        /\ job'.kind = job.kind
    BY <1>2, <1>15 DEF AnchorLoaded, Jobs
  <2>3. CASE job.fallback /\ ~shuttingDown
    <3>1. job.kind = "create"
      BY <1>1, <2>3 DEF JobFits, JobShape
    <3>2. \A i \in Mapped : ctxs[i].indexed
      BY <1>1, <2>1, <2>3, <3>1 DEF AllIndexed
    <3>3. ctxs'[Len(ctxs) + 1].indexed /\ \A i \in DOMAIN ctxs : ctxs'[i] = ctxs[i]
      BY <1>2, <2>1, <2>3, CreateContextCtxs
    <3>4. Mapped' = Mapped \cup {Len(ctxs) + 1}
      BY <1>1, <2>1, CreateMapped
    <3> QED
      BY <1>3, <3>2, <3>3, <3>4 DEF AllIndexed
  <2>4. CASE shuttingDown
    BY <2>1, <2>4 DEF AllIndexed
  <2>5. CASE ~job.fallback /\ ~shuttingDown
    <3>1. job'.pc \in {"end", "discover"} /\ (job'.pc = "end" => job'.kind = "init")
      BY <2>2, <2>5
    <3> QED
      BY <1>5, <3>1 DEF AllIndexed, Idle
  <2> QED
    BY <2>3, <2>4, <2>5
<1>16. CASE Discovered \/ NestedLoaded \/ EvictForeignFiles \/ IndexProject
  <2>1. job'.pc \in {"nested", "index"}
    BY <1>2, <1>16 DEF Discovered, NestedLoaded, EvictForeignFiles, IndexProject, Jobs
  <2> QED
    BY <1>6, <2>1
<1>17. CASE HandOver
  <2>1. UNCHANGED <<contexts, shuttingDown>> /\ (~shuttingDown => \A i \in Mapped : ctxs[i].indexed)
    BY <1>17 DEF HandOver
  <2>2. \A i \in DOMAIN ctxs : ctxs'[i].indexed = ctxs[i].indexed
    BY <1>2, <1>17, HandOverCtxs
  <2> QED
    BY <1>3, <2>1, <2>2, MappedStays DEF AllIndexed
<1>18. CASE EndTask
  <2>1. job.pc = "end" /\ job' = Idle /\ UNCHANGED <<ctxs, contexts, shuttingDown>>
    BY <1>18 DEF EndTask
  <2>2. CASE job.kind = "init"
    <3>1. startupOpen' = startupOpen /\ job # Idle
      BY <1>18, <2>1, <2>2 DEF EndTask, Idle
    <3>2. ~startupOpen
      BY <1>1, <2>1, <2>2, <3>1 DEF LaneFits, GateFits
    <3> QED
      BY <2>1, <3>1, <3>2 DEF AllIndexed, Idle
  <2> QED
    BY <1>7, <2>1, <2>2
<1>19. CASE Shutdown
  BY <1>19 DEF Shutdown, AllIndexed
<1>20. CASE \E g \in got : Parsed(g)
  <2>1. PICK g \in got : Parsed(g)
    BY <1>20
  <2>2. g.ctx \in DOMAIN ctxs /\ g.call.file \in Documents
    BY <1>1, <1>2 DEF TypeOK, Call
  <2>3. Typed /\ \A i \in DOMAIN ctxs : ctxs'[i].indexed = ctxs[i].indexed
    BY <1>2, <2>1, <2>2, ParsedCtxs
  <2> QED
    BY <1>8, <2>1, <2>3 DEF Parsed
<1>21. CASE \/ RegisterWatchers \/ ReloadTimer \/ UNCHANGED vars \/ \E d \in Dirs : ChangeConfig(d)
            \/ (\E f \in Documents : Open(f) \/ Edit(f) \/ ParseTimer(f) \/ ReindexNext(f))
  <2>1. UNCHANGED <<ctxs, contexts, shuttingDown, job, startupOpen>>
    BY <1>21 DEF RegisterWatchers, ReloadTimer, vars, ChangeConfig, Open, Edit, ParseTimer, ReindexNext
  <2>2. Typed
    BY <1>2, <2>1 DEF Typed
  <2> QED
    BY <1>8, <2>1, <2>2
<1> QED
  BY <1>9, <1>10, <1>11, <1>12, <1>13, <1>14, <1>15, <1>16, <1>17, <1>18, <1>19, <1>20, <1>21 DEF Next, LaneStep

-------------------------------------------------------------------------------
LEMMA FileTypes ==
  ASSUME TypeOK, NEW i \in DOMAIN ctxs, NEW f \in ctxs[i].files
  PROVE  f \in Documents /\ DirOf[f] \in Dirs
<1>1. f \in Documents
  BY ContextTypes DEF TypeOK
<1> QED
  BY <1>1, RegistryAssumption

\* No root, no step to another owner: the files stay where they are.
LEMMA SameHomes ==
  ASSUME CacheFresh, CacheFresh', UNCHANGED <<contexts, primaryRoot>>, NEW f \in Documents
  PROVE  ContextFor(f)' = ContextFor(f)
<1>1. DirOf[f] \in Dirs
  BY RegistryAssumption
<1> QED
  BY <1>1, ContextForIs, ContextForIsNext, HomeStays

\* One step keeps the files with their owners, but below the anchor of a tree
\* whose roots are still being found.
LEMMA FilesKeep ==
  ASSUME RegistryInv, [Next]_vars
  PROVE  FilesFit'
<1> DEFINE Placed(f) == job.pc \in {"discover", "nested"} /\ job.anchor \in Above[DirOf[f]]
<1>1. TypeOK /\ JobFits /\ LaneFits /\ PrimaryFits /\ MapsMatch /\ FilesFit /\ CacheFresh
  BY DEF RegistryInv, Coherent
<1>2. /\ ctxs \in Seq(Context) /\ DOMAIN ctxs = 1..Len(ctxs) /\ Len(ctxs) \in Nat
      /\ contexts \in [Dirs -> 0..Len(ctxs)] /\ shuttingDown \in BOOLEAN /\ open \subseteq Documents
      /\ job \in Jobs /\ job.fallback \in BOOLEAN /\ primaryRoot \in Dirs \cup {NoDir}
      /\ contexts \in [Dirs -> Nat]
  BY <1>1 DEF TypeOK, JobFits, JobShape, Jobs
<1>3. CacheFresh' /\ JobFits'
  BY MapsKeep, JobKeeps
<1>4. \A i \in Mapped : i \in DOMAIN ctxs /\ i # 0
  BY <1>1, MappedIs
\* What is in an index stays in it, its owner too; a new file is its owner's.
<1>5. ASSUME UNCHANGED <<contexts, primaryRoot>>, shuttingDown' \/ ~shuttingDown,
             \A i \in Mapped : \A f \in ctxs'[i].files : f \in ctxs[i].files \/ (f \in Documents /\ ContextFor(f) = i),
             \A f \in Documents : Placed(f) => Placed(f)'
      PROVE  FilesFit'
  <2>1. Mapped' = Mapped
    BY <1>5, MappedStays
  <2>2. ASSUME ~shuttingDown', NEW i \in Mapped, NEW f \in ctxs'[i].files
        PROVE  ContextFor(f)' = i \/ Placed(f)'
    <3>1. f \in Documents
      BY <1>1, <1>4, <1>5, FileTypes
    <3>2. ContextFor(f) = i \/ Placed(f)
      BY <1>1, <1>5, <2>2 DEF FilesFit
    <3> QED
      BY <1>1, <1>3, <1>5, <3>1, <3>2, SameHomes
  <2> QED
    BY <2>1, <2>2 DEF FilesFit
<1>6. ASSUME UNCHANGED <<contexts, primaryRoot, ctxs>>, shuttingDown' \/ ~shuttingDown,
             job.pc \notin {"discover", "nested"} \/ (job'.pc \in {"discover", "nested"} /\ job'.anchor = job.anchor)
      PROVE  FilesFit'
  <2>1. \A f \in Documents : Placed(f) => Placed(f)'
    BY <1>6
  <2> QED
    BY <1>5, <1>6, <2>1
\* A new root.
<1>7. ASSUME NEW r \in Dirs, NEW b \in BOOLEAN, CreateContext(r, b), contexts[r] = 0, UNCHANGED shuttingDown,
             primaryRoot' = primaryRoot \/ Primary = 0,
             ~shuttingDown => \A i \in Mapped : \A f \in ctxs[i].files :
                                r \in Above[DirOf[f]] => Placed(f)' \/ ContextFor(f)' = i,
             \A f \in Documents : Placed(f) => Placed(f)'
      PROVE  FilesFit'
  <2>1. Mapped' = Mapped \cup {Len(ctxs) + 1}
    BY <1>1, <1>7, CreateMapped
  <2>2. ctxs'[Len(ctxs) + 1].files = {} /\ \A i \in DOMAIN ctxs : ctxs'[i] = ctxs[i]
    BY <1>2, <1>7, CreateContextCtxs
  <2>3. ASSUME ~shuttingDown, NEW i \in Mapped, NEW f \in ctxs[i].files
        PROVE  ContextFor(f)' = i \/ Placed(f)'
    <3>1. f \in Documents /\ DirOf[f] \in Dirs
      BY <1>1, <1>4, FileTypes
    <3>2. CASE ContextFor(f) = i /\ r \notin Above[DirOf[f]]
      <4>1. Home(DirOf[f]) = i /\ i # 0
        BY <1>1, <1>4, <3>1, <3>2, ContextForIs
      <4>2. contexts' = [contexts EXCEPT ![r] = Len(ctxs) + 1] /\ Len(ctxs) + 1 # 0
        BY <1>2, <1>7 DEF CreateContext
      <4>3. Home(DirOf[f])' = Home(DirOf[f])
        <5> DEFINE n == Len(ctxs) + 1
        <5>1. n # 0 /\ contexts' = [contexts EXCEPT ![r] = n]
          BY <4>2
        <5> HIDE DEF n
        <5> QED
          BY <1>2, <1>7, <3>1, <3>2, <4>1, <5>1, HomeBesides
      <4> QED
        BY <1>3, <3>1, <4>1, <4>3, ContextForIsNext
    <3>3. CASE r \in Above[DirOf[f]]
      BY <1>7, <2>3, <3>3
    <3>4. CASE Placed(f)
      BY <1>7, <3>1, <3>4
    <3> QED
      BY <1>1, <2>3, <3>2, <3>3, <3>4 DEF FilesFit
  <2> QED
    BY <1>4, <1>7, <2>1, <2>2, <2>3 DEF FilesFit
<1>8. CASE StartInit \/ StartIndexAll \/ StartCreate
  <2>1. job.pc = "idle" /\ UNCHANGED <<contexts, primaryRoot, ctxs, shuttingDown>>
    BY <1>8 DEF StartInit, StartIndexAll, StartCreate, Start, Idle
  <2> QED
    BY <1>2, <1>6, <2>1
<1>9. CASE StartReload \/ Reloaded
  <2>1. CASE Rebuild
    BY <2>1, RebuildMapped DEF FilesFit
  <2>2. CASE UNCHANGED <<contexts, primaryRoot, ctxs>>
    <3>1. job.pc \in {"idle", "reload"} /\ UNCHANGED shuttingDown
      BY <1>9 DEF StartReload, Reloaded, Start, Idle
    <3> QED
      BY <1>2, <1>6, <2>2, <3>1
  <2> QED
    BY <1>9, <2>1, <2>2 DEF StartReload, Reloaded
<1>10. CASE ResolvePrimary
  <2>1. KnownRoots = {} /\ UNCHANGED contexts
    BY <1>1, <1>10 DEF ResolvePrimary, JobFits, JobPlace
  <2>2. Mapped' = {}
    BY <2>1 DEF Mapped, KnownRoots
  <2> QED
    BY <2>2 DEF FilesFit
<1>11. CASE ResolveDocument
  <2>1. job.pc = "resolve" /\ UNCHANGED <<contexts, primaryRoot, ctxs, shuttingDown>>
    BY <1>11 DEF ResolveDocument
  <2> QED
    BY <1>2, <1>6, <2>1
<1>12. CASE AnchorLoaded
  <2> DEFINE r == job.anchor
  <2>1. /\ job.pc = "load" /\ CreateContext(r, job.fallback) /\ r \in Dirs /\ contexts[r] = 0
        /\ UNCHANGED shuttingDown
        /\ primaryRoot' = IF job.fallback THEN r ELSE primaryRoot
    BY <1>1, <1>12 DEF AnchorLoaded, JobFits, JobShape, JobPlace, Anchored
  <2>2. job.fallback => Primary = 0 /\ KnownRoots \cap Above[r] = {}
    BY <1>1, <2>1 DEF JobFits, JobPlace
  <2>3. job'.anchor = r /\ job'.pc = IF job.kind = "init" \/ job.fallback \/ shuttingDown THEN "end" ELSE "discover"
    BY <1>2, <1>12 DEF AnchorLoaded, Jobs
  <2>4. ASSUME ~shuttingDown, NEW i \in Mapped, NEW f \in ctxs[i].files, r \in Above[DirOf[f]]
        PROVE  Placed(f)' \/ ContextFor(f)' = i
    <3>1. CASE job'.pc = "discover"
      BY <2>3, <2>4, <3>1
    <3>2. CASE job.kind = "init"
      <4>1. KnownRoots = {}
        BY <1>1, <2>1, <3>2 DEF JobFits, JobPlace
      <4> QED
        BY <4>1 DEF Mapped
    <3>3. CASE job.fallback
      <4> DEFINE d == DirOf[f]
                 o == NearestRoot(d, KnownRoots)
      <4>1. f \in Documents /\ d \in Dirs
        BY <1>1, <1>4, FileTypes
      <4>2. ContextFor(f) = i /\ i # 0
        BY <1>1, <1>4, <2>1, <2>4 DEF FilesFit
      <4>3. Home(d) = i
        BY <1>1, <4>1, <4>2, ContextForIs
      <4>4. o # NoDir
        BY <2>2, <3>3, <4>2, <4>3 DEF Home
      <4>5. o \in KnownRoots \cap Above[d] /\ o \in Dirs /\ KnownRoots \cap Above[d] \subseteq Above[o]
        BY <4>1, <4>4, NearestIs
      <4> HIDE DEF o
      <4>6. o \notin Above[r]
        BY <2>2, <3>3, <4>5
      <4>7. r \in Above[o]
        BY <2>1, <2>4, <4>1, <4>5, <4>6, InLine
      <4>8. KnownRoots' = KnownRoots \cup {r} /\ contexts'[o] = contexts[o]
        <5>1. o # r
          BY <2>1, <4>6, RegistryAssumption
        <5> QED
          BY <1>1, <1>2, <2>1, <4>5, <5>1, CreateMapped
      <4>9. NearestRoot(d, KnownRoots') = o
        <5>1. o \in KnownRoots' \cap Above[d] /\ KnownRoots' \cap Above[d] \subseteq Above[o]
          BY <4>5, <4>7, <4>8
        <5> QED
          BY <4>1, <5>1, NearestOnly
      <4>10. Home(d)' = contexts'[o] /\ Home(d) = contexts[o]
        BY <4>4, <4>5, <4>9, RegistryAssumption DEF Home, o
      <4> QED
        BY <1>3, <4>1, <4>3, <4>8, <4>10, ContextForIsNext
    <3> QED
      BY <2>3, <2>4, <3>1, <3>2, <3>3
  <2>5. \A f \in Documents : Placed(f) => Placed(f)'
    BY <2>1
  <2>6. primaryRoot' = primaryRoot \/ Primary = 0
    BY <2>1, <2>2
  <2> HIDE DEF r
  <2> QED
    BY <1>2, <1>7, <2>1, <2>4, <2>5, <2>6
<1>13. CASE Discovered
  <2>1. job.pc = "discover" /\ job'.pc = "nested" /\ job'.anchor = job.anchor
        /\ UNCHANGED <<contexts, primaryRoot, ctxs, shuttingDown>>
    BY <1>2, <1>13 DEF Discovered, Jobs
  <2> QED
    BY <1>2, <1>6, <2>1
<1>14. CASE NestedLoaded
  <2>1. PICK n \in job.todo : CreateContext(n, FALSE) /\ job' = [job EXCEPT !.todo = @ \ {n}]
    BY <1>14 DEF NestedLoaded
  <2>2. job.pc = "nested" /\ job'.pc = "nested" /\ job'.anchor = job.anchor /\ UNCHANGED <<primaryRoot, shuttingDown>>
    BY <1>2, <1>14, <2>1 DEF NestedLoaded, Jobs
  <2>3. n \in Dirs /\ contexts[n] = 0 /\ job.anchor \in Above[n]
    BY <1>1, <1>2, <2>2 DEF JobFits, JobPlace, Jobs
  <2>4. ASSUME NEW i \in Mapped, NEW f \in ctxs[i].files, n \in Above[DirOf[f]] PROVE Placed(f)'
    <3>1. DirOf[f] \in Dirs
      BY <1>1, <1>4, FileTypes
    <3> QED
      BY <2>2, <2>3, <2>4, <3>1, RegistryAssumption
  <2>5. \A f \in Documents : Placed(f) => Placed(f)'
    BY <2>2
  <2> QED
    BY <1>7, <2>1, <2>2, <2>3, <2>4, <2>5
<1>15. CASE EvictForeignFiles
  <2>1. job.pc = "nested" /\ UNCHANGED <<contexts, primaryRoot, shuttingDown>>
    BY <1>15 DEF EvictForeignFiles
  <2>2. \A i \in Mapped : ctxs'[i].files = ctxs[i].files \ Foreign(i)
    BY <1>2, <1>4, <1>15, EvictCtxs
  <2>3. ASSUME ~shuttingDown, NEW i \in Mapped, NEW f \in ctxs[i].files \ Foreign(i) PROVE ContextFor(f) = i /\ f \in Documents
    <3>1. f \in Documents /\ DirOf[f] \in Dirs
      BY <1>1, <1>4, FileTypes
    <3>2. CASE ~Placed(f)
      BY <1>1, <2>3, <3>1, <3>2 DEF FilesFit
    <3>3. CASE Placed(f)
      <4> DEFINE o == OwnerRoot(DirOf[f])
      <4>1. (IF o = NoDir THEN primaryRoot ELSE o) = ctxs[i].root
        BY <2>3, <3>3 DEF Foreign
      <4>2. contexts[ctxs[i].root] = i /\ ctxs[i].root \in Dirs
        BY <1>1, MappedIs DEF KnownRoots
      <4> QED
        BY <3>1, <4>1, <4>2, RegistryAssumption DEF ContextFor, Primary
    <3> QED
      BY <3>2, <3>3
  <2>4. Mapped' = Mapped
    BY <2>1, MappedStays
  <2>5. ASSUME ~shuttingDown, NEW i \in Mapped, NEW f \in ctxs'[i].files PROVE ContextFor(f)' = i
    BY <1>1, <1>3, <2>1, <2>2, <2>3, <2>5, SameHomes
  <2> QED
    BY <2>1, <2>4, <2>5 DEF FilesFit
<1>16. CASE IndexProject
  <2>1. UNCHANGED <<contexts, primaryRoot, shuttingDown, job>> /\ Mapped \subseteq DOMAIN ctxs
    BY <1>4, <1>16 DEF IndexProject
  <2>2. PICK i \in Mapped : /\ ctxs'[i].files = ctxs[i].files \cup Walked(i)
                            /\ \A j \in DOMAIN ctxs \ {i} : ctxs'[j] = ctxs[j]
    BY <1>2, <1>16, <2>1, IndexProjectCtxs
  <2>3. ASSUME NEW f \in Walked(i) PROVE f \in Documents /\ ContextFor(f) = i
    <3>1. f \in Documents /\ OwnerRoot(DirOf[f]) = ctxs[i].root
      BY RegistryAssumption DEF Walked
    <3>2. contexts[ctxs[i].root] = i /\ ctxs[i].root # NoDir
      BY <1>1, MappedIs, RegistryAssumption DEF KnownRoots
    <3> QED
      BY <3>1, <3>2 DEF ContextFor
  <2>4. ASSUME NEW j \in Mapped, NEW f \in ctxs'[j].files PROVE f \in ctxs[j].files \/ (f \in Documents /\ ContextFor(f) = j)
    BY <1>4, <2>2, <2>3, <2>4
  <2>5. \A f \in Documents : Placed(f) => Placed(f)'
    BY <2>1
  <2> QED
    BY <1>2, <1>5, <2>1, <2>4, <2>5
<1>17. CASE HandOver
  <2>1. UNCHANGED <<contexts, primaryRoot, shuttingDown>> /\ job.pc = "index"
    BY <1>17 DEF HandOver
  <2>2. Typed /\ \A i \in DOMAIN ctxs : \A f \in ctxs'[i].files \ ctxs[i].files : ContextFor(f) = i
    BY <1>2, <1>17, HandOverCtxs
  <2>4. ASSUME NEW j \in Mapped, NEW f \in ctxs'[j].files PROVE f \in ctxs[j].files \/ (f \in Documents /\ ContextFor(f) = j)
    <3>1. j \in DOMAIN ctxs /\ ctxs'[j] \in Context
      BY <1>4, <2>2 DEF Typed
    <3>2. f \in Documents
      BY <2>4, <3>1 DEF Context
    <3> QED
      BY <2>2, <3>1, <3>2
  <2>5. \A f \in Documents : Placed(f) => Placed(f)'
    BY <2>1
  <2> QED
    BY <1>2, <1>5, <2>1, <2>4, <2>5
<1>18. CASE EndTask
  <2>1. job.pc = "end" /\ UNCHANGED <<contexts, primaryRoot, ctxs, shuttingDown>>
    BY <1>18 DEF EndTask
  <2> QED
    BY <1>2, <1>6, <2>1
<1>19. CASE Shutdown
  BY <1>19 DEF Shutdown, FilesFit
<1>20. CASE \E g \in got : Parsed(g)
  <2>1. PICK g \in got : Parsed(g)
    BY <1>20
  <2> DEFINE f == g.call.file
             kept == ctxs[g.ctx].disposed \/ ContextFor(f) = g.ctx
  <2>2. g.ctx \in DOMAIN ctxs /\ f \in Documents
    BY <1>1, <1>2 DEF TypeOK, Call
  <2>3. /\ kept => ctxs'[g.ctx].files = ctxs[g.ctx].files \cup {f}
        /\ ~kept => ctxs'[g.ctx].files = ctxs[g.ctx].files \ {f}
        /\ \A j \in DOMAIN ctxs \ {g.ctx} : ctxs'[j] = ctxs[j]
    BY <1>2, <2>1, <2>2, ParsedCtxs
  <2>4. UNCHANGED <<contexts, primaryRoot, shuttingDown, job>>
    BY <2>1 DEF Parsed
  <2>5. CASE shuttingDown
    BY <2>4, <2>5 DEF FilesFit
  <2>6. CASE ~shuttingDown
    <3>1. ASSUME NEW j \in Mapped, NEW e \in ctxs'[j].files PROVE e \in ctxs[j].files \/ (e \in Documents /\ ContextFor(e) = j)
      <4>1. CASE j = g.ctx
        <5>1. ~ctxs[j].disposed
          BY <1>1, <2>6, MappedIs
        <5> QED
          BY <2>2, <2>3, <3>1, <4>1, <5>1
      <4>2. CASE j # g.ctx
        BY <1>4, <2>3, <3>1, <4>2
      <4> QED
        BY <4>1, <4>2
    <3>2. \A e \in Documents : Placed(e) => Placed(e)'
      BY <2>4
    <3> QED
      BY <1>2, <1>5, <2>4, <3>1, <3>2
  <2> QED
    BY <1>2, <2>5, <2>6
<1>21. CASE \/ RegisterWatchers \/ ReloadTimer \/ UNCHANGED vars \/ \E d \in Dirs : ChangeConfig(d)
            \/ (\E f \in Documents : Open(f) \/ Edit(f) \/ ParseTimer(f) \/ ReindexNext(f))
  <2>1. UNCHANGED <<ctxs, contexts, shuttingDown, job, primaryRoot>>
    BY <1>21 DEF RegisterWatchers, ReloadTimer, vars, ChangeConfig, Open, Edit, ParseTimer, ReindexNext
  <2> QED
    BY <1>2, <1>6, <2>1
<1> QED
  BY <1>8, <1>9, <1>10, <1>11, <1>12, <1>13, <1>14, <1>15, <1>16, <1>17, <1>18, <1>19, <1>20, <1>21 DEF Next, LaneStep

-------------------------------------------------------------------------------
\* An answer is a context that lives.
LEMMA AnswerLives ==
  ASSUME TypeOK, CacheFresh, MapsMatch, NEW f \in Documents, ContextFor(f) # 0
  PROVE  ContextFor(f) \in Mapped /\ (~shuttingDown => ~ctxs[ContextFor(f)].disposed)
<1>1. DirOf[f] \in Dirs
  BY RegistryAssumption
<1>2. OwnerRoot(DirOf[f]) \in KnownRoots \cup {NoDir}
  BY <1>1, OwnerIs, NearestIs
<1>3. Primary # 0 => primaryRoot \in KnownRoots
  BY DEF TypeOK, Primary, KnownRoots
<1>4. ContextFor(f) \in Mapped
  BY <1>2, <1>3 DEF ContextFor, Primary, Mapped
<1> QED
  BY <1>4, MappedIs

\* What ensureContextFor does with the documents that wait for an answer.
LEMMA EnsureCares ==
  ASSUME TypeOK, CacheFresh, MapsMatch, ~shuttingDown, NEW call \in Call, EnsureContextFor(call),
         UNCHANGED ctxs
  PROVE  /\ \A f \in Documents : /\ Waiting(f) => Waiting(f)'
                                 /\ Queueing(f) => Queueing(f)'
                                 /\ Parsing(f) => Parsing(f)'
         /\ \/ Waiting(call.file)' \/ Queueing(call.file)'
            \/ Parsing(call.file)' /\ OwnerRoot(DirOf[call.file]) # NoDir
<1>1. lane \in Seq(Task) /\ gate \in Seq(Call) /\ call.file \in Documents
  BY DEF TypeOK, Call
<1>2. Queued
  BY EnsureQueues
<1>3. CASE startupOpen /\ Fast(call)
  <2>1. gate' = gate /\ lane' = lane /\ got' = got \cup Answered({call}) /\ ctxs' = ctxs
    BY <1>3 DEF EnsureContextFor
  <2>2. ~ctxs[ContextFor(call.file)].disposed
    BY <1>1, <1>3, AnswerLives DEF Fast
  <2>3. Parsing(call.file)'
    <3> DEFINE g == [call |-> call, ctx |-> ContextFor(call.file)]
    <3>1. g \in got' /\ g.call.file = call.file /\ ~ctxs'[g.ctx].disposed
      BY <2>1, <2>2 DEF Answered
    <3> QED
      BY <3>1 DEF Parsing
  <2>4. OwnerRoot(DirOf[call.file]) # NoDir
    BY <1>3 DEF Fast
  <2> QED
    BY <2>1, <2>3, <2>4 DEF Waiting, Queueing, Parsing
<1>4. CASE startupOpen /\ ~Fast(call)
  <2> DEFINE t == [kind |-> "create", call |-> call]
  <2>1. gate' = gate /\ lane' = Append(lane, t) /\ got' = got /\ ctxs' = ctxs
    BY <1>4 DEF EnsureContextFor
  <2>2. t.kind = "create" /\ t.call = call /\ t \in Task
    BY CreateTask
  <2> HIDE DEF t
  <2>3. Len(lane) + 1 \in DOMAIN lane' /\ lane'[Len(lane) + 1] = t
    BY <1>1, <2>1, <2>2
  <2>4. Queueing(call.file)'
    BY <2>2, <2>3 DEF Queueing
  <2> QED
    BY <1>2, <2>1, <2>4 DEF Waiting, Queueing, Parsing, Queued
<1>5. CASE ~startupOpen
  <2>1. gate' = Append(gate, call) /\ lane' = lane /\ got' = got /\ ctxs' = ctxs
    BY <1>5 DEF EnsureContextFor
  <2>2. /\ Len(gate) + 1 \in DOMAIN gate' /\ gate'[Len(gate) + 1] = call
        /\ \A i \in DOMAIN gate : i \in DOMAIN gate' /\ gate'[i] = gate[i]
    BY <1>1, <2>1
  <2> QED
    BY <2>1, <2>2 DEF Waiting, Queueing, Parsing
<1> QED
  BY <1>3, <1>4, <1>5

\* What finishStartup does with them.
LEMMA FinishCares ==
  ASSUME TypeOK, CacheFresh, MapsMatch, ~shuttingDown, NEW also, FinishStartup(also), UNCHANGED ctxs
  PROVE  \A f \in Documents : /\ Waiting(f) => \/ Queueing(f)'
                                               \/ Parsing(f)' /\ OwnerRoot(DirOf[f]) # NoDir
                              /\ Queueing(f) => Queueing(f)'
                              /\ Parsing(f) => Parsing(f)'
<1>1. lane \in Seq(Task) /\ gate \in Seq(Call)
  BY DEF TypeOK
<1>2. Queued /\ \A i \in Slow : \E j \in DOMAIN lane' : lane'[j] = [kind |-> "create", call |-> gate[i]]
  BY FinishQueues
<1>3. got' = got \cup Answered({c \in ToSet(gate) : Fast(c)}) \cup also /\ ctxs' = ctxs
  BY DEF FinishStartup
<1>4. ASSUME NEW i \in DOMAIN gate, NEW f \in Documents, f = gate[i].file
      PROVE  Queueing(f)' \/ (Parsing(f)' /\ OwnerRoot(DirOf[f]) # NoDir)
  <2>1. gate[i] \in Call
    BY <1>1
  <2>2. CASE Fast(gate[i])
    <3> DEFINE g == [call |-> gate[i], ctx |-> ContextFor(f)]
    <3>1. gate[i] \in ToSet(gate)
      BY DEF ToSet
    <3>2. g \in got'
      BY <1>3, <1>4, <2>2, <3>1 DEF Answered
    <3>3. g.call.file = f /\ ~ctxs'[g.ctx].disposed
      BY <1>3, <1>4, <2>1, <2>2, AnswerLives DEF Fast
    <3>4. OwnerRoot(DirOf[f]) # NoDir
      BY <1>4, <2>2 DEF Fast
    <3> QED
      BY <3>2, <3>3, <3>4 DEF Parsing
  <2>3. CASE ~Fast(gate[i])
    <3>1. PICK j \in DOMAIN lane' : lane'[j] = [kind |-> "create", call |-> gate[i]]
      BY <1>2, <2>3 DEF Slow
    <3> QED
      BY <1>4, <3>1 DEF Queueing
  <2> QED
    BY <2>2, <2>3
<1> QED
  BY <1>2, <1>3, <1>4 DEF Waiting, Queueing, Parsing, Queued

\* One step loses no open document.
LEMMA OpenKeeps ==
  ASSUME RegistryInv, [Next]_vars
  PROVE  OpenFit'
<1> DEFINE Own(f) == \/ job.kind = "create" /\ job.call.file = f
                     \/ job.kind = "reload" /\ job.pc # "reload"
           Asked(f) == f \in reindex \/ Waiting(f) \/ Queueing(f)
<1>1. TypeOK /\ JobFits /\ LaneFits /\ MapsMatch /\ OpenFit /\ CacheFresh /\ LiveIsMapped
  BY DEF RegistryInv, Coherent
<1>2. /\ ctxs \in Seq(Context) /\ DOMAIN ctxs = 1..Len(ctxs) /\ Len(ctxs) \in Nat
      /\ contexts \in [Dirs -> 0..Len(ctxs)] /\ shuttingDown \in BOOLEAN /\ open \subseteq Documents
      /\ job \in Jobs /\ job.fallback \in BOOLEAN /\ lane \in Seq(Task)
      /\ primaryRoot \in Dirs \cup {NoDir} /\ edited \subseteq Documents
      /\ \A g \in got : g.call \in Call /\ g.ctx \in DOMAIN ctxs
  BY <1>1 DEF TypeOK, JobFits, JobShape, Jobs
<1>3. \A i \in Mapped : i \in DOMAIN ctxs /\ i # 0
  BY <1>1, MappedIs
<1>4. ASSUME NEW f \in open, ~shuttingDown
      PROVE  f \in Documents /\ (Asked(f) \/ Own(f) \/ f \in edited \/ Parsing(f) \/ Held(f) \/ Evicted(f))
  BY <1>1, <1>2, <1>4 DEF OpenFit, CaredFor, Called
<1>5. ASSUME NEW f, (Asked(f) \/ Own(f) \/ f \in edited \/ Parsing(f) \/ Held(f) \/ Evicted(f))'
      PROVE  CaredFor(f)'
  BY <1>5 DEF CaredFor, Called
\* Nothing is answered, withdrawn or taken from an index.
<1>6. ASSUME UNCHANGED <<open, edited, gate, got, ctxs, contexts>>, reindex \subseteq reindex',
             ~shuttingDown' => ~shuttingDown,
             \A f \in Documents : ~shuttingDown /\ Queueing(f) => Queueing(f)' \/ Own(f)' \/ Parsing(f)',
             \A f \in Documents : ~shuttingDown /\ Own(f) => Own(f)' \/ Parsing(f)',
             job.pc # "index" \/ UNCHANGED job
      PROVE  OpenFit'
  <2>1. Mapped' = Mapped
    BY <1>6, MappedStays
  <2>2. ASSUME NEW f \in open, ~shuttingDown
        PROVE  (Asked(f) \/ Own(f) \/ f \in edited \/ Parsing(f) \/ Held(f) \/ Evicted(f))'
    <3>1. /\ Waiting(f)' = Waiting(f) /\ Parsing(f)' = Parsing(f) /\ Held(f)' = Held(f)
          /\ Evicted(f) => Evicted(f)'
      BY <1>6, <2>1 DEF Waiting, Parsing, Held, Evicted
    <3> QED
      BY <1>4, <1>6, <2>2, <3>1
  <2> QED
    BY <1>5, <1>6, <2>2 DEF OpenFit
\* The contexts are kept, and none loses a file that is not cared for elsewhere.
<1>7. ASSUME UNCHANGED <<open, edited, reindex, gate, lane, got>>, ~shuttingDown' => ~shuttingDown,
             \A i \in DOMAIN ctxs : ctxs'[i].disposed = ctxs[i].disposed,
             \A f \in Documents : Own(f) => Own(f)',
             \A f \in open : ~shuttingDown /\ (Held(f) \/ Evicted(f)) => Held(f)' \/ Evicted(f)'
      PROVE  OpenFit'
  <2>1. ASSUME NEW f \in open, ~shuttingDown
        PROVE  (Asked(f) \/ Own(f) \/ f \in edited \/ Parsing(f) \/ Held(f) \/ Evicted(f))'
    <3>1. Waiting(f)' = Waiting(f) /\ Queueing(f)' = Queueing(f) /\ (Parsing(f) => Parsing(f)')
      BY <1>2, <1>7 DEF Waiting, Queueing, Parsing
    <3> QED
      BY <1>4, <1>7, <2>1, <3>1
  <2> QED
    BY <1>5, <1>7, <2>1 DEF OpenFit
\* A handler routes a document.
<1>8. ASSUME NEW e \in Documents, NEW by \in {"event", "reindex"}, EnsureContextFor([by |-> by, file |-> e]),
             UNCHANGED <<ctxs, contexts, job, shuttingDown>>, open' \subseteq open \cup {e},
             edited \subseteq edited' \cup {e}, reindex \subseteq reindex' \cup {e}
      PROVE  OpenFit'
  <2>1. [by |-> by, file |-> e] \in Call /\ [by |-> by, file |-> e].file = e
    BY DEF Call
  <2>2. Mapped' = Mapped
    BY <1>8, MappedStays
  <2>3. ASSUME ~shuttingDown
        PROVE  /\ \A f \in Documents : /\ Waiting(f) => Waiting(f)'
                                       /\ Queueing(f) => Queueing(f)'
                                       /\ Parsing(f) => Parsing(f)'
               /\ Waiting(e)' \/ Queueing(e)' \/ Parsing(e)'
    <3> DEFINE call == [by |-> by, file |-> e]
    <3>1. call \in Call /\ EnsureContextFor(call) /\ call.file = e
      BY <1>8, <2>1
    <3> HIDE DEF call
    <3> QED
      BY <1>1, <1>8, <2>3, <3>1, EnsureCares
  <2>4. ASSUME NEW f \in open \cup {e}, ~shuttingDown
        PROVE  (Asked(f) \/ Own(f) \/ f \in edited \/ Parsing(f) \/ Held(f) \/ Evicted(f))'
    <3>1. CASE f = e
      BY <2>3, <2>4, <3>1
    <3>2. CASE f # e /\ f \in open
      <4>1. Held(f)' = Held(f) /\ Evicted(f)' = Evicted(f) /\ Own(f)' = Own(f)
        BY <1>8, <2>2 DEF Held, Evicted
      <4> QED
        BY <1>4, <1>8, <2>3, <2>4, <3>2, <4>1
    <3> QED
      BY <2>4, <3>1, <3>2
  <2> QED
    BY <1>5, <1>8, <2>4 DEF OpenFit
\* A task leaves the lane.
<1>9. ASSUME lane # <<>>, lane' = Tail(lane), NEW f \in Documents, Queueing(f)
      PROVE  Queueing(f)' \/ (Head(lane).kind = "create" /\ Head(lane).call.file = f)
  <2>1. PICK i \in DOMAIN lane : lane[i].kind = "create" /\ lane[i].call.file = f
    BY <1>9 DEF Queueing
  <2>2. i = 1 \/ \E j \in DOMAIN Tail(lane) : Tail(lane)[j] = lane[i]
    BY <1>2, <1>9, TailItems
  <2>3. Head(lane) = lane[1]
    BY <1>2, <1>9, TailItems
  <2> QED
    BY <1>9, <2>1, <2>2, <2>3 DEF Queueing
<1>10. CASE StartInit \/ StartIndexAll
  <2>1. lane # <<>> /\ lane' = Tail(lane) /\ job = Idle /\ Head(lane).kind # "create"
        /\ UNCHANGED <<open, edited, reindex, gate, got, ctxs, contexts, shuttingDown>>
    BY <1>10 DEF StartInit, StartIndexAll, Start, disk, handlers
  <2>2. \A f \in Documents : ~Own(f)
    BY <2>1 DEF Idle
  <2>3. \A f \in Documents : Queueing(f) => Queueing(f)'
    BY <1>9, <2>1
  <2>4. job.pc # "index"
    BY <2>1 DEF Idle
  <2> QED
    BY <1>6, <2>1, <2>2, <2>3, <2>4
<1>11. CASE StartReload
  <2>1. lane # <<>> /\ lane' = Tail(lane) /\ job = Idle /\ Head(lane).kind # "create"
        /\ UNCHANGED <<open, edited, gate, got, shuttingDown>> /\ reindex \subseteq reindex'
    BY <1>11 DEF StartReload, Start, disk
  <2>2. \A f \in Documents : ~Own(f)
    BY <2>1 DEF Idle
  <2>3. \A f \in Documents : Queueing(f) => Queueing(f)'
    BY <1>9, <2>1
  <2>4. job.pc # "index"
    BY <2>1 DEF Idle
  <2>5. CASE Rebuild
    <3>1. job'.kind = "reload" /\ job'.pc # "reload"
      BY <2>5 DEF Rebuild, Idle
    <3> QED
      BY <1>5, <3>1 DEF OpenFit
  <2>6. CASE UNCHANGED <<ctxs, contexts>>
    BY <1>6, <2>1, <2>2, <2>3, <2>4, <2>6
  <2> QED
    BY <1>11, <2>5, <2>6 DEF StartReload
<1>12. CASE StartCreate
  <2> DEFINE call == Head(lane).call
  <2>1. lane # <<>> /\ lane' = Tail(lane) /\ job = Idle /\ Head(lane).kind = "create"
        /\ UNCHANGED <<open, edited, reindex, gate, ctxs, contexts, shuttingDown>>
    BY <1>12 DEF StartCreate, Start, disk
  <2>2. call \in Call /\ call.file \in Documents
    <3>1. Head(lane) = lane[1] /\ 1 \in DOMAIN lane
      BY <1>2, <2>1, TailItems
    <3> QED
      BY <1>1, <2>1, <3>1 DEF LaneFits, LaneItems, Call
  <2>3. ASSUME ~shuttingDown
        PROVE  \/ got' = got /\ Began("resolve", NoDir)
               \/ got' = got \cup Answered({call}) /\ OwnerRoot(DirOf[call.file]) # NoDir
    BY <1>12, <2>3 DEF StartCreate
  <2>4. ASSUME NEW f \in Documents, ~shuttingDown, f = call.file PROVE Own(f)' \/ Parsing(f)'
    <3>1. CASE got' = got /\ Began("resolve", NoDir)
      <4>1. job'.kind = "create" /\ job'.call = call
        BY <2>1, <3>1 DEF Began, Idle
      <4> QED
        BY <2>4, <4>1
    <3>2. CASE got' = got \cup Answered({call}) /\ OwnerRoot(DirOf[call.file]) # NoDir
      <4>1. ContextFor(call.file) # 0
        BY <1>1, <2>2, <3>2, OwnerHasContext
      <4>2. ~ctxs[ContextFor(call.file)].disposed
        BY <1>1, <2>2, <2>4, <4>1, AnswerLives
      <4> DEFINE g == [call |-> call, ctx |-> ContextFor(call.file)]
      <4>3. g \in got' /\ g.call.file = f /\ ~ctxs'[g.ctx].disposed
        BY <2>1, <2>4, <3>2, <4>2 DEF Answered
      <4> QED
        BY <4>3 DEF Parsing
    <3> QED
      BY <2>3, <2>4, <3>1, <3>2
  <2>5. Mapped' = Mapped
    BY <2>1, MappedStays
  <2>6. ASSUME NEW f \in open, ~shuttingDown
        PROVE  (Asked(f) \/ Own(f) \/ f \in edited \/ Parsing(f) \/ Held(f) \/ Evicted(f))'
    <3>1. /\ Waiting(f)' = Waiting(f) /\ Held(f)' = Held(f)
          /\ ~Own(f) /\ ~Evicted(f)
      BY <2>1, <2>5 DEF Waiting, Held, Evicted, Idle
    <3>2. Parsing(f) => Parsing(f)'
      BY <2>1, <2>3, <2>6 DEF Parsing
    <3>3. Queueing(f) => Queueing(f)' \/ f = call.file
      BY <1>4, <1>9, <2>1, <2>6
    <3> QED
      BY <1>4, <2>1, <2>4, <2>6, <3>1, <3>2, <3>3
  <2> QED
    BY <1>5, <2>1, <2>6 DEF OpenFit
<1>13. CASE Reloaded
  <2>1. /\ job.pc = "reload" /\ UNCHANGED <<open, edited, gate, lane, got, shuttingDown>>
        /\ reindex \subseteq reindex'
    BY <1>13 DEF Reloaded, disk
  <2>2. job.kind = "reload"
    BY <1>1, <1>2, <2>1 DEF JobFits, JobShape, Anchored, Adding, Idle, Jobs, Kinds
  <2>3. CASE Rebuild
    <3>1. job'.kind = "reload" /\ job'.pc # "reload"
      BY <2>3 DEF Rebuild, Idle
    <3> QED
      BY <1>5, <3>1 DEF OpenFit
  <2>4. CASE UNCHANGED <<ctxs, contexts>>
    <3>1. \A f \in Documents : ~Own(f) /\ (Queueing(f) => Queueing(f)')
      BY <2>1, <2>2 DEF Queueing
    <3> QED
      BY <1>6, <2>1, <2>4, <3>1
  <2> QED
    BY <1>13, <2>3, <2>4 DEF Reloaded
<1>14. CASE ResolvePrimary
  <2>1. job.pc = "resolve" /\ job'.kind = job.kind /\ job'.pc = "load" /\ job'.call = job.call
        /\ UNCHANGED <<open, edited, reindex, gate, lane, got, ctxs, contexts, shuttingDown>>
    BY <1>2, <1>14 DEF ResolvePrimary, Jobs, disk, handlers
  <2>2. \A f \in Documents : (Own(f) => Own(f)') /\ (Queueing(f) => Queueing(f)')
    BY <2>1 DEF Queueing
  <2> QED
    BY <1>6, <2>1, <2>2
<1>15. CASE ResolveDocument
  <2>1. job.pc = "resolve" /\ job.kind = "create"
        /\ UNCHANGED <<open, edited, reindex, gate, lane, ctxs, contexts, shuttingDown>>
    BY <1>15 DEF ResolveDocument, disk
  <2>2. \/ got' = got \cup {[call |-> job.call, ctx |-> Primary]} /\ Primary # 0
        \/ got' = got /\ job'.kind = job.kind /\ job'.call = job.call
    BY <1>2, <1>15 DEF ResolveDocument, Jobs
  <2>3. CASE got' = got /\ job'.kind = job.kind /\ job'.call = job.call
    <3>1. \A f \in Documents : (Own(f) => Own(f)') /\ (Queueing(f) => Queueing(f)')
      BY <2>1, <2>3 DEF Queueing
    <3> QED
      BY <1>6, <2>1, <2>3, <3>1
  <2>4. CASE got' = got \cup {[call |-> job.call, ctx |-> Primary]} /\ Primary # 0
    <3> DEFINE g == [call |-> job.call, ctx |-> Primary]
    <3>1. primaryRoot \in KnownRoots /\ Primary \in Mapped
      BY <1>2, <2>4 DEF Primary, KnownRoots, Mapped
    <3>2. ~shuttingDown => ~ctxs'[g.ctx].disposed
      BY <1>1, <2>1, <3>1, MappedIs
    <3>3. g \in got' /\ g.call.file = job.call.file
      BY <2>4
    <3>4. Mapped' = Mapped
      BY <2>1, MappedStays
    <3>5. ASSUME NEW f \in open, ~shuttingDown
          PROVE  (Asked(f) \/ Own(f) \/ f \in edited \/ Parsing(f) \/ Held(f) \/ Evicted(f))'
      <4>1. CASE Own(f)
        <5>1. f = job.call.file
          BY <2>1, <4>1
        <5>2. Parsing(f)'
          BY <3>2, <3>3, <3>5, <5>1 DEF Parsing
        <5> QED
          BY <5>2
      <4>2. CASE ~Own(f)
        <5>1. /\ Waiting(f)' = Waiting(f) /\ Queueing(f)' = Queueing(f) /\ Held(f)' = Held(f)
              /\ ~Evicted(f)
          BY <2>1, <3>4 DEF Waiting, Queueing, Held, Evicted
        <5>2. Parsing(f) => Parsing(f)'
          BY <2>1, <2>4 DEF Parsing
        <5> QED
          BY <1>4, <2>1, <3>5, <4>2, <5>1, <5>2
      <4> QED
        BY <4>1, <4>2
    <3> QED
      BY <1>5, <2>1, <3>5 DEF OpenFit
  <2> QED
    BY <2>2, <2>3, <2>4
<1>16. ASSUME NEW r \in Dirs, NEW b \in BOOLEAN, CreateContext(r, b), contexts[r] = 0, job.pc # "index",
              job'.kind = job.kind, job'.call = job.call, job.pc # "reload", job'.pc # "reload",
              UNCHANGED <<open, edited, reindex, gate, lane, got, shuttingDown>>
       PROVE  OpenFit'
  <2>1. Mapped' = Mapped \cup {Len(ctxs) + 1}
    BY <1>1, <1>16, CreateMapped
  <2>2. \A i \in DOMAIN ctxs : ctxs'[i] = ctxs[i]
    BY <1>2, <1>16, CreateContextCtxs
  <2>3. \A f \in Documents : Held(f) => Held(f)'
    BY <1>3, <2>1, <2>2 DEF Held
  <2>4. \A f \in Documents : Own(f) => Own(f)'
    BY <1>16
  <2>5. \A f \in open : ~Evicted(f) /\ f \in Documents
    BY <1>2, <1>16 DEF Evicted
  <2> QED
    BY <1>7, <1>16, <2>2, <2>3, <2>4, <2>5
<1>17. CASE AnchorLoaded
  <2>1. job.pc = "load" /\ CreateContext(job.anchor, job.fallback) /\ job.anchor \in Dirs /\ contexts[job.anchor] = 0
    BY <1>1, <1>17 DEF AnchorLoaded, JobFits, JobShape, JobPlace, Anchored
  <2>2. job'.kind = job.kind /\ job'.call = job.call /\ job'.pc # "reload"
    BY <1>2, <1>17 DEF AnchorLoaded, Jobs
  <2>3. UNCHANGED <<open, edited, reindex, gate, lane, got, shuttingDown>>
    BY <1>17 DEF AnchorLoaded, disk, handlers
  <2> QED
    BY <1>2, <1>16, <2>1, <2>2, <2>3
<1>18. CASE NestedLoaded
  <2>1. PICK n \in job.todo : CreateContext(n, FALSE) /\ job' = [job EXCEPT !.todo = @ \ {n}]
    BY <1>18 DEF NestedLoaded
  <2>2. n \in Dirs /\ contexts[n] = 0 /\ job.pc = "nested"
    BY <1>1, <1>2, <1>18 DEF NestedLoaded, JobFits, JobPlace, Jobs
  <2>3. job'.kind = job.kind /\ job'.call = job.call /\ job'.pc = job.pc
    BY <1>2, <2>1 DEF Jobs
  <2>4. UNCHANGED <<open, edited, reindex, gate, lane, got, shuttingDown>>
    BY <1>18 DEF NestedLoaded, disk, handlers
  <2> QED
    BY <1>16, <2>1, <2>2, <2>3, <2>4
<1>19. CASE Discovered
  <2>1. job.pc = "discover" /\ job'.kind = job.kind /\ job'.pc = "nested" /\ job'.call = job.call
        /\ UNCHANGED <<open, edited, reindex, gate, lane, got, ctxs, contexts, shuttingDown>>
    BY <1>2, <1>19 DEF Discovered, Jobs, disk, handlers
  <2>2. \A f \in Documents : (Own(f) => Own(f)') /\ (Queueing(f) => Queueing(f)')
    BY <2>1 DEF Queueing
  <2> QED
    BY <1>6, <2>1, <2>2
<1>20. CASE EvictForeignFiles
  <2>1. job.pc = "nested" /\ job'.kind = job.kind /\ job'.pc = "index" /\ job'.call = job.call
        /\ job'.evicted = UNION {Foreign(i) : i \in Mapped}
        /\ UNCHANGED <<open, edited, reindex, gate, lane, got, contexts, shuttingDown>>
    BY <1>2, <1>20 DEF EvictForeignFiles, Jobs, disk, handlers
  <2>2. \A i \in DOMAIN ctxs :
          /\ ctxs'[i].disposed = ctxs[i].disposed
          /\ ctxs'[i].files = IF i \in Mapped THEN ctxs[i].files \ Foreign(i) ELSE ctxs[i].files
    BY <1>2, <1>20, EvictCtxs
  <2>3. Mapped' = Mapped
    BY <2>1, MappedStays
  <2>4. ASSUME NEW f \in open, Held(f) \/ Evicted(f) PROVE Held(f)' \/ Evicted(f)'
    <3>1. PICK i \in Mapped : f \in ctxs[i].files
      BY <2>1, <2>4 DEF Held, Evicted
    <3>2. CASE f \in Foreign(i)
      BY <2>1, <3>2 DEF Evicted
    <3>3. CASE f \notin Foreign(i)
      BY <1>3, <2>2, <2>3, <3>1, <3>3 DEF Held
    <3> QED
      BY <3>2, <3>3
  <2>5. \A f \in Documents : Own(f) => Own(f)'
    BY <2>1
  <2> QED
    BY <1>7, <2>1, <2>2, <2>4, <2>5
<1>21. CASE IndexProject
  <2>1. UNCHANGED <<job, open, edited, reindex, gate, lane, got, contexts, shuttingDown>> /\ Mapped \subseteq DOMAIN ctxs
    BY <1>3, <1>21 DEF IndexProject, disk, handlers
  <2>2. PICK i \in Mapped : /\ ctxs'[i].disposed = ctxs[i].disposed
                            /\ ctxs'[i].files = ctxs[i].files \cup Walked(i)
                            /\ \A j \in DOMAIN ctxs \ {i} : ctxs'[j] = ctxs[j]
    BY <1>2, <1>21, <2>1, IndexProjectCtxs
  <2>3. \A j \in DOMAIN ctxs : ctxs'[j].disposed = ctxs[j].disposed /\ ctxs[j].files \subseteq ctxs'[j].files
    BY <2>2
  <2>4. Mapped' = Mapped
    BY <2>1, MappedStays
  <2>5. ASSUME NEW f \in open, Held(f) \/ Evicted(f) PROVE Held(f)' \/ Evicted(f)'
    BY <2>1, <2>3, <2>4, <2>5 DEF Held, Evicted
  <2>6. \A f \in Documents : Own(f) => Own(f)'
    BY <2>1
  <2> QED
    BY <1>7, <2>1, <2>3, <2>5, <2>6
<1>22. CASE HandOver
  <2>1. job.pc = "index" /\ job'.kind = job.kind /\ job'.pc = "end" /\ job'.call = job.call
        /\ UNCHANGED <<open, edited, reindex, gate, lane, got, contexts, shuttingDown>>
    BY <1>2, <1>22 DEF HandOver, Jobs, disk, handlers
  <2>2. \A i \in DOMAIN ctxs :
          /\ ctxs'[i].disposed = ctxs[i].disposed
          /\ ctxs[i].files \subseteq ctxs'[i].files
          /\ ~shuttingDown => \A f \in job.evicted \cap open : ContextFor(f) = i => f \in ctxs'[i].files
    BY <1>2, <1>22, HandOverCtxs
  <2>3. Mapped' = Mapped
    BY <2>1, MappedStays
  <2>4. ASSUME NEW f \in open, ~shuttingDown, Held(f) \/ Evicted(f) PROVE Held(f)'
    <3>1. CASE Held(f)
      BY <1>3, <2>2, <2>3, <3>1 DEF Held
    <3>2. CASE Evicted(f)
      <4> DEFINE d == DirOf[f]
      <4>1. f \in job.evicted /\ f \in Documents /\ d \in Dirs
        BY <1>2, <2>4, <3>2, RegistryAssumption DEF Evicted
      <4>2. job.anchor \in Above[d] /\ job.anchor \in KnownRoots
        BY <1>1, <2>1, <4>1 DEF JobFits, JobShape, JobPlace, Anchored, Adding, KnownRoots
      <4>3. OwnerRoot(d) # NoDir
        BY <1>1, <4>1, <4>2, OwnerIs, NearestIs
      <4>4. ContextFor(f) \in Mapped
        BY <1>1, <1>2, <4>1, <4>3, OwnerHasContext, AnswerLives
      <4> QED
        BY <1>3, <2>2, <2>3, <2>4, <4>1, <4>4 DEF Held
    <3> QED
      BY <2>4, <3>1, <3>2
  <2>5. \A f \in Documents : Own(f) => Own(f)'
    BY <2>1
  <2> QED
    BY <1>7, <2>1, <2>2, <2>4, <2>5
<1>23. CASE EndTask
  <2>1. job.pc = "end" /\ UNCHANGED <<open, edited, ctxs, contexts, shuttingDown>>
        /\ reindex' = IF job.kind = "reload" THEN reindex \cup open ELSE reindex
    BY <1>23 DEF EndTask, disk
  <2>2. Mapped' = Mapped
    BY <2>1, MappedStays
  <2>3. CASE job.kind = "init"
    <3> DEFINE t == [kind |-> "indexAll", call |-> NoCall]
    <3>1. lane' = Append(lane, t) /\ UNCHANGED <<gate, got, reindex>> /\ t \in Task
      BY <1>23, <2>3 DEF EndTask, Task, Kinds
    <3> HIDE DEF t
    <3>2. \A i \in DOMAIN lane : i \in DOMAIN lane' /\ lane'[i] = lane[i]
      BY <1>2, <3>1
    <3>3. \A f \in Documents : ~Own(f) /\ (Queueing(f) => Queueing(f)')
      BY <2>3, <3>2 DEF Queueing
    <3> QED
      BY <1>6, <2>1, <3>1, <3>3
  <2>4. CASE job.kind # "init"
    <3>1. PICK also : FinishStartup(also) /\ (job.kind = "create" /\ ~shuttingDown => also = {[call |-> job.call, ctx |-> contexts[job.anchor]]})
      BY <1>23, <2>4 DEF EndTask
    <3>2. ASSUME ~shuttingDown
          PROVE  \A f \in Documents : /\ Waiting(f) => Queueing(f)' \/ Parsing(f)'
                                      /\ Queueing(f) => Queueing(f)'
                                      /\ Parsing(f) => Parsing(f)'
      BY <1>1, <2>1, <3>1, <3>2, FinishCares
    <3>3. ASSUME NEW f \in open, ~shuttingDown, job.kind = "create", job.call.file = f PROVE Parsing(f)'
      <4> DEFINE g == [call |-> job.call, ctx |-> contexts[job.anchor]]
      <4>1. g \in got'
        BY <3>1, <3>3 DEF FinishStartup
      <4>2. contexts[job.anchor] \in Mapped
        BY <1>1, <2>1, <3>3 DEF JobFits, JobShape, JobPlace, Anchored, Adding, Mapped, KnownRoots
      <4>3. ~ctxs'[g.ctx].disposed /\ g.call.file = f
        BY <1>1, <2>1, <3>3, <4>2, MappedIs
      <4> QED
        BY <4>1, <4>3 DEF Parsing
    <3>4. ASSUME NEW f \in open, ~shuttingDown
          PROVE  (Asked(f) \/ Own(f) \/ f \in edited \/ Parsing(f) \/ Held(f) \/ Evicted(f))'
      <4>1. CASE job.kind = "reload"
        BY <2>1, <4>1
      <4>2. CASE job.kind = "create" /\ job.call.file = f
        BY <3>3, <3>4, <4>2
      <4>3. CASE job.kind # "reload" /\ ~(job.kind = "create" /\ job.call.file = f)
        <5>1. Held(f)' = Held(f) /\ ~Evicted(f) /\ ~Own(f)
          BY <2>1, <2>2, <4>3 DEF Held, Evicted
        <5> QED
          BY <1>4, <2>1, <3>2, <3>4, <4>3, <5>1
      <4> QED
        BY <4>1, <4>2, <4>3
    <3> QED
      BY <1>5, <2>1, <3>4 DEF OpenFit
  <2> QED
    BY <2>3, <2>4
<1>24. ASSUME NEW f \in Documents, Open(f) \/ ParseTimer(f) \/ ReindexNext(f) PROVE OpenFit'
  <2>1. /\ UNCHANGED <<ctxs, contexts, job, shuttingDown>> /\ open' \subseteq open \cup {f}
        /\ edited \subseteq edited' \cup {f} /\ reindex \subseteq reindex' \cup {f}
    BY <1>24 DEF Open, ParseTimer, ReindexNext, disk
  <2>2. \E by \in {"event", "reindex"} : EnsureContextFor([by |-> by, file |-> f])
    BY <1>24 DEF Open, ParseTimer, ReindexNext
  <2> QED
    BY <1>8, <2>1, <2>2
<1>25. ASSUME NEW f \in Documents, Edit(f) PROVE OpenFit'
  <2>1. UNCHANGED <<ctxs, contexts, job, shuttingDown, open, gate, lane, got, reindex>> /\ edited \subseteq edited'
    BY <1>25 DEF Edit
  <2>2. Mapped' = Mapped
    BY <2>1, MappedStays
  <2>3. ASSUME NEW e \in open, ~shuttingDown
        PROVE  (Asked(e) \/ Own(e) \/ e \in edited \/ Parsing(e) \/ Held(e) \/ Evicted(e))'
    <3>1. /\ Waiting(e)' = Waiting(e) /\ Queueing(e)' = Queueing(e) /\ Parsing(e)' = Parsing(e)
          /\ Held(e)' = Held(e) /\ Evicted(e)' = Evicted(e) /\ Own(e)' = Own(e)
      BY <2>1, <2>2 DEF Waiting, Queueing, Parsing, Held, Evicted
    <3> QED
      BY <1>4, <2>1, <2>3, <3>1
  <2> QED
    BY <1>5, <2>1, <2>3 DEF OpenFit
<1>26. ASSUME NEW g \in got, Parsed(g) PROVE OpenFit'
  <2> DEFINE f == g.call.file
             kept == ctxs[g.ctx].disposed \/ ContextFor(f) = g.ctx
  <2>1. g.ctx \in DOMAIN ctxs /\ f \in Documents
    BY <1>2 DEF Call
  <2>2. /\ ctxs'[g.ctx].disposed = ctxs[g.ctx].disposed
        /\ kept => ctxs'[g.ctx].files = ctxs[g.ctx].files \cup {f}
        /\ ~kept => ctxs'[g.ctx].files = ctxs[g.ctx].files \ {f}
        /\ \A j \in DOMAIN ctxs \ {g.ctx} : ctxs'[j] = ctxs[j]
    BY <1>2, <1>26, <2>1, ParsedCtxs
  <2>3. /\ UNCHANGED <<contexts, job, shuttingDown, open, gate, lane, reindex>> /\ got' = got \ {g}
        /\ edited' = IF kept THEN edited ELSE edited \cup {f}
    BY <1>26 DEF Parsed, disk
  <2>4. Mapped' = Mapped
    BY <2>3, MappedStays
  <2>5. ASSUME NEW e \in open, ~shuttingDown
        PROVE  (Asked(e) \/ Own(e) \/ e \in edited \/ Parsing(e) \/ Held(e) \/ Evicted(e))'
    <3>1. /\ Waiting(e)' = Waiting(e) /\ Queueing(e)' = Queueing(e)
          /\ Evicted(e)' = Evicted(e) /\ Own(e)' = Own(e) /\ (e \in edited => e \in edited')
      BY <2>3 DEF Waiting, Queueing, Evicted
    <3>2. CASE e = f /\ ~kept
      BY <2>3, <3>2
    <3>3. CASE e # f \/ kept
      <4>1. Held(e) => Held(e)'
        BY <1>3, <2>2, <2>4, <3>3 DEF Held
      <4>2. Parsing(e) => Parsing(e)' \/ Held(e)'
        <5> SUFFICES ASSUME Parsing(e) PROVE Parsing(e)' \/ Held(e)'
          OBVIOUS
        <5>1. PICK h \in got : h.call.file = e /\ ~ctxs[h.ctx].disposed
          BY DEF Parsing
        <5>2. CASE h = g
          <6>1. e = f /\ e \in ctxs'[g.ctx].files
            BY <2>2, <3>3, <5>1, <5>2
          <6>2. g.ctx \in Mapped
            <7>1. ctxs[g.ctx].root \in Dirs /\ g.ctx # 0
              BY <1>2, <2>1, ContextTypes
            <7>2. contexts[ctxs[g.ctx].root] = g.ctx
              BY <1>1, <2>1, <5>1, <5>2 DEF LiveIsMapped
            <7> QED
              BY <7>1, <7>2 DEF Mapped, KnownRoots
          <6> QED
            BY <2>4, <6>1, <6>2 DEF Held
        <5>3. CASE h # g
          <6>1. h \in got' /\ ctxs'[h.ctx].disposed = ctxs[h.ctx].disposed
            BY <1>2, <2>2, <2>3, <5>3
          <6> QED
            BY <5>1, <6>1 DEF Parsing
        <5> QED
          BY <5>2, <5>3
      <4> QED
        BY <1>4, <2>3, <2>5, <3>1, <4>1, <4>2
    <3> QED
      BY <3>2, <3>3
  <2> QED
    BY <1>5, <2>3, <2>5 DEF OpenFit
<1>27. CASE ReloadTimer
  <2> DEFINE t == [kind |-> "reload", call |-> NoCall]
  <2>1. lane' = Append(lane, t) /\ UNCHANGED <<open, edited, reindex, gate, got, ctxs, contexts, job, shuttingDown>> /\ t \in Task
    BY <1>27 DEF ReloadTimer, Task, Kinds, disk, handlers
  <2> HIDE DEF t
  <2>2. \A i \in DOMAIN lane : i \in DOMAIN lane' /\ lane'[i] = lane[i]
    BY <1>2, <2>1
  <2>3. \A f \in Documents : (Own(f) => Own(f)') /\ (Queueing(f) => Queueing(f)')
    BY <2>1, <2>2 DEF Queueing
  <2> QED
    BY <1>6, <2>1, <2>3
<1>28. CASE RegisterWatchers \/ UNCHANGED vars \/ \E d \in Dirs : ChangeConfig(d)
  <2>1. UNCHANGED <<open, edited, reindex, gate, lane, got, ctxs, contexts, job, shuttingDown>>
    BY <1>28 DEF RegisterWatchers, vars, ChangeConfig, disk, handlers
  <2>2. \A f \in Documents : (Own(f) => Own(f)') /\ (Queueing(f) => Queueing(f)')
    BY <2>1 DEF Queueing
  <2> QED
    BY <1>6, <2>1, <2>2
<1>29. CASE Shutdown
  BY <1>29 DEF Shutdown, OpenFit
<1> QED
  BY <1>10, <1>11, <1>12, <1>13, <1>14, <1>15, <1>17, <1>18, <1>19, <1>20, <1>21, <1>22, <1>23, <1>24, <1>25,
     <1>26, <1>27, <1>28, <1>29 DEF Next, LaneStep

-------------------------------------------------------------------------------
\* One step loses no recorded change.
LEMMA ChangesKeep ==
  ASSUME RegistryInv, [Next]_vars
  PROVE  ChangesDue'
<1>1. TypeOK /\ ChangesDue
  BY DEF RegistryInv
<1>2. lane \in Seq(Task)
  BY <1>1 DEF TypeOK
<1>3. Queued /\ ReloadQueued => ReloadQueued'
  BY DEF Queued, ReloadQueued
<1>4. ASSUME UNCHANGED <<pendingChanges, timer, shuttingDown>>, ReloadQueued => ReloadQueued' PROVE ChangesDue'
  BY <1>1, <1>4 DEF ChangesDue
<1>5. lane' = lane => (ReloadQueued => ReloadQueued')
  BY DEF ReloadQueued
<1>6. ASSUME lane # <<>>, lane' = Tail(lane), Head(lane).kind # "reload" PROVE ReloadQueued => ReloadQueued'
  <2>1. \A i \in DOMAIN lane : i = 1 \/ \E j \in DOMAIN Tail(lane) : Tail(lane)[j] = lane[i]
    BY <1>2, <1>6, TailItems
  <2>2. Head(lane) = lane[1]
    BY <1>2, <1>6, TailItems
  <2> QED
    BY <1>6, <2>1, <2>2 DEF ReloadQueued
<1>7. CASE StartInit \/ StartIndexAll \/ StartCreate
  <2>1. lane # <<>> /\ lane' = Tail(lane) /\ Head(lane).kind # "reload" /\ UNCHANGED <<pendingChanges, timer, shuttingDown>>
    BY <1>7 DEF StartInit, StartIndexAll, StartCreate, Start, watch
  <2> QED
    BY <1>4, <1>6, <2>1
<1>8. CASE StartReload
  BY <1>8 DEF StartReload, ChangesDue
<1>9. CASE \/ Reloaded \/ ResolvePrimary \/ ResolveDocument \/ AnchorLoaded \/ Discovered \/ NestedLoaded
           \/ EvictForeignFiles \/ IndexProject \/ HandOver \/ RegisterWatchers \/ UNCHANGED vars
           \/ (\E f \in Documents : Edit(f)) \/ (\E g \in got : Parsed(g))
  BY <1>4, <1>5, <1>9 DEF Reloaded, ResolvePrimary, ResolveDocument, AnchorLoaded, Discovered, NestedLoaded,
     EvictForeignFiles, IndexProject, HandOver, RegisterWatchers, vars, Edit, Parsed, watch
<1>10. CASE EndTask
  <2>1. UNCHANGED <<pendingChanges, timer, shuttingDown>>
    BY <1>10 DEF EndTask, watch
  <2>2. CASE job.kind = "init"
    <3> DEFINE t == [kind |-> "indexAll", call |-> NoCall]
    <3>1. lane' = Append(lane, t) /\ t \in Task
      BY <1>10, <2>2 DEF EndTask, Task, Kinds
    <3> HIDE DEF t
    <3>2. \A i \in DOMAIN lane : i \in DOMAIN lane' /\ lane'[i] = lane[i]
      BY <1>2, <3>1
    <3> QED
      BY <1>4, <2>1, <3>2 DEF ReloadQueued
  <2>3. CASE job.kind # "init"
    <3>1. \E also : FinishStartup(also)
      BY <1>10, <2>3 DEF EndTask
    <3> QED
      BY <1>1, <1>3, <1>4, <2>1, <3>1, FinishQueues
  <2> QED
    BY <2>2, <2>3
<1>11. ASSUME NEW f \in Documents, Open(f) \/ ParseTimer(f) \/ ReindexNext(f) PROVE ChangesDue'
  <2>1. PICK by \in {"event", "reindex"} : EnsureContextFor([by |-> by, file |-> f])
    BY <1>11 DEF Open, ParseTimer, ReindexNext
  <2>2. [by |-> by, file |-> f] \in Call
    BY DEF Call
  <2>3. UNCHANGED <<pendingChanges, timer, shuttingDown>>
    BY <1>11 DEF Open, ParseTimer, ReindexNext, watch
  <2> QED
    BY <1>1, <1>3, <1>4, <2>1, <2>2, <2>3, EnsureQueues
<1>12. ASSUME NEW d \in Dirs, ChangeConfig(d) PROVE ChangesDue'
  <2>1. PICK kind : Note(d, kind)
    BY <1>12 DEF ChangeConfig
  <2>2. lane' = lane /\ shuttingDown' = shuttingDown
    BY <1>12 DEF ChangeConfig
  <2>3. timer' \/ (pendingChanges' = pendingChanges /\ (timer => timer'))
    BY <1>1, <2>1 DEF Note, TypeOK
  <2> QED
    BY <1>1, <1>5, <2>2, <2>3 DEF ChangesDue
<1>13. CASE ReloadTimer
  <2> DEFINE t == [kind |-> "reload", call |-> NoCall]
  <2>1. lane' = Append(lane, t) /\ t \in Task /\ t.kind = "reload"
    BY <1>13 DEF ReloadTimer, Task, Kinds
  <2> HIDE DEF t
  <2>2. Len(lane) + 1 \in DOMAIN lane' /\ lane'[Len(lane) + 1] = t
    BY <1>2, <2>1
  <2> QED
    BY <2>1, <2>2 DEF ChangesDue, ReloadQueued
<1>14. CASE Shutdown
  BY <1>14 DEF Shutdown, ChangesDue
<1> QED
  BY <1>7, <1>8, <1>9, <1>10, <1>11, <1>12, <1>13, <1>14 DEF Next, LaneStep

-------------------------------------------------------------------------------
\* What is above a directory has what is above it above it too.
LEMMA DirsAbove ==
  ASSUME NEW d \in Dirs, NEW r \in Above[d]
  PROVE  /\ r \in Dirs /\ Above[r] \subseteq Above[d]
         /\ OnRecord(d) => OnRecord(r)
BY RegistryAssumption DEF OnRecord

\* What a change leaves of the roots: below and beside it nothing moves.
RootsStay == \A d \in Dirs : OnRecord(d)' => OnRecord(d) /\ ConfigRoot(d)' = ConfigRoot(d)

\* A change that leaves no structural change in the record was not reported, or
\* moved no root; what it may have moved is no longer on record.
LEMMA ChangeStays ==
  ASSUME NEW d \in Dirs, ChangeConfig(d), "structural" \notin pendingChanges'
  PROVE  RootsStay /\ "structural" \notin pendingChanges
<1>1. PICK kind \in {"structural", "content"} :
        /\ Note(d, kind)
        /\ kind = "content" => configured' = configured
        /\ configured' \ {d} = configured \ {d}
  <2>1. CASE configured' = (IF d \in configured THEN configured \ {d} ELSE configured \cup {d}) /\ Note(d, "structural")
    BY <2>1
  <2>2. CASE configured' = configured /\ Note(d, "content")
    BY <2>2
  <2> QED
    BY <2>1, <2>2 DEF ChangeConfig
<1>2. "structural" \notin pendingChanges /\ unreported \subseteq unreported'
  BY <1>1 DEF Note
<1>3. configured' = configured \/ d \in unreported'
  BY <1>1 DEF Note
<1>4. ASSUME NEW e \in Dirs, OnRecord(e)' PROVE OnRecord(e) /\ ConfigRoot(e)' = ConfigRoot(e)
  <2>1. Above[e] \cap unreported' = {}
    BY <1>4 DEF OnRecord
  <2>2. OnRecord(e)
    BY <1>2, <2>1 DEF OnRecord
  <2>3. configured' \cap Above[e] = configured \cap Above[e]
    BY <1>1, <1>3, <2>1
  <2> QED
    BY <2>2, <2>3, ConfigRootStays
<1> QED
  BY <1>2, <1>4 DEF RootsStay

LEMMA NoChange ==
  ASSUME UNCHANGED <<configured, unreported>>
  PROVE  RootsStay
<1>1. ASSUME NEW d \in Dirs PROVE OnRecord(d)' = OnRecord(d) /\ ConfigRoot(d)' = ConfigRoot(d)
  BY ConfigRootStays DEF OnRecord
<1> QED
  BY <1>1 DEF RootsStay

\* Every step but the author's leaves the disk alone, and only the start of a
\* reload takes changes from the record.
LEMMA FollowsOn ==
  ASSUME TypeOK, [Next]_vars, Followed'
  PROVE  /\ workspaceRoot' = workspaceRoot
         /\ Followed \/ Rebuild
         /\ Followed => RootsStay
<1>1. workspaceRoot' = workspaceRoot
  BY DEF Next, LaneStep, StartInit, StartIndexAll, StartCreate, StartReload, Reloaded, ResolvePrimary,
     ResolveDocument, AnchorLoaded, Discovered, NestedLoaded, EvictForeignFiles, IndexProject, HandOver,
     EndTask, Open, Edit, ParseTimer, ReindexNext, Parsed, ChangeConfig, RegisterWatchers, ReloadTimer,
     Shutdown, vars, disk
<1>2. CASE \E d \in Dirs : ChangeConfig(d)
  BY <1>1, <1>2, ChangeStays DEF Followed
<1>3. CASE StartReload
  <2>1. UNCHANGED <<configured, unreported>>
    BY <1>3 DEF StartReload, disk
  <2>2. Rebuild \/ "structural" \notin pendingChanges
    BY <1>1, <1>3 DEF StartReload, Followed
  <2> QED
    BY <1>1, <2>1, <2>2, NoChange DEF Followed
<1>4. CASE \/ StartInit \/ StartIndexAll \/ StartCreate \/ Reloaded \/ ResolvePrimary \/ ResolveDocument
           \/ AnchorLoaded \/ Discovered \/ NestedLoaded \/ EvictForeignFiles \/ IndexProject \/ HandOver
           \/ EndTask \/ RegisterWatchers \/ ReloadTimer \/ Shutdown \/ UNCHANGED vars
           \/ (\E f \in Documents : Open(f) \/ Edit(f) \/ ParseTimer(f) \/ ReindexNext(f))
           \/ (\E g \in got : Parsed(g))
  <2>1. UNCHANGED <<configured, unreported, pendingChanges>>
    BY <1>4 DEF StartInit, StartIndexAll, StartCreate, Reloaded, ResolvePrimary,
     ResolveDocument, AnchorLoaded, Discovered, NestedLoaded, EvictForeignFiles, IndexProject, HandOver,
     EndTask, Open, Edit, ParseTimer, ReindexNext, Parsed, RegisterWatchers, ReloadTimer,
     Shutdown, vars, disk, watch
  <2> QED
    BY <1>1, <2>1, NoChange DEF Followed
<1> QED
  BY <1>2, <1>3, <1>4 DEF Next, LaneStep

\* One step keeps the known roots what a walk up on disk would find.
LEMMA RootsKeep ==
  ASSUME RegistryInv, [Next]_vars
  PROVE  RootsFit'
<1> DEFINE Known == \A r \in KnownRoots : RootLike(r)
           Nested == job.pc = "nested" => \A n \in job.todo : OnRecord(n) => ConfigRoot(n) = n
           Anchor == job.pc \in Anchored => RootLike(job.anchor)
           Created == job.kind = "create" /\ job.pc \in Anchored =>
                        (OnRecord(DirOf[job.call.file]) => job.anchor = ConfigRoot(DirOf[job.call.file]))
           Walks == \A d \in Dirs :
                      /\ walkUpCache[d] \in Dirs /\ OnRecord(walkUpCache[d]) => ConfigRoot(walkUpCache[d]) = walkUpCache[d]
                      /\ OnRecord(d) => walkUpCache[d] \in {Absent, ConfigRoot(d)}
           Goal == Known' /\ Nested' /\ Anchor' /\ Created' /\ Walks'
<1>1. TypeOK /\ JobFits /\ LaneFits /\ PrimaryFits /\ MapsMatch /\ RootsFit /\ CacheFresh
  BY DEF RegistryInv, Coherent
<1>2. /\ contexts \in [Dirs -> 0..Len(ctxs)] /\ Len(ctxs) \in Nat /\ job \in Jobs /\ KnownRoots \subseteq Dirs
      /\ primaryRoot \in Dirs \cup {NoDir} /\ walkUpCache \in [Dirs -> Dirs \cup {NoDir, Absent}]
      /\ lane \in Seq(Task) /\ NoDir \notin Dirs /\ Absent \notin Dirs \cup {NoDir}
  BY <1>1, RegistryAssumption DEF TypeOK, JobFits, JobShape, KnownRoots
<1>3. JobFits' /\ TypeOK'
  BY JobKeeps, TypeKeeps
<1>4. SUFFICES ASSUME Followed' PROVE Goal
  BY DEF RootsFit
<1>5. workspaceRoot' = workspaceRoot /\ (Followed \/ Rebuild) /\ (Followed => RootsStay)
  BY <1>1, <1>4, FollowsOn
<1>6. CASE Rebuild
  <2>1. KnownRoots' = {} /\ job'.pc = "resolve" /\ \A d \in Dirs : walkUpCache'[d] = Absent
    BY <1>6 DEF Rebuild, KnownRoots, Idle, EmptyCache
  <2> QED
    BY <2>1, RegistryAssumption DEF Anchored, Adding
<1> SUFFICES ASSUME Followed, ~Rebuild PROVE Goal
  BY <1>5, <1>6
<1>7. Known /\ Nested /\ Anchor /\ Created /\ Walks /\ RootsStay /\ workspaceRoot # NoDir
  BY <1>1, <1>5 DEF RootsFit, Followed
<1>8. ASSUME NEW r \in Dirs, RootLike(r), primaryRoot' = primaryRoot PROVE RootLike(r)'
  BY <1>7, <1>8 DEF RootLike, RootsStay
<1>9. ASSUME NEW w, w \in Dirs /\ OnRecord(w) => ConfigRoot(w) = w
      PROVE  w \in Dirs /\ OnRecord(w)' => ConfigRoot(w)' = w
  BY <1>7, <1>9 DEF RootsStay
<1>10. ASSUME NEW d \in Dirs, NEW w \in Dirs, w = walkUpCache[d], OnRecord(w)' PROVE ConfigRoot(w)' = w
  <2>1. OnRecord(w) => ConfigRoot(w) = w
    BY <1>7, <1>10
  <2> QED
    BY <1>9, <1>10, <2>1
<1>11. ASSUME NEW d \in Dirs, OnRecord(d)' PROVE walkUpCache[d] \in {Absent, ConfigRoot(d)'}
  BY <1>7, <1>11 DEF RootsStay
<1>12. ASSUME UNCHANGED walkUpCache PROVE Walks'
  <2>1. ASSUME NEW d \in Dirs, NEW w \in Dirs, w = walkUpCache'[d], OnRecord(w)' PROVE ConfigRoot(w)' = w
    BY <1>10, <1>12, <2>1
  <2>2. ASSUME NEW d \in Dirs, OnRecord(d)' PROVE walkUpCache'[d] \in {Absent, ConfigRoot(d)'}
    BY <1>11, <1>12, <2>2
  <2> QED
    BY <2>1, <2>2
<1>13. ASSUME UNCHANGED primaryRoot, \A r \in KnownRoots' : r \in KnownRoots \/ RootLike(r) PROVE Known'
  <2>1. ASSUME NEW r \in KnownRoots' PROVE RootLike(r)'
    <3>1. r \in Dirs
      BY DEF KnownRoots
    <3> QED
      BY <1>7, <1>8, <1>13, <3>1
  <2> QED
    BY <2>1
<1>14. ASSUME job'.pc = "nested" =>
                /\ job'.todo \subseteq Dirs
                /\ \A n \in job'.todo : (job.pc = "nested" /\ n \in job.todo) \/ ConfigRoot(n) = n
       PROVE  Nested'
  <2>1. ASSUME job'.pc = "nested", NEW n \in job'.todo, OnRecord(n)' PROVE ConfigRoot(n)' = n
    <3>1. OnRecord(n) => ConfigRoot(n) = n
      BY <1>7, <1>14, <2>1
    <3> QED
      BY <1>9, <1>14, <2>1, <3>1
  <2> QED
    BY <2>1
<1>15. ASSUME NEW a, a = job'.anchor, UNCHANGED primaryRoot,
              job'.pc \in Anchored => a \in Dirs /\ (RootLike(a) \/ (job.pc \in Anchored /\ job.anchor = a))
       PROVE  Anchor'
  <2>1. ASSUME job'.pc \in Anchored PROVE RootLike(a)'
    <3>1. RootLike(a) /\ a \in Dirs
      BY <1>7, <1>15, <2>1
    <3> QED
      BY <1>8, <1>15, <3>1
  <2>2. \A b \in {a} : job'.pc \in Anchored => RootLike(b)'
    BY <2>1
  <2> QED
    BY <1>15, <2>2 DEF RootLike, OnRecord
<1>16. ASSUME UNCHANGED configured,
              job'.kind = "create" /\ job'.pc \in Anchored =>
                /\ job'.call = job.call
                /\ \/ job.kind = "create" /\ job.pc \in Anchored /\ job'.anchor = job.anchor
                   \/ OnRecord(DirOf[job.call.file]) => job'.anchor = ConfigRoot(DirOf[job.call.file])
       PROVE  Created'
  <2>1. ASSUME job'.kind = "create", job'.pc \in Anchored, NEW d, d = DirOf[job'.call.file], OnRecord(d)'
        PROVE  job'.anchor = ConfigRoot(d)'
    <3>1. d \in Dirs
      BY <1>3, <2>1, RegistryAssumption DEF JobFits, JobShape, Call
    <3>2. OnRecord(d) /\ ConfigRoot(d)' = ConfigRoot(d)
      BY <1>7, <2>1, <3>1 DEF RootsStay
    <3> QED
      BY <1>7, <1>16, <2>1, <3>2
  <2> QED
    BY <2>1
\* A step that takes no new root, and adds no tree that was not being added.
<1>17. ASSUME UNCHANGED <<contexts, primaryRoot, walkUpCache, configured>>,
              job'.pc \notin Anchored
       PROVE  Goal
  <2>1. KnownRoots' = KnownRoots
    BY <1>17 DEF KnownRoots
  <2>2. job'.pc # "nested"
    BY <1>17 DEF Anchored, Adding
  <2> QED
    BY <1>12, <1>13, <1>17, <2>1, <2>2
<1>18. ASSUME UNCHANGED <<primaryRoot, walkUpCache, configured>>,
              \A r \in KnownRoots' : r \in KnownRoots \/ RootLike(r),
              job'.kind = job.kind, job'.call = job.call, job'.anchor = job.anchor,
              job'.pc \in Anchored => job.pc \in Anchored,
              job'.pc = "nested" =>
                \A n \in job'.todo : (job.pc = "nested" /\ n \in job.todo) \/ ConfigRoot(n) = n
       PROVE  Goal
  <2>1. Known' /\ Walks'
    BY <1>12, <1>13, <1>18
  <2>2. Nested'
    <3>1. job'.todo \subseteq Dirs
      BY <1>3 DEF TypeOK
    <3> QED
      BY <1>14, <1>18, <3>1
  <2>3. Anchor'
    <3>1. job'.pc \in Anchored => job.anchor \in Dirs
      BY <1>1, <1>18 DEF JobFits, JobShape
    <3> QED
      BY <1>15, <1>18, <3>1
  <2>4. Created'
    BY <1>16, <1>18
  <2> QED
    BY <2>1, <2>2, <2>3, <2>4
<1>19. CASE StartInit \/ StartCreate \/ StartReload \/ Reloaded \/ EndTask
  <2>1. UNCHANGED <<contexts, primaryRoot, walkUpCache, configured>>
    BY <1>19 DEF StartInit, StartCreate, StartReload, Reloaded, EndTask, disk, caches
  <2>2. job' = Idle \/ Began("resolve", NoDir) \/ Began("reload", NoDir)
    BY <1>19 DEF StartInit, StartCreate, StartReload, Reloaded, EndTask
  <2>3. job'.pc \notin Anchored
    BY <2>2, BeganIs DEF Idle, Anchored, Adding
  <2> QED
    BY <1>17, <2>1, <2>3
<1>20. CASE \/ IndexProject \/ RegisterWatchers \/ ReloadTimer \/ Shutdown \/ UNCHANGED vars
            \/ (\E f \in Documents : Open(f) \/ Edit(f) \/ ParseTimer(f) \/ ReindexNext(f))
            \/ (\E g \in got : Parsed(g))
  <2>1. UNCHANGED <<contexts, primaryRoot, walkUpCache, configured, job>>
    BY <1>20 DEF IndexProject, RegisterWatchers, ReloadTimer, Shutdown, vars, Open, Edit, ParseTimer, ReindexNext,
       Parsed, disk, caches
  <2>2. KnownRoots' = KnownRoots
    BY <2>1 DEF KnownRoots
  <2> QED
    BY <1>18, <2>1, <2>2
<1>21. ASSUME NEW c \in Dirs, ChangeConfig(c) PROVE Goal
  <2>1. UNCHANGED <<contexts, primaryRoot, walkUpCache, job>>
    BY <1>21 DEF ChangeConfig, caches
  <2>2. KnownRoots' = KnownRoots
    BY <2>1 DEF KnownRoots
  <2>3. Known' /\ Walks'
    BY <1>12, <1>13, <2>1, <2>2
  <2>4. Nested'
    <3>1. job'.todo \subseteq Dirs
      BY <1>3 DEF TypeOK
    <3> QED
      BY <1>14, <2>1, <3>1
  <2>5. Anchor'
    <3>1. job'.pc \in Anchored => job.anchor \in Dirs
      BY <1>1, <2>1 DEF JobFits, JobShape
    <3> QED
      BY <1>15, <2>1, <3>1
  <2>6. Created'
    <3>1. ASSUME job.kind = "create", job.pc \in Anchored, NEW d, d = DirOf[job.call.file], OnRecord(d)'
          PROVE  job.anchor = ConfigRoot(d)'
      <4>1. d \in Dirs
        BY <1>1, <3>1, RegistryAssumption DEF JobFits, JobShape, Call
      <4>2. OnRecord(d) /\ ConfigRoot(d)' = ConfigRoot(d)
        BY <1>7, <3>1, <4>1 DEF RootsStay
      <4> QED
        BY <1>7, <3>1, <4>2
    <3> QED
      BY <2>1, <3>1
  <2> QED
    BY <2>3, <2>4, <2>5, <2>6
<1>22. CASE EvictForeignFiles \/ HandOver
  <2>1. UNCHANGED <<contexts, primaryRoot, walkUpCache, configured>> /\ job.pc \in Anchored
        /\ job'.kind = job.kind /\ job'.call = job.call /\ job'.anchor = job.anchor /\ job'.pc # "nested"
    BY <1>2, <1>22 DEF EvictForeignFiles, HandOver, disk, Jobs, Anchored, Adding
  <2>2. KnownRoots' = KnownRoots
    BY <2>1 DEF KnownRoots
  <2> QED
    BY <1>18, <2>1, <2>2
<1>23. CASE NestedLoaded
  <2>1. PICK n \in job.todo : CreateContext(n, FALSE) /\ job' = [job EXCEPT !.todo = @ \ {n}]
    BY <1>23 DEF NestedLoaded
  <2>2. n \in Dirs /\ contexts[n] = 0 /\ job.pc = "nested" /\ RootLike(n)
    BY <1>1, <1>2, <1>7, <1>23, <2>1 DEF NestedLoaded, JobFits, JobPlace, Jobs, RootLike
  <2>3. KnownRoots' = KnownRoots \cup {n}
    BY <1>1, <2>1, <2>2, CreateMapped
  <2>4. UNCHANGED <<primaryRoot, walkUpCache, configured>> /\ job'.todo \subseteq job.todo
        /\ job'.kind = job.kind /\ job'.call = job.call /\ job'.anchor = job.anchor /\ job'.pc = job.pc
    BY <1>2, <1>23, <2>1 DEF NestedLoaded, disk, Jobs
  <2> QED
    BY <1>18, <2>2, <2>3, <2>4
<1>24. CASE AnchorLoaded
  <2>1. job.pc = "load" /\ job.anchor \in Dirs /\ contexts[job.anchor] = 0 /\ CreateContext(job.anchor, job.fallback)
    BY <1>1, <1>24 DEF AnchorLoaded, JobFits, JobShape, JobPlace, Anchored
  <2>2. ~job.fallback
    BY <1>1, <1>7, <2>1 DEF JobFits, JobPlace
  <2>3. KnownRoots' = KnownRoots \cup {job.anchor} /\ RootLike(job.anchor)
    BY <1>1, <1>7, <2>1, CreateMapped DEF Anchored
  <2>4. UNCHANGED <<primaryRoot, walkUpCache, configured>> /\ job.pc \in Anchored
        /\ job'.kind = job.kind /\ job'.call = job.call /\ job'.anchor = job.anchor /\ job'.pc # "nested"
    BY <1>2, <1>24, <2>1, <2>2 DEF AnchorLoaded, disk, Jobs, Anchored
  <2> QED
    BY <1>18, <2>3, <2>4
<1>25. CASE Discovered
  <2>1. ASSUME NEW n \in NestedRoots(job.anchor) PROVE n \in Dirs /\ ConfigRoot(n) = n
    <3>1. PICK e \in Dirs : n = ConfigRoot(e)
      BY DEF NestedRoots
    <3>2. n \in Dirs
      BY DEF NestedRoots
    <3> QED
      BY <1>2, <3>1, <3>2, ConfigRootIs
  <2>2. UNCHANGED <<contexts, primaryRoot, walkUpCache, configured>> /\ job.pc \in Anchored
        /\ job'.kind = job.kind /\ job'.call = job.call /\ job'.anchor = job.anchor
        /\ job'.todo \subseteq NestedRoots(job.anchor)
    BY <1>2, <1>25 DEF Discovered, disk, caches, Jobs, Anchored, Adding
  <2>3. KnownRoots' = KnownRoots
    BY <2>2 DEF KnownRoots
  <2> QED
    BY <1>18, <2>1, <2>2, <2>3
<1>26. CASE StartIndexAll
  <2>0. lane # <<>> /\ Head(lane).kind = "indexAll" /\ job = Idle
    BY <1>26 DEF StartIndexAll, Start
  <2>1. \E pc \in {"end", "discover"} : Began(pc, primaryRoot)
    BY <1>26 DEF StartIndexAll
  <2>2. job'.pc \in {"end", "discover"} /\ job'.kind = "indexAll" /\ job'.anchor = primaryRoot
    BY <2>0, <2>1, BeganIs
  <2>3. UNCHANGED <<contexts, primaryRoot, walkUpCache, configured>>
    BY <1>26 DEF StartIndexAll, disk, caches
  <2>4. session = "indexing"
    <3>1. 1 \in DOMAIN lane /\ Head(lane) = lane[1]
      BY <1>2, <2>0, TailItems
    <3> QED
      BY <1>1, <2>0, <3>1 DEF LaneFits, LaneItems
  <2>5. primaryRoot \in KnownRoots
    BY <1>1, <1>2, <1>7, <2>0, <2>4 DEF PrimaryFits, KnownRoots, Idle
  <2>6. KnownRoots' = KnownRoots
    BY <2>3 DEF KnownRoots
  <2>7. Known' /\ Walks' /\ Nested' /\ Created'
    BY <1>12, <1>13, <1>14, <1>16, <2>2, <2>3, <2>6
  <2>8. Anchor'
    BY <1>7, <1>15, <2>2, <2>3, <2>5, <2>6 DEF KnownRoots
  <2> QED
    BY <2>7, <2>8
<1>27. CASE ResolvePrimary
  <2> DEFINE found == ConfigRoot(workspaceRoot)
             root == IF found = NoDir THEN workspaceRoot ELSE found
  <2>1. job.pc = "resolve" /\ job.kind \in {"init", "reload"} /\ UNCHANGED <<contexts, walkUpCache, configured>>
        /\ primaryRoot' = root /\ job' = [job EXCEPT !.pc = "load", !.anchor = root]
    BY <1>27 DEF ResolvePrimary, disk, caches
  <2>2. workspaceRoot \in Dirs
    BY <1>1, <1>7, RegistryAssumption DEF TypeOK
  <2>3. root \in Dirs /\ (ConfigRoot(root) = root \/ ConfigRoot(root) = NoDir)
    BY <2>2, ConfigRootIs
  <2> HIDE DEF root
  <2>4. job'.kind = job.kind /\ job'.pc = "load" /\ job'.anchor = root
    BY <1>2, <2>1 DEF Jobs
  <2>5. KnownRoots' = {}
    BY <1>1, <2>1 DEF JobFits, JobPlace, KnownRoots
  <2>6. ASSUME NEW r, r = root, OnRecord(r)' PROVE ConfigRoot(r)' = r \/ ConfigRoot(r)' = NoDir
    BY <1>7, <2>3, <2>6 DEF RootsStay
  <2>7. Anchor'
    <3>1. \A r \in {root} : OnRecord(r)' => ConfigRoot(r)' = r \/ (r = primaryRoot' /\ ConfigRoot(r)' = NoDir)
      BY <2>1, <2>6
    <3> QED
      BY <2>4, <3>1 DEF RootLike
  <2>8. Known' /\ Walks' /\ Nested' /\ Created'
    BY <1>12, <2>1, <2>4, <2>5
  <2> QED
    BY <2>7, <2>8
<1>28. CASE ResolveDocument
  <2> DEFINE dir == DirOf[job.call.file]
             found == IF walkUpCache[dir] # Absent THEN walkUpCache[dir] ELSE ConfigRoot(dir)
             anchor == IF found = NoDir THEN dir ELSE found
  <2>1. job.pc = "resolve" /\ job.kind = "create" /\ UNCHANGED <<contexts, primaryRoot, configured, unreported>>
        /\ walkUpCache' = [walkUpCache EXCEPT ![dir] = found]
    BY <1>28 DEF ResolveDocument, disk
  <2>2. dir \in Dirs /\ job.call \in Call
    BY <1>1, <2>1, RegistryAssumption DEF JobFits, JobShape, Call
  <2>3. /\ found \in Dirs \cup {NoDir}
        /\ found \in Dirs /\ OnRecord(found) => ConfigRoot(found) = found
        /\ OnRecord(dir) => found = ConfigRoot(dir)
    <3>1. CASE walkUpCache[dir] = Absent
      BY <1>2, <2>2, <3>1, ConfigRootIs
    <3>2. ASSUME walkUpCache[dir] # Absent, NEW w, w = walkUpCache[dir]
          PROVE  /\ w \in Dirs \cup {NoDir}
                 /\ w \in Dirs /\ OnRecord(w) => ConfigRoot(w) = w
                 /\ OnRecord(dir) => w = ConfigRoot(dir)
      BY <1>2, <1>7, <2>2, <3>2
    <3> QED
      BY <3>1, <3>2
  <2>4. Primary # 0
    <3>1. session # "initializing" /\ job.kind # "none"
      BY <1>1, <2>1 DEF LaneFits, SessionFits, Idle
    <3> QED
      BY <1>1, <1>2, <1>7, <2>1, <3>1 DEF PrimaryFits, Primary
  <2>5. \/ job' = Idle
        \/ /\ found # NoDir
           /\ job' = [job EXCEPT !.anchor = found, !.fallback = FALSE,
                        !.pc = IF contexts[found] # 0 THEN "discover" ELSE "load"]
    BY <1>28, <2>4 DEF ResolveDocument
  <2> HIDE DEF found
  <2>6. KnownRoots' = KnownRoots
    BY <2>1 DEF KnownRoots
  <2>7. Walks'
    <3>1. ASSUME NEW d \in Dirs, NEW w \in Dirs, w = walkUpCache'[d], OnRecord(w)' PROVE ConfigRoot(w)' = w
      <4>1. CASE d = dir
        <5>1. w = found
          BY <1>2, <2>1, <3>1, <4>1
        <5> QED
          BY <1>9, <2>3, <3>1, <5>1
      <4>2. CASE d # dir
        <5>1. w = walkUpCache[d]
          BY <1>2, <2>1, <3>1, <4>2
        <5> QED
          BY <1>10, <3>1, <5>1
      <4> QED
        BY <4>1, <4>2
    <3>2. ASSUME NEW d \in Dirs, OnRecord(d)' PROVE walkUpCache'[d] \in {Absent, ConfigRoot(d)'}
      <4>1. CASE d = dir
        <5>1. walkUpCache'[d] = found
          BY <1>2, <2>1, <2>2, <4>1
        <5>2. OnRecord(d) /\ ConfigRoot(d)' = ConfigRoot(d)
          BY <1>7, <3>2 DEF RootsStay
        <5> QED
          BY <2>3, <4>1, <5>1, <5>2
      <4>2. CASE d # dir
        <5>1. walkUpCache'[d] = walkUpCache[d]
          BY <1>2, <2>1, <4>2
        <5> QED
          BY <1>11, <3>2, <5>1
      <4> QED
        BY <4>1, <4>2
    <3> QED
      BY <3>1, <3>2
  <2>8. CASE job' = Idle
    <3>1. job'.pc \notin Anchored /\ job'.pc # "nested"
      BY <2>8 DEF Idle, Anchored, Adding
    <3> QED
      BY <1>13, <2>1, <2>6, <2>7, <3>1
  <2>9. CASE found # NoDir /\ job' = [job EXCEPT !.anchor = found, !.fallback = FALSE,
                                        !.pc = IF contexts[found] # 0 THEN "discover" ELSE "load"]
    <3>1. found \in Dirs /\ job'.anchor = found /\ job'.pc \in {"discover", "load"} /\ job'.call = job.call
      BY <1>2, <2>3, <2>9 DEF Jobs
    <3>2. RootLike(found)
      BY <2>3, <3>1 DEF RootLike
    <3>3. Anchor'
      BY <1>15, <2>1, <3>1, <3>2
    <3>4. Created'
      BY <1>16, <2>1, <2>3, <3>1
    <3> QED
      BY <1>13, <2>1, <2>6, <2>7, <3>1, <3>3, <3>4
  <2> QED
    BY <2>5, <2>8, <2>9
<1> QED
  BY <1>19, <1>20, <1>21, <1>22, <1>23, <1>24, <1>25, <1>26, <1>27, <1>28 DEF Next, LaneStep

-------------------------------------------------------------------------------
\* One step keeps the trees complete, but for the one that is being added.
LEMMA TreesKeep ==
  ASSUME RegistryInv, [Next]_vars
  PROVE  TreesFit'
<1> DEFINE Live == ~shuttingDown /\ (~Starting \/ job.kind = "indexAll")
           Root(c) == OnRecord(c) /\ ConfigRoot(c) = c
<1>1. TypeOK /\ JobFits /\ LaneFits /\ PrimaryFits /\ MapsMatch /\ TreesFit
  BY DEF RegistryInv
<1>2. /\ contexts \in [Dirs -> 0..Len(ctxs)] /\ Len(ctxs) \in Nat /\ job \in Jobs /\ KnownRoots \subseteq Dirs
      /\ primaryRoot \in Dirs \cup {NoDir} /\ lane \in Seq(Task) /\ NoDir \notin Dirs /\ shuttingDown \in BOOLEAN
  BY <1>1, RegistryAssumption DEF TypeOK, JobFits, JobShape, KnownRoots
<1>3. SUFFICES ASSUME Followed', Live', NEW r \in KnownRoots', NEW c \in Dirs, r \in Above[c], Root(c)'
               PROVE  \/ c \in KnownRoots'
                      \/ job'.pc = "discover" /\ r = job'.anchor
                      \/ job'.pc = "nested" /\ c \in job'.todo
  BY DEF TreesFit
<1>4. workspaceRoot' = workspaceRoot /\ (Followed \/ Rebuild) /\ (Followed => RootsStay)
  BY <1>1, <1>3, FollowsOn
<1>5. ~Rebuild
  BY <1>3, RebuildMapped
<1>6. Followed /\ RootsStay /\ workspaceRoot # NoDir /\ Root(c) /\ r \in Dirs
  BY <1>3, <1>4, <1>5 DEF RootsStay, Followed, KnownRoots
<1>7. ASSUME Live, NEW m \in KnownRoots, m \in Above[c]
      PROVE  \/ c \in KnownRoots
             \/ job.pc = "discover" /\ m = job.anchor
             \/ job.pc = "nested" /\ c \in job.todo
  BY <1>1, <1>6, <1>7 DEF TreesFit
\* No tree is being added, or it goes on.
<1>8. ASSUME UNCHANGED contexts, Live,
             job.pc \notin {"discover", "nested"} \/ UNCHANGED job \/ (job.pc = "nested" /\ job.todo = {})
      PROVE  \/ c \in KnownRoots'
             \/ job'.pc = "discover" /\ r = job'.anchor
             \/ job'.pc = "nested" /\ c \in job'.todo
  <2>1. KnownRoots' = KnownRoots
    BY <1>8 DEF KnownRoots
  <2> QED
    BY <1>3, <1>7, <1>8, <2>1
<1>9. CASE StartInit \/ StartCreate \/ StartReload \/ Reloaded
  <2>1. UNCHANGED <<contexts, session, shuttingDown>>
    BY <1>5, <1>9 DEF StartInit, StartCreate, StartReload, Reloaded
  <2>2. job.pc \in {"idle", "reload"}
    BY <1>9 DEF StartInit, StartCreate, StartReload, Reloaded, Start, Idle
  <2>3. job' = Idle \/ Began("resolve", NoDir) \/ Began("reload", NoDir)
    BY <1>5, <1>9 DEF StartInit, StartCreate, StartReload, Reloaded
  <2>4. job'.kind # "indexAll"
    <3>1. Head(lane).kind # "indexAll" \/ Reloaded
      BY <1>9 DEF StartInit, StartCreate, StartReload, Start
    <3>2. Reloaded => job' = Idle
      BY <1>5 DEF Reloaded
    <3> QED
      BY <2>3, <3>1, <3>2, BeganIs DEF Idle
  <2> QED
    BY <1>3, <1>8, <2>1, <2>2, <2>4 DEF Starting
<1>10. CASE StartIndexAll
  <2>0. lane # <<>> /\ Head(lane).kind = "indexAll" /\ job = Idle
    BY <1>10 DEF StartIndexAll, Start
  <2>1. UNCHANGED <<contexts, session, shuttingDown, primaryRoot>>
    BY <1>10 DEF StartIndexAll
  <2>2. session = "indexing"
    <3>1. 1 \in DOMAIN lane /\ Head(lane) = lane[1]
      BY <1>2, <2>0, TailItems
    <3> QED
      BY <1>1, <2>0, <3>1 DEF LaneFits, LaneItems
  <2>3. r = primaryRoot /\ r \in KnownRoots
    BY <1>1, <1>3, <2>0, <2>1, <2>2 DEF PrimaryFits, Starting, Idle, KnownRoots
  <2>4. Primary # 0 /\ ~shuttingDown
    BY <1>2, <1>3, <2>1, <2>3 DEF Primary, KnownRoots
  <2>5. Began("discover", primaryRoot)
    BY <1>10, <2>4 DEF StartIndexAll
  <2> QED
    BY <2>3, <2>5, BeganIs
<1>11. CASE ResolvePrimary
  <2>1. UNCHANGED contexts /\ KnownRoots = {}
    BY <1>1, <1>11 DEF ResolvePrimary, JobFits, JobPlace
  <2> QED
    BY <1>3, <2>1 DEF KnownRoots
<1>12. CASE ResolveDocument
  <2>1. job.pc = "resolve" /\ job.kind = "create" /\ UNCHANGED <<contexts, session, shuttingDown>>
    BY <1>12 DEF ResolveDocument
  <2>2. job'.kind \in {"create", "none"}
    <3>1. job' = Idle \/ job'.kind = job.kind
      BY <1>2, <1>12 DEF ResolveDocument, Jobs
    <3> QED
      BY <2>1, <3>1 DEF Idle
  <2> QED
    BY <1>3, <1>8, <2>1, <2>2 DEF Starting
<1>13. CASE AnchorLoaded
  <2>1. job.pc = "load" /\ job.anchor \in Dirs /\ contexts[job.anchor] = 0 /\ CreateContext(job.anchor, job.fallback)
        /\ UNCHANGED <<session, shuttingDown>>
    BY <1>1, <1>13 DEF AnchorLoaded, JobFits, JobShape, JobPlace, Anchored
  <2>2. ~job.fallback /\ job # Idle
    BY <1>1, <1>6, <2>1 DEF JobFits, JobPlace, Idle
  <2>3. KnownRoots' = KnownRoots \cup {job.anchor}
    BY <1>1, <2>1, CreateMapped
  <2>4. job'.kind = job.kind /\ job'.anchor = job.anchor
    BY <1>2, <1>13 DEF AnchorLoaded, Jobs
  <2>5. job.kind # "init" /\ Live
    BY <1>1, <1>3, <2>1, <2>4 DEF Starting, LaneFits, SessionFits
  <2>6. job'.pc = "discover"
    BY <1>2, <1>13, <2>2, <2>5 DEF AnchorLoaded, Jobs
  <2> QED
    BY <1>3, <1>7, <2>1, <2>3, <2>4, <2>5, <2>6
<1>14. CASE Discovered
  <2>1. job.pc = "discover" /\ UNCHANGED <<contexts, session, shuttingDown>>
        /\ job'.kind = job.kind /\ job'.pc = "nested"
        /\ job'.todo = {n \in NestedRoots(job.anchor) :
                          /\ contexts[n] = 0
                          /\ NearestRoot(n, KnownRoots) \in {job.anchor, NoDir}}
    BY <1>2, <1>14 DEF Discovered, Jobs
  <2>2. Live /\ KnownRoots' = KnownRoots
    BY <1>3, <2>1 DEF Starting, KnownRoots
  <2>3. job.anchor \in KnownRoots
    BY <1>1, <2>1 DEF JobFits, JobShape, JobPlace, Anchored, Adding, KnownRoots
  <2>4. CASE c \in KnownRoots
    BY <2>2, <2>4
  <2>5. CASE c \notin KnownRoots
    <3>1. r = job.anchor
      BY <1>3, <1>7, <2>1, <2>2, <2>5
    <3>2. c \in configured
      BY <1>2, <1>6, ConfigRootIs
    <3>3. c \in NestedRoots(job.anchor)
      BY <1>3, <1>6, <2>3, <2>5, <3>1, <3>2 DEF NestedRoots
    <3>4. contexts[c] = 0
      BY <2>5 DEF KnownRoots
    <3> DEFINE m == NearestRoot(c, KnownRoots)
    <3>5. m \in KnownRoots /\ m \in Above[c]
      BY <1>3, <2>3, <3>1, NearestIs
    <3> HIDE DEF m
    <3>6. m = job.anchor
      BY <1>7, <2>1, <2>2, <2>5, <3>5
    <3> QED
      BY <2>1, <3>3, <3>4, <3>6 DEF m
  <2> QED
    BY <2>4, <2>5
<1>15. CASE NestedLoaded
  <2>1. PICK n \in job.todo : CreateContext(n, FALSE) /\ job' = [job EXCEPT !.todo = @ \ {n}]
    BY <1>15 DEF NestedLoaded
  <2>2. n \in Dirs /\ contexts[n] = 0 /\ job.pc = "nested" /\ job.anchor \in Above[n] /\ job.anchor \in KnownRoots
    BY <1>1, <1>2, <1>15, <2>1 DEF NestedLoaded, JobFits, JobShape, JobPlace, Jobs, Anchored, Adding, KnownRoots
  <2>3. KnownRoots' = KnownRoots \cup {n}
    BY <1>1, <2>1, <2>2, CreateMapped
  <2>4. job'.kind = job.kind /\ job'.pc = job.pc /\ job'.todo = job.todo \ {n} /\ UNCHANGED <<session, shuttingDown>>
    BY <1>2, <1>15, <2>1 DEF NestedLoaded, Jobs
  <2>5. Live
    BY <1>3, <2>4 DEF Starting
  <2>6. PICK m \in KnownRoots : m \in Above[c]
    <3>1. r = n => job.anchor \in Above[c]
      BY <1>3, <2>2, RegistryAssumption
    <3> QED
      BY <1>3, <2>2, <2>3, <3>1
  <2> QED
    BY <1>7, <2>2, <2>3, <2>4, <2>5, <2>6
<1>16. CASE EvictForeignFiles \/ IndexProject \/ HandOver
  <2>1. UNCHANGED <<contexts, session, shuttingDown>> /\ job'.kind = job.kind
        /\ (job.pc = "index" \/ (job.pc = "nested" /\ job.todo = {}))
    BY <1>2, <1>16 DEF EvictForeignFiles, IndexProject, HandOver, Jobs
  <2> QED
    BY <1>3, <1>8, <2>1 DEF Starting
<1>17. CASE EndTask
  <2>1. job.pc = "end" /\ UNCHANGED <<contexts, shuttingDown>> /\ job' = Idle
        /\ session' = IF job.kind = "init" THEN "indexing" ELSE IF job.kind = "indexAll" THEN "indexed" ELSE session
    BY <1>17 DEF EndTask
  <2>2. Live
    BY <1>3, <2>1 DEF Starting, Idle
  <2> QED
    BY <1>8, <2>1, <2>2
<1>18. CASE RegisterWatchers
  <2>1. UNCHANGED <<contexts, shuttingDown, job>> /\ session = "indexed"
    BY <1>18 DEF RegisterWatchers
  <2> QED
    BY <1>3, <1>8, <2>1 DEF Starting
<1>19. CASE Shutdown
  BY <1>3, <1>19 DEF Shutdown
<1>20. CASE \/ ReloadTimer \/ UNCHANGED vars \/ (\E d \in Dirs : ChangeConfig(d)) \/ (\E g \in got : Parsed(g))
            \/ (\E f \in Documents : Open(f) \/ Edit(f) \/ ParseTimer(f) \/ ReindexNext(f))
  <2>1. UNCHANGED <<contexts, session, shuttingDown, job>>
    BY <1>20 DEF ReloadTimer, vars, ChangeConfig, Parsed, Open, Edit, ParseTimer, ReindexNext
  <2> QED
    BY <1>3, <1>8, <2>1 DEF Starting
<1> QED
  BY <1>9, <1>10, <1>11, <1>12, <1>13, <1>14, <1>15, <1>16, <1>17, <1>18, <1>19, <1>20 DEF Next, LaneStep

-------------------------------------------------------------------------------
\* One step keeps every open document routed or asked for.
LEMMA RoutedKeep ==
  ASSUME RegistryInv, [Next]_vars
  PROVE  RoutedFit'
<1> DEFINE Own(f) == \/ job.kind = "create" /\ job.call.file = f
                     \/ job.kind = "reload" /\ job.pc # "reload"
           Asked(f) == f \in reindex \/ Waiting(f) \/ Queueing(f)
           Homed(f) == \/ KnownRoots \cap Above[DirOf[f]] # {}
                       \/ walkUpCache[DirOf[f]] = NoDir
           Goal == workspaceRoot # NoDir /\ ~shuttingDown =>
                     \A f \in open : Asked(f)' \/ Own(f)' \/ Homed(f)'
<1>1. TypeOK /\ JobFits /\ LaneFits /\ MapsMatch /\ RoutedFit /\ CacheFresh
  BY DEF RegistryInv, Coherent
<1>2. /\ contexts \in [Dirs -> 0..Len(ctxs)] /\ Len(ctxs) \in Nat /\ shuttingDown \in BOOLEAN
      /\ open \subseteq Documents /\ job \in Jobs /\ job.fallback \in BOOLEAN /\ lane \in Seq(Task)
      /\ walkUpCache \in [Dirs -> Dirs \cup {NoDir, Absent}] /\ Absent # NoDir
      /\ \A f \in Documents : DirOf[f] \in Dirs
  BY <1>1, RegistryAssumption DEF TypeOK, JobFits, JobShape, Jobs
<1>3. ASSUME NEW f \in open, workspaceRoot # NoDir, ~shuttingDown
      PROVE  f \in Documents /\ (Asked(f) \/ Own(f) \/ Homed(f))
  BY <1>1, <1>2, <1>3 DEF RoutedFit, Called
<1>4. UNCHANGED workspaceRoot
  BY DEF Next, LaneStep, StartInit, StartIndexAll, StartCreate, StartReload, Reloaded, ResolvePrimary,
     ResolveDocument, AnchorLoaded, Discovered, NestedLoaded, EvictForeignFiles, IndexProject, HandOver,
     EndTask, Open, Edit, ParseTimer, ReindexNext, Parsed, ChangeConfig, RegisterWatchers, ReloadTimer,
     Shutdown, vars, disk
\* A document is asked for, or has a home, until every root is forgotten.
<1>5. ASSUME ~shuttingDown' => ~shuttingDown,
             \A d \in Dirs : contexts[d] # 0 => contexts'[d] # 0,
             \A d \in Dirs : walkUpCache[d] = NoDir => walkUpCache'[d] = NoDir,
             \A f \in Documents : ~shuttingDown /\ f \in open' /\ (f \notin open \/ Asked(f) \/ Own(f))
                                    => Asked(f)' \/ Own(f)' \/ Homed(f)'
      PROVE  RoutedFit'
  <2>1. ASSUME NEW f \in Documents, Homed(f) PROVE Homed(f)'
    BY <1>2, <1>5, <2>1 DEF KnownRoots
  <2>2. ASSUME NEW f \in open', ~shuttingDown', workspaceRoot # NoDir PROVE Asked(f)' \/ Own(f)' \/ Homed(f)'
    <3>1. f \in Documents
      BY TypeKeeps DEF TypeOK
    <3> QED
      BY <1>3, <1>5, <2>1, <2>2, <3>1
  <2> QED
    BY <1>4, <2>2 DEF RoutedFit, Called
<1>6. ASSUME Rebuild PROVE RoutedFit'
  BY <1>6 DEF Rebuild, Idle, RoutedFit, Called
<1>7. ASSUME UNCHANGED <<open, gate, lane, shuttingDown>>, reindex \subseteq reindex',
             \A d \in Dirs : contexts[d] # 0 => contexts'[d] # 0,
             \A d \in Dirs : walkUpCache[d] = NoDir => walkUpCache'[d] = NoDir,
             \A f \in Documents : Own(f) => Own(f)' \/ Homed(f)'
      PROVE  RoutedFit'
  <2>1. \A f \in Documents : Asked(f) => Asked(f)'
    BY <1>7 DEF Waiting, Queueing
  <2> QED
    BY <1>5, <1>7, <2>1
\* A handler routes a document.
<1>8. ASSUME NEW e \in Documents, NEW by \in {"event", "reindex"}, EnsureContextFor([by |-> by, file |-> e]),
             UNCHANGED <<ctxs, contexts, walkUpCache, job, shuttingDown>>, open' \subseteq open \cup {e},
             reindex \subseteq reindex' \cup {e}
      PROVE  RoutedFit'
  <2>1. ASSUME ~shuttingDown
        PROVE  /\ \A f \in Documents : /\ Waiting(f) => Waiting(f)'
                                       /\ Queueing(f) => Queueing(f)'
               /\ Waiting(e)' \/ Queueing(e)' \/ OwnerRoot(DirOf[e]) # NoDir
    <3> DEFINE call == [by |-> by, file |-> e]
    <3>1. call \in Call /\ EnsureContextFor(call) /\ call.file = e
      BY <1>8 DEF Call
    <3> HIDE DEF call
    <3> QED
      BY <1>1, <1>8, <2>1, <3>1, EnsureCares
  <2>2. OwnerRoot(DirOf[e]) # NoDir => Homed(e)'
    <3>1. OwnerRoot(DirOf[e]) # NoDir => KnownRoots \cap Above[DirOf[e]] # {}
      BY <1>1, <1>2, OwnerIs, NearestIs
    <3> QED
      BY <1>8, <3>1 DEF KnownRoots
  <2>3. ASSUME NEW f \in Documents, ~shuttingDown, f \in open', f \notin open \/ Asked(f) \/ Own(f)
        PROVE  Asked(f)' \/ Own(f)' \/ Homed(f)'
    <3>1. Own(f) => Own(f)'
      BY <1>8
    <3> QED
      BY <1>8, <2>1, <2>2, <2>3, <3>1
  <2> QED
    BY <1>5, <1>8, <2>3
\* A task leaves the lane.
<1>9. ASSUME lane # <<>>, lane' = Tail(lane), NEW f \in Documents, Queueing(f)
      PROVE  Queueing(f)' \/ (Head(lane).kind = "create" /\ Head(lane).call.file = f)
  <2>1. PICK i \in DOMAIN lane : lane[i].kind = "create" /\ lane[i].call.file = f
    BY <1>9 DEF Queueing
  <2>2. i = 1 \/ \E j \in DOMAIN Tail(lane) : Tail(lane)[j] = lane[i]
    BY <1>2, <1>9, TailItems
  <2>3. Head(lane) = lane[1]
    BY <1>2, <1>9, TailItems
  <2> QED
    BY <1>9, <2>1, <2>2, <2>3 DEF Queueing
<1>10. ASSUME Start("init") \/ Start("indexAll") \/ Start("reload"), lane' = Tail(lane),
              UNCHANGED <<open, gate, contexts, walkUpCache, shuttingDown>>, reindex \subseteq reindex'
       PROVE  RoutedFit'
  <2>1. lane # <<>> /\ job = Idle /\ Head(lane).kind # "create"
    BY <1>10 DEF Start
  <2>2. \A f \in Documents : ~Own(f)
    BY <2>1 DEF Idle
  <2>3. \A f \in Documents : Asked(f) => Asked(f)'
    BY <1>9, <1>10, <2>1 DEF Waiting
  <2> QED
    BY <1>5, <1>10, <2>2, <2>3
<1>11. CASE StartInit \/ StartIndexAll \/ StartReload
  <2>1. /\ Start("init") \/ Start("indexAll") \/ Start("reload")
        /\ lane' = Tail(lane) /\ UNCHANGED <<open, gate, shuttingDown>> /\ reindex \subseteq reindex'
    BY <1>11 DEF StartInit, StartIndexAll, StartReload, disk, handlers
  <2>2. Rebuild \/ UNCHANGED <<contexts, walkUpCache>>
    BY <1>11 DEF StartInit, StartIndexAll, StartReload, caches
  <2> QED
    BY <1>6, <1>10, <2>1, <2>2
<1>12. CASE StartCreate
  <2> DEFINE call == Head(lane).call
  <2>1. lane # <<>> /\ lane' = Tail(lane) /\ job = Idle /\ Head(lane).kind = "create"
        /\ UNCHANGED <<open, reindex, gate, contexts, walkUpCache, shuttingDown>>
    BY <1>12 DEF StartCreate, Start, disk
  <2>2. call.file \in Documents
    <3>1. Head(lane) = lane[1] /\ 1 \in DOMAIN lane
      BY <1>2, <2>1, TailItems
    <3> QED
      BY <1>1, <2>1, <3>1 DEF LaneFits, LaneItems, Call
  <2>3. ASSUME ~shuttingDown, NEW f, f = call.file PROVE Own(f)' \/ Homed(f)'
    <3>1. CASE OwnerRoot(DirOf[call.file]) # NoDir
      <4>1. KnownRoots \cap Above[DirOf[f]] # {}
        BY <1>1, <1>2, <2>2, <2>3, <3>1, OwnerIs, NearestIs
      <4> QED
        BY <2>1, <4>1 DEF KnownRoots
    <3>2. CASE OwnerRoot(DirOf[call.file]) = NoDir
      <4>1. Began("resolve", NoDir)
        BY <1>12, <2>3, <3>2 DEF StartCreate
      <4>2. job'.kind = "create" /\ job'.call = call
        BY <2>1, <4>1 DEF Began, Idle
      <4> QED
        BY <2>3, <4>2
    <3> QED
      BY <3>1, <3>2
  <2>4. ASSUME NEW f \in Documents, ~shuttingDown, Asked(f) \/ Own(f)
        PROVE  Asked(f)' \/ Own(f)' \/ Homed(f)'
    <3>1. Waiting(f)' = Waiting(f) /\ ~Own(f)
      BY <2>1 DEF Waiting, Idle
    <3>2. Queueing(f) => Queueing(f)' \/ f = call.file
      BY <1>9, <2>1, <2>4
    <3> QED
      BY <2>1, <2>3, <2>4, <3>1, <3>2
  <2> QED
    BY <1>5, <2>1, <2>4
<1>13. CASE Reloaded
  <2>1. /\ job.pc = "reload" /\ UNCHANGED <<open, gate, lane, shuttingDown>>
        /\ reindex \subseteq reindex'
    BY <1>13 DEF Reloaded, disk
  <2>2. job.kind = "reload"
    BY <1>1, <1>2, <2>1 DEF JobFits, JobShape, Anchored, Adding, Idle, Jobs, Kinds
  <2>3. Rebuild \/ UNCHANGED <<contexts, walkUpCache>>
    BY <1>13 DEF Reloaded, caches
  <2> QED
    BY <1>6, <1>7, <2>1, <2>2, <2>3
<1>14. CASE ResolveDocument
  <2> DEFINE dir == DirOf[job.call.file]
             found == IF walkUpCache[dir] # Absent THEN walkUpCache[dir] ELSE ConfigRoot(dir)
  <2>1. job.pc = "resolve" /\ job.kind = "create" /\ UNCHANGED <<open, reindex, gate, lane, contexts, shuttingDown>>
        /\ walkUpCache' = [walkUpCache EXCEPT ![dir] = found]
    BY <1>14 DEF ResolveDocument, disk
  <2>2. found = NoDir \/ (job'.kind = job.kind /\ job'.call = job.call)
    BY <1>2, <1>14 DEF ResolveDocument, Jobs
  <2>3. dir \in Dirs
    BY <1>1, <1>2, <2>1 DEF JobFits, JobShape, Call
  <2>4. \A d \in Dirs : walkUpCache[d] = NoDir => walkUpCache'[d] = NoDir
    BY <1>2, <2>1
  <2>5. walkUpCache'[dir] = found
    BY <1>2, <2>1, <2>3
  <2> HIDE DEF found
  <2>6. ASSUME NEW f \in Documents, Own(f) PROVE Own(f)' \/ Homed(f)'
    <3>1. f = job.call.file
      BY <2>1, <2>6
    <3> QED
      BY <2>1, <2>2, <2>5, <3>1
  <2> QED
    BY <1>7, <2>1, <2>4, <2>6
<1>15. ASSUME UNCHANGED <<open, reindex, gate, lane, shuttingDown, walkUpCache>>,
              \A d \in Dirs : contexts[d] # 0 => contexts'[d] # 0,
              UNCHANGED job \/ (job'.kind = job.kind /\ job'.call = job.call /\ job'.pc # "reload")
       PROVE  RoutedFit'
  BY <1>7, <1>15
<1>16. CASE ResolvePrimary \/ Discovered \/ EvictForeignFiles \/ HandOver
  <2>1. UNCHANGED <<open, reindex, gate, lane, shuttingDown, walkUpCache, contexts>>
    BY <1>16 DEF ResolvePrimary, Discovered, EvictForeignFiles, HandOver, disk, handlers, caches
  <2>2. job'.kind = job.kind /\ job'.call = job.call /\ job'.pc # "reload"
    BY <1>2, <1>16 DEF ResolvePrimary, Discovered, EvictForeignFiles, HandOver, Jobs
  <2> QED
    BY <1>15, <2>1, <2>2
<1>17. CASE AnchorLoaded
  <2>1. job.pc = "load" /\ CreateContext(job.anchor, job.fallback) /\ job.anchor \in Dirs /\ contexts[job.anchor] = 0
    BY <1>1, <1>17 DEF AnchorLoaded, JobFits, JobShape, JobPlace, Anchored
  <2>2. job'.kind = job.kind /\ job'.call = job.call /\ job'.pc # "reload"
    BY <1>2, <1>17 DEF AnchorLoaded, Jobs
  <2>3. UNCHANGED <<open, reindex, gate, lane, shuttingDown, walkUpCache>>
    BY <1>17 DEF AnchorLoaded, disk, handlers
  <2>4. \A d \in Dirs : contexts[d] # 0 => contexts'[d] # 0
    BY <1>2, <2>1 DEF CreateContext
  <2> QED
    BY <1>15, <2>2, <2>3, <2>4
<1>18. CASE NestedLoaded
  <2>1. PICK n \in job.todo : CreateContext(n, FALSE) /\ job' = [job EXCEPT !.todo = @ \ {n}]
    BY <1>18 DEF NestedLoaded
  <2>2. n \in Dirs /\ job.pc = "nested"
    BY <1>2, <1>18, <2>1 DEF NestedLoaded, Jobs
  <2>3. job'.kind = job.kind /\ job'.call = job.call /\ job'.pc = job.pc
    BY <1>2, <2>1 DEF Jobs
  <2>4. UNCHANGED <<open, reindex, gate, lane, shuttingDown, walkUpCache>>
    BY <1>18 DEF NestedLoaded, disk, handlers
  <2>5. \A d \in Dirs : contexts[d] # 0 => contexts'[d] # 0
    BY <1>2, <2>1, <2>2 DEF CreateContext
  <2> QED
    BY <1>15, <2>2, <2>3, <2>4, <2>5
<1>19. CASE IndexProject \/ RegisterWatchers \/ UNCHANGED vars \/ (\E d \in Dirs : ChangeConfig(d))
  <2>1. UNCHANGED <<open, reindex, gate, lane, shuttingDown, walkUpCache, contexts, job>>
    BY <1>19 DEF IndexProject, RegisterWatchers, vars, ChangeConfig, disk, handlers, caches
  <2> QED
    BY <1>15, <2>1
<1>20. CASE (\E f \in Documents : Edit(f)) \/ (\E g \in got : Parsed(g))
  <2>1. UNCHANGED <<open, reindex, gate, lane, shuttingDown, walkUpCache, contexts, job>>
    BY <1>20 DEF Edit, Parsed, disk
  <2> QED
    BY <1>15, <2>1
<1>21. CASE EndTask
  <2>1. job.pc = "end" /\ UNCHANGED <<open, ctxs, contexts, walkUpCache, shuttingDown>>
        /\ reindex' = IF job.kind = "reload" THEN reindex \cup open ELSE reindex
    BY <1>21 DEF EndTask, disk
  <2>2. CASE job.kind = "init"
    <3> DEFINE t == [kind |-> "indexAll", call |-> NoCall]
    <3>1. lane' = Append(lane, t) /\ UNCHANGED <<gate, reindex>> /\ t \in Task
      BY <1>21, <2>2 DEF EndTask, Task, Kinds
    <3> HIDE DEF t
    <3>2. \A i \in DOMAIN lane : i \in DOMAIN lane' /\ lane'[i] = lane[i]
      BY <1>2, <3>1
    <3>3. \A f \in Documents : ~Own(f) /\ (Asked(f) => Asked(f)')
      BY <2>2, <3>1, <3>2 DEF Queueing, Waiting
    <3> QED
      BY <1>5, <2>1, <3>3
  <2>3. CASE job.kind # "init"
    <3>1. PICK also : FinishStartup(also)
      BY <1>21, <2>3 DEF EndTask
    <3>2. ASSUME ~shuttingDown
          PROVE  \A f \in Documents : /\ Waiting(f) => Queueing(f)' \/ OwnerRoot(DirOf[f]) # NoDir
                                      /\ Queueing(f) => Queueing(f)'
      BY <1>1, <2>1, <3>1, <3>2, FinishCares
    <3>3. ASSUME NEW f \in Documents, OwnerRoot(DirOf[f]) # NoDir PROVE Homed(f)'
      <4>1. KnownRoots \cap Above[DirOf[f]] # {}
        BY <1>1, <1>2, <3>3, OwnerIs, NearestIs
      <4> QED
        BY <2>1, <4>1 DEF KnownRoots
    <3>4. ASSUME NEW f \in Documents, f \in open, Own(f) PROVE f \in reindex' \/ Homed(f)'
      <4>1. CASE job.kind = "create" /\ job.call.file = f
        <5>1. job.anchor \in KnownRoots \cap Above[DirOf[f]]
          BY <1>1, <2>1, <4>1 DEF JobFits, JobShape, JobPlace, Anchored, Adding, KnownRoots
        <5> QED
          BY <2>1, <5>1 DEF KnownRoots
      <4> QED
        BY <2>1, <3>4, <4>1
    <3> QED
      BY <1>5, <2>1, <3>2, <3>3, <3>4
  <2> QED
    BY <2>2, <2>3
<1>22. ASSUME NEW f \in Documents, Open(f) \/ ParseTimer(f) \/ ReindexNext(f) PROVE RoutedFit'
  <2>1. /\ UNCHANGED <<ctxs, contexts, walkUpCache, job, shuttingDown>> /\ open' \subseteq open \cup {f}
        /\ reindex \subseteq reindex' \cup {f}
    BY <1>22 DEF Open, ParseTimer, ReindexNext, disk
  <2>2. \E by \in {"event", "reindex"} : EnsureContextFor([by |-> by, file |-> f])
    BY <1>22 DEF Open, ParseTimer, ReindexNext
  <2> QED
    BY <1>8, <2>1, <2>2
<1>23. CASE ReloadTimer
  <2> DEFINE t == [kind |-> "reload", call |-> NoCall]
  <2>1. lane' = Append(lane, t) /\ UNCHANGED <<open, reindex, gate, contexts, walkUpCache, job, shuttingDown>> /\ t \in Task
    BY <1>23 DEF ReloadTimer, Task, Kinds, disk, handlers, caches
  <2> HIDE DEF t
  <2>2. \A i \in DOMAIN lane : i \in DOMAIN lane' /\ lane'[i] = lane[i]
    BY <1>2, <2>1
  <2>3. \A f \in Documents : (Own(f) => Own(f)') /\ (Asked(f) => Asked(f)')
    BY <2>1, <2>2 DEF Queueing, Waiting
  <2> QED
    BY <1>5, <2>1, <2>3
<1>24. CASE Shutdown
  BY <1>24 DEF Shutdown, RoutedFit
<1> QED
  BY <1>11, <1>12, <1>13, <1>14, <1>16, <1>17, <1>18, <1>19, <1>20, <1>21, <1>22, <1>23, <1>24 DEF Next, LaneStep

-------------------------------------------------------------------------------
\* Every part of the invariant is kept by every step ...
LEMMA RegistryStep ==
  ASSUME RegistryInv, [Next]_vars
  PROVE  RegistryInv'
BY TypeKeeps, JobKeeps, LaneKeeps, PrimaryKeeps, MapsKeep, AllIndexedKeeps, FilesKeep, OpenKeeps,
   ChangesKeep, RootsKeep, TreesKeep, RoutedKeep DEF RegistryInv, Coherent

\* ... and holds at the start.
LEMMA RegistryInit ==
  ASSUME Init
  PROVE  RegistryInv
<1> DEFINE t == [kind |-> "init", call |-> NoCall]
<1>1. t \in Task /\ t.kind = "init" /\ t.call = NoCall
  BY DEF Task, Kinds
<1>2. lane = IF workspaceRoot = NoDir THEN <<>> ELSE <<t>>
  BY DEF Init
<1> HIDE DEF t
<1>3. lane \in Seq(Task) /\ \A i \in DOMAIN lane : i = 1 /\ lane[i] = t /\ workspaceRoot # NoDir
  BY <1>1, <1>2
<1>4. /\ job = Idle /\ job.kind = "none" /\ job.pc = "idle" /\ job.todo = {} /\ job.evicted = {}
      /\ job.anchor = NoDir /\ job.call = NoCall /\ ~job.fallback
      /\ job \in Jobs
  <2>1. job = Idle /\ Idle \in Jobs
    BY DEF Init, Idle, Jobs, Kinds, Awaits
  <2> QED
    BY <2>1 DEF Idle
<1>5. KnownRoots = {} /\ Mapped = {} /\ open = {} /\ gate = <<>> /\ got = {} /\ pendingChanges = {}
      /\ ~shuttingDown /\ ~timer /\ primaryRoot = NoDir /\ ctxs = <<>>
      /\ \A d \in Dirs : ownerCache[d] = Absent /\ walkUpCache[d] = Absent
  BY DEF Init, KnownRoots, Mapped, EmptyCache
<1>6. TypeOK
  <2>1. ctxs \in Seq(Context) /\ gate \in Seq(Call) /\ contexts \in [Dirs -> 0..Len(ctxs)]
    BY DEF Init
  <2>2. ownerCache \in [Dirs -> Dirs \cup {NoDir, Absent}] /\ walkUpCache \in [Dirs -> Dirs \cup {NoDir, Absent}]
    BY DEF Init, EmptyCache
  <2>3. changes \in 0..MaxChanges /\ events \in 0..MaxEvents
    BY RegistryAssumption DEF Init
  <2> QED
    BY <1>3, <1>4, <2>1, <2>2, <2>3 DEF Init, TypeOK, Jobs, Idle, Awaits
<1>7. JobFits
  BY <1>4, <1>5 DEF JobFits, JobShape, JobPlace, Anchored, Adding, Idle
<1>8. LaneFits
  <2>1. SessionFits
    <3>1. session = "initializing" => workspaceRoot # NoDir /\ lane = << [kind |-> "init", call |-> NoCall] >>
      BY DEF Init
    <3>2. session \in {"initializing", "indexed"}
      BY DEF Init
    <3> QED
      BY <1>4, <1>5, <3>1, <3>2 DEF SessionFits, Starting
  <2>2. LaneItems
    BY <1>1, <1>3 DEF Init, LaneItems
  <2>3. GateFits
    BY <1>4, <1>5 DEF Init, GateFits, Starting
  <2> QED
    BY <2>1, <2>2, <2>3 DEF LaneFits
<1>9. PrimaryFits
  BY <1>4, <1>5 DEF Init, PrimaryFits
<1>10. Coherent /\ MapsMatch
  BY <1>5, RegistryAssumption DEF Coherent, CacheFresh, LiveIsMapped, MapsMatch
<1>11. AllIndexed /\ FilesFit /\ OpenFit /\ ChangesDue
  BY <1>5 DEF AllIndexed, FilesFit, OpenFit, ChangesDue
<1>12. RootsFit /\ TreesFit /\ RoutedFit
  BY <1>4, <1>5, RegistryAssumption DEF RootsFit, TreesFit, RoutedFit, Anchored, Adding
<1> QED
  BY <1>6, <1>7, <1>8, <1>9, <1>10, <1>11, <1>12 DEF RegistryInv

(***************************************************************************)
(* For any tree of directories, documents and configuration files and any  *)
(* bounds: every await of the lane finds the registry in the state its     *)
(* tasks rely on.                                                          *)
(***************************************************************************)
THEOREM RegistryInvariant == Spec => []RegistryInv
<1>1. Init => RegistryInv
  BY RegistryInit
<1>2. RegistryInv /\ [Next]_vars => RegistryInv'
  BY RegistryStep
<1> QED
  BY <1>1, <1>2, PTL DEF Spec

-------------------------------------------------------------------------------
\* No tree lacks a root that is on disk and whose directory is on record.
AllTrees ==
  \A r \in KnownRoots : \A c \in Dirs :
    r \in Above[c] /\ OnRecord(c) /\ ConfigRoot(c) = c => c \in KnownRoots

\* With every tree complete, the nearest known root is the root that the walk up
\* from the document finds on disk: a known root between the two would be one the
\* walk stops at, and one below it would have been found with the tree.
LEMMA RoutesRight ==
  ASSUME RegistryInv, Followed, AllTrees, Primary # 0, NEW d \in Dirs, OnRecord(d),
         KnownRoots \cap Above[d] # {} \/ ConfigRoot(d) = NoDir
  PROVE  /\ Home(d) # 0
         /\ ctxs[Home(d)].root = IF ConfigRoot(d) = NoDir THEN primaryRoot ELSE ConfigRoot(d)
<1> DEFINE c == ConfigRoot(d)
           m == NearestRoot(d, KnownRoots)
<1>1. /\ \A r \in KnownRoots : r \in Dirs /\ RootLike(r) /\ contexts[r] # 0 /\ ctxs[contexts[r]].root = r
      /\ primaryRoot # NoDir => primaryRoot \in Dirs
      /\ NoDir \notin Dirs
  BY RegistryAssumption DEF RegistryInv, TypeOK, RootsFit, MapsMatch, KnownRoots
<1>2. primaryRoot \in KnownRoots /\ Primary = contexts[primaryRoot]
  BY <1>1 DEF Primary, KnownRoots
<1>3. \/ m = NoDir /\ KnownRoots \cap Above[d] = {}
      \/ m \in KnownRoots /\ m \in Above[d] /\ KnownRoots \cap Above[d] \subseteq Above[m] /\ m # NoDir
  BY NearestIs
<1>4. m = NoDir => Home(d) = Primary
  BY DEF Home
<1>5. m # NoDir => Home(d) = contexts[m]
  BY DEF Home
<1>6. m # NoDir => /\ OnRecord(m) /\ m \in Dirs
                   /\ ConfigRoot(m) = m \/ (m = primaryRoot /\ ConfigRoot(m) = NoDir)
  BY <1>1, <1>3, DirsAbove DEF RootLike
<1>7. CASE c = NoDir
  <2>1. configured \cap Above[d] = {}
    BY <1>1, <1>7, ConfigRootIs
  <2>2. m # NoDir => m = primaryRoot
    <3> SUFFICES ASSUME m # NoDir, m # primaryRoot PROVE FALSE
      OBVIOUS
    <3>1. ConfigRoot(m) = m
      BY <1>6
    <3>2. m \in configured
      BY <1>1, <1>6, <3>1, ConfigRootIs
    <3> QED
      BY <1>3, <2>1, <3>2
  <2> QED
    BY <1>1, <1>2, <1>4, <1>5, <1>7, <2>2
<1>8. CASE c # NoDir
  <2>1. c \in configured /\ c \in Above[d] /\ c \in Dirs /\ ConfigRoot(c) = c /\ OnRecord(c)
    BY <1>8, ConfigRootIs, DirsAbove
  <2>2. m # NoDir /\ m \in KnownRoots /\ m \in Above[d] /\ KnownRoots \cap Above[d] \subseteq Above[m]
    BY <1>3, <1>8
  <2>3. CASE m \in Above[c]
    <3>1. c \in Above[m]
      BY <2>1, <2>2, <2>3 DEF AllTrees
    <3>2. m = c
      BY <1>6, <2>1, <2>2, <2>3, <3>1, RegistryAssumption
    <3> QED
      BY <1>1, <1>5, <1>8, <2>2, <3>2
  <2>4. CASE c \in Above[m]
    <3>1. ConfigRoot(m) = m
      BY <1>6, <2>1, <2>2, <2>4, ConfigRootIs
    <3>2. m \in Above[c]
      BY <1>6, <2>2, <3>1, ConfigRootBelow
    <3>3. m = c
      BY <1>6, <2>1, <2>2, <2>4, <3>2, RegistryAssumption
    <3> QED
      BY <1>1, <1>5, <1>8, <2>2, <3>3
  <2> QED
    BY <2>1, <2>2, <2>3, <2>4, InLine
<1> QED
  BY <1>7, <1>8

\* With no reload due no structural change is on record.
LEMMA NothingPending ==
  ASSUME RegistryInv, NoReloadDue, ~shuttingDown, workspaceRoot # NoDir
  PROVE  Followed
<1>1. ChangesDue
  BY DEF RegistryInv
<1>2. pendingChanges = {}
  BY <1>1 DEF ChangesDue, ReloadQueued, NoReloadDue
<1> QED
  BY <1>2 DEF Followed

\* ... and a document that has a home has the right one.
LEMMA RoutedIs ==
  ASSUME RegistryInv, workspaceRoot # NoDir, NoReloadDue, ~shuttingDown,
         ~Starting \/ job.kind = "indexAll", job.pc \notin {"discover", "nested"},
         NEW f \in Documents, Reported(f),
         KnownRoots \cap Above[DirOf[f]] # {} \/ walkUpCache[DirOf[f]] = NoDir
  PROVE  ContextFor(f) # 0 /\ ctxs[ContextFor(f)].root = Owner(f)
<1> DEFINE d == DirOf[f]
<1>1. d \in Dirs /\ OnRecord(d) /\ NoDir # Absent
  BY RegistryAssumption DEF OnRecord, Reported
<1>2. Followed
  BY NothingPending
<1>3. AllTrees
  BY <1>2 DEF RegistryInv, TreesFit, AllTrees
<1>4. KnownRoots \cap Above[d] # {} \/ ConfigRoot(d) = NoDir
  BY <1>1, <1>2 DEF RegistryInv, RootsFit
<1>5. Primary # 0
  <2>1. session # "initializing" /\ job.kind # "reload"
    BY DEF NoReloadDue, Starting, RegistryInv, LaneFits, SessionFits
  <2>2. job.kind # "init"
    BY <2>1 DEF RegistryInv, LaneFits, SessionFits
  <2> QED
    BY <2>1, <2>2 DEF RegistryInv, PrimaryFits, Primary
<1>6. ContextFor(f) = Home(d)
  BY ContextForIs DEF RegistryInv, Coherent
<1>7. Home(d) # 0 /\ ctxs[Home(d)].root = IF ConfigRoot(d) = NoDir THEN primaryRoot ELSE ConfigRoot(d)
  BY <1>1, <1>2, <1>3, <1>4, <1>5, RoutesRight
<1> QED
  BY <1>6, <1>7 DEF Owner

LEMMA LosesNoChange ==
  ASSUME RegistryInv
  PROVE  NoChangeLost
<1> SUFFICES ASSUME Settled, NoReloadDue, workspaceRoot # NoDir, NEW f \in open, Reported(f)
             PROVE  ContextFor(f) # 0 /\ ctxs[ContextFor(f)].root = Owner(f)
  BY DEF NoChangeLost
<1>1. f \in Documents /\ job = Idle /\ job.kind = "none" /\ job.pc = "idle" /\ gate = <<>> /\ lane = <<>>
      /\ reindex = {} /\ ~shuttingDown
  BY DEF RegistryInv, TypeOK, Settled, Resting, Idle
<1>2. ~Starting
  BY <1>1 DEF RegistryInv, LaneFits, SessionFits, Starting
<1>3. ~Called(f)
  BY <1>1 DEF Called, Waiting, Queueing
<1>4. KnownRoots \cap Above[DirOf[f]] # {} \/ walkUpCache[DirOf[f]] = NoDir
  BY <1>1, <1>3 DEF RegistryInv, RoutedFit
<1> QED
  BY <1>1, <1>2, <1>4, RoutedIs

(***************************************************************************)
(* The maps of the registry agree at every await, and no reported change   *)
(* is lost: once all has run, every open document is routed to the project *)
(* that the configuration files on disk give, whatever came and went while *)
(* the registry was loading, adding trees or being rebuilt.                *)
(***************************************************************************)
THEOREM RegistryKeepsUp == Spec => []RegistryHolds
<1>1. RegistryInv => RegistryHolds
  BY LosesNoChange DEF RegistryHolds, RegistryInv
<1> QED
  BY <1>1, RegistryInvariant, PTL

LEMMA IsIndexedByOwner ==
  ASSUME RegistryInv
  PROVE  IndexedByOwner
<1>1. TypeOK /\ MapsMatch /\ FilesFit /\ OpenFit
  BY DEF RegistryInv
<1>2. ASSUME Resting, ~shuttingDown, NEW i \in Mapped, NEW f \in ctxs[i].files PROVE ContextFor(f) = i
  BY <1>1, <1>2 DEF FilesFit, Resting, Idle
<1>3. ASSUME Settled, NEW f \in open PROVE ContextFor(f) # 0 /\ f \in ctxs[ContextFor(f)].files
  <2>1. job = Idle /\ job.kind = "none" /\ job.pc = "idle" /\ gate = <<>> /\ lane = <<>> /\ reindex = {} /\ edited = {}
        /\ got = {} /\ ~shuttingDown /\ Resting
    BY <1>3 DEF Settled, Resting, Idle
  <2>2. Held(f)
    BY <1>1, <2>1 DEF OpenFit, CaredFor, Called, Waiting, Queueing, Parsing, Evicted
  <2>3. PICK i \in Mapped : f \in ctxs[i].files
    BY <2>2 DEF Held
  <2> QED
    BY <1>1, <1>2, <2>1, <2>3, MappedIs
<1> QED
  BY <1>2, <1>3 DEF IndexedByOwner, IndexedOnce, OpenIndexed

(***************************************************************************)
(* Whenever the lane and the parses rest, no project's index holds a file  *)
(* of another; and once everything scheduled has run, every open document  *)
(* is in the index of its owner.                                           *)
(***************************************************************************)
THEOREM OwnersIndexTheirs == Spec => []IndexedByOwner
<1>1. RegistryInv => IndexedByOwner
  BY IsIndexedByOwner
<1> QED
  BY <1>1, RegistryInvariant, PTL

-------------------------------------------------------------------------------
\* What is answered for a document that has an owner among the known roots.
LEMMA FastIsRight ==
  ASSUME RegistryInv, workspaceRoot # NoDir, NoReloadDue, ~shuttingDown,
         startupOpen \/ (job.pc = "end" /\ job.kind # "init"),
         NEW f \in Documents, Reported(f), OwnerRoot(DirOf[f]) # NoDir
  PROVE  ctxs[ContextFor(f)].root = Owner(f) /\ ctxs[ContextFor(f)].indexed
<1>1. TypeOK /\ JobFits /\ LaneFits /\ MapsMatch /\ AllIndexed /\ CacheFresh /\ DirOf[f] \in Dirs
  BY RegistryAssumption DEF RegistryInv, Coherent
<1>2. ~Starting \/ job.kind = "indexAll"
  BY <1>1 DEF LaneFits, SessionFits, GateFits, Starting, Idle
<1>3. job.pc \notin {"discover", "nested"}
  BY <1>1 DEF LaneFits, GateFits, Idle
<1>4. KnownRoots \cap Above[DirOf[f]] # {}
  BY <1>1, OwnerIs, NearestIs
<1>5. ContextFor(f) # 0 /\ ctxs[ContextFor(f)].root = Owner(f)
  BY <1>2, <1>3, <1>4, RoutedIs
<1>6. ContextFor(f) \in Mapped
  BY <1>1, <1>5, AnswerLives
<1> QED
  BY <1>1, <1>5, <1>6 DEF AllIndexed

\* One step answers calls with the right projects only.
LEMMA RoutedStep ==
  ASSUME RegistryInv, [Next]_vars, workspaceRoot # NoDir, NEW g \in got' \ got,
         Reported(g.call.file), NoReloadDue, ~shuttingDown
  PROVE  ctxs[g.ctx].root = Owner(g.call.file) /\ ctxs[g.ctx].indexed
<1> DEFINE Right == ctxs[g.ctx].root = Owner(g.call.file) /\ ctxs[g.ctx].indexed
<1>1. TypeOK /\ JobFits /\ LaneFits /\ PrimaryFits /\ MapsMatch /\ AllIndexed /\ RootsFit /\ CacheFresh
  BY DEF RegistryInv, Coherent
<1>2. /\ job \in Jobs /\ gate \in Seq(Call) /\ lane \in Seq(Task) /\ primaryRoot \in Dirs \cup {NoDir}
      /\ \A f \in Documents : DirOf[f] \in Dirs
      /\ \A call \in Call : call.file \in Documents
  BY <1>1, RegistryAssumption DEF TypeOK, JobFits, JobShape, Call
<1>3. Followed
  BY NothingPending
<1>4. ASSUME startupOpen \/ (job.pc = "end" /\ job.kind # "init"), NEW calls \in SUBSET Call,
             g \in Answered(calls), \A call \in calls : OwnerRoot(DirOf[call.file]) # NoDir
      PROVE  Right
  <2>1. PICK call \in calls : g = [call |-> call, ctx |-> ContextFor(call.file)]
    BY <1>4 DEF Answered
  <2>2. call.file \in Documents /\ g.call = call /\ g.ctx = ContextFor(call.file)
    BY <1>2, <1>4, <2>1
  <2> QED
    BY <1>4, <2>1, <2>2, FastIsRight
<1>5. ASSUME NEW call \in Call, EnsureContextFor(call) PROVE Right
  <2>1. startupOpen /\ Fast(call) /\ g \in Answered({call})
    BY <1>5 DEF EnsureContextFor
  <2> QED
    BY <1>4, <2>1 DEF Fast
<1>6. ASSUME NEW f \in Documents, Open(f) \/ ParseTimer(f) \/ ReindexNext(f) PROVE Right
  <2>1. \E by \in {"event", "reindex"} : EnsureContextFor([by |-> by, file |-> f])
    BY <1>6 DEF Open, ParseTimer, ReindexNext
  <2>2. \A by \in {"event", "reindex"} : [by |-> by, file |-> f] \in Call
    BY <1>6 DEF Call
  <2> QED
    BY <1>5, <2>1, <2>2
<1>7. CASE StartCreate
  <2> DEFINE call == Head(lane).call
  <2>1. lane # <<>> /\ job = Idle /\ Head(lane).kind = "create" /\ Head(lane) = lane[1] /\ 1 \in DOMAIN lane
    BY <1>2, <1>7, TailItems DEF StartCreate, Start
  <2>2. call \in Call
    BY <1>1, <2>1 DEF LaneFits, LaneItems
  <2>3. OwnerRoot(DirOf[call.file]) # NoDir /\ g \in Answered({call})
    BY <1>7 DEF StartCreate
  <2>4. startupOpen
    <3>1. session = "initializing" => lane[1].kind = "init"
      BY <1>1, <2>1 DEF LaneFits, SessionFits, Idle
    <3>2. ~Starting
      BY <1>1, <2>1, <3>1 DEF LaneFits, SessionFits, Starting, Idle
    <3> QED
      BY <1>1, <2>1, <3>2 DEF LaneFits, GateFits
  <2> HIDE DEF call
  <2> QED
    BY <1>4, <2>2, <2>3, <2>4
<1>8. CASE ResolveDocument
  <2> DEFINE d == DirOf[job.call.file]
             found == IF walkUpCache[d] # Absent THEN walkUpCache[d] ELSE ConfigRoot(d)
  <2>1. job.pc = "resolve" /\ job.kind = "create" /\ found = NoDir /\ Primary # 0
        /\ g = [call |-> job.call, ctx |-> Primary]
    BY <1>8 DEF ResolveDocument
  <2>2. d \in Dirs /\ g.call = job.call /\ g.ctx = Primary
    BY <1>1, <1>2, <2>1 DEF JobFits, JobShape
  <2>3. ConfigRoot(d) = NoDir
    <3>1. OnRecord(d)
      BY <2>2 DEF Reported, OnRecord
    <3> QED
      BY <1>1, <1>3, <2>1, <2>2, <3>1 DEF RootsFit
  <2>4. primaryRoot \in KnownRoots /\ Primary = contexts[primaryRoot]
    BY <1>2, <2>1 DEF Primary, KnownRoots
  <2>5. startupOpen
    BY <1>1, <2>1 DEF LaneFits, SessionFits, GateFits, Starting, Idle
  <2>6. Primary \in Mapped /\ ctxs[Primary].root = primaryRoot
    BY <1>1, <2>4 DEF Mapped, MapsMatch
  <2> QED
    BY <1>1, <2>2, <2>3, <2>5, <2>6 DEF Owner, AllIndexed
<1>9. CASE EndTask
  <2> DEFINE fast == {c \in ToSet(gate) : Fast(c)}
  <2>1. job.pc = "end" /\ job.kind # "init"
        /\ FinishStartup(IF job.kind = "create" /\ ~shuttingDown
                            THEN {[call |-> job.call, ctx |-> contexts[job.anchor]]}
                            ELSE {})
    BY <1>9 DEF EndTask
  <2>2. g \in Answered(fast) \/ (job.kind = "create" /\ g = [call |-> job.call, ctx |-> contexts[job.anchor]])
    BY <2>1 DEF FinishStartup
  <2>3. CASE g \in Answered(fast)
    <3>1. fast \in SUBSET Call /\ \A c \in fast : OwnerRoot(DirOf[c.file]) # NoDir
      BY <1>2 DEF ToSet, Fast
    <3> HIDE DEF fast
    <3> QED
      BY <1>4, <2>1, <2>3, <3>1
  <2>4. CASE job.kind = "create" /\ g = [call |-> job.call, ctx |-> contexts[job.anchor]]
    <3> DEFINE d == DirOf[job.call.file]
    <3>1. g.call = job.call /\ g.ctx = contexts[job.anchor] /\ OnRecord(d)
      BY <2>4 DEF Reported, OnRecord
    <3>2. job.anchor \in KnownRoots /\ job.anchor # NoDir
      BY <1>1, <2>1, RegistryAssumption DEF JobFits, JobShape, JobPlace, Anchored, Adding, KnownRoots
    <3>3. job.anchor = ConfigRoot(d)
      BY <1>1, <1>3, <2>1, <2>4, <3>1 DEF RootsFit, Anchored, Adding
    <3>4. contexts[job.anchor] \in Mapped /\ ctxs[contexts[job.anchor]].root = job.anchor
      BY <1>1, <3>2 DEF Mapped, MapsMatch
    <3> QED
      BY <1>1, <2>1, <3>1, <3>2, <3>3, <3>4 DEF Owner, AllIndexed
  <2> QED
    BY <2>2, <2>3, <2>4
<1>10. ~( \/ StartInit \/ StartIndexAll \/ StartReload \/ Reloaded \/ ResolvePrimary \/ AnchorLoaded \/ Discovered
          \/ NestedLoaded \/ EvictForeignFiles \/ IndexProject \/ HandOver \/ RegisterWatchers \/ ReloadTimer
          \/ Shutdown \/ UNCHANGED vars \/ (\E f \in Documents : Edit(f)) \/ (\E h \in got : Parsed(h))
          \/ (\E d \in Dirs : ChangeConfig(d)))
  BY DEF StartInit, StartIndexAll, StartReload, Reloaded, ResolvePrimary, AnchorLoaded, Discovered,
     NestedLoaded, EvictForeignFiles, IndexProject, HandOver, RegisterWatchers, ReloadTimer, Shutdown, vars,
     Edit, Parsed, ChangeConfig, handlers
<1> QED
  BY <1>6, <1>7, <1>8, <1>9, <1>10 DEF Next, LaneStep

(***************************************************************************)
(* In a session with a workspace root a call of ensureContextFor is never  *)
(* answered with a project because the right one was not known yet: unless *)
(* a reload is due, the answer is the owner on disk, and it is indexed.    *)
(* (Without one the directory of the first document becomes a project that *)
(* goes on to own what is configured below it.)                            *)
(***************************************************************************)
THEOREM AnswersAreOwners ==
  ASSUME NoDir \notin WorkspaceRoots
  PROVE  Spec => RoutedToOwner
<1>1. RegistryInv /\ [Next]_vars =>
        [\A g \in got' \ got :
           LET f == g.call.file
           IN  Reported(f) /\ NoReloadDue /\ ~shuttingDown
                 => ctxs[g.ctx].root = Owner(f) /\ ctxs[g.ctx].indexed]_vars
  <2> SUFFICES ASSUME RegistryInv, [Next]_vars, NEW g \in got' \ got, Reported(g.call.file), NoReloadDue, ~shuttingDown
               PROVE  ctxs[g.ctx].root = Owner(g.call.file) /\ ctxs[g.ctx].indexed
    OBVIOUS
  <2>1. workspaceRoot # NoDir
    BY DEF RegistryInv, TypeOK
  <2> QED
    BY <2>1, RoutedStep
<1> QED
  BY <1>1, RegistryInvariant, PTL DEF Spec, RoutedToOwner
===============================================================================
