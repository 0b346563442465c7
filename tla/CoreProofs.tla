------------------------------ MODULE CoreProofs ------------------------------
(***************************************************************************)
(* `markspec lock` and `markspec fmt`: the rows of the upstreams, what the *)
(* commands leave in the cache (UpstreamLock), the references that the two *)
(* heal (RefHealing), whose files they take (ProjectDiscovery), and the    *)
(* graph that the compiler makes of these (Compilation).                   *)
(***************************************************************************)
EXTENDS UpstreamLock, RefHealing, ProjectDiscovery, Compilation,
        FiniteSetTheorems, SequenceTheorems, WellFoundedInduction, TLAPS

-------------------------------------------------------------------------------
(***************************************************************************)
(* markspec lock, for any finite set of upstreams, any publications and    *)
(* any sequence of commands that end, fail in part or are killed: what a   *)
(* command leaves in the cache is what the rows say, and pins move only    *)
(* when they are told to.                                                  *)
(*                                                                         *)
(* The invariant says which upstreams the command has settled, and that    *)
(* its rows are of these, one each.                                        *)
(***************************************************************************)
Left(s) == {s[i] : i \in 1..Len(s)}
NoRepeat(s) == \A i, j \in 1..Len(s) : s[i] = s[j] => i = j

\* One row for an upstream, and the data of a dependency is of its commit.
GoodRows(rows) ==
  /\ \A r, q \in rows : r.id = q.id => r = q
  /\ \A r \in rows : r.kind = "dependency" => r.snapshot # Absent /\ r.snapshot.version = r.version

\* The command has come to an end with this upstream.
Settled(kind, id) ==
  /\ kind = "reference" => id \in references \ Left(command.refs)
  /\ kind = "dependency" => id \in (dependencies \ references) \ Left(command.deps)
  /\ item # Absent => item.id # id

Idle ==
  /\ item # Absent => command # Absent
  /\ command # Absent => result = Absent

Queued == command # Absent =>
  /\ NoRepeat(command.refs) /\ Left(command.refs) \subseteq references
  /\ NoRepeat(command.deps) /\ Left(command.deps) \subseteq dependencies
  /\ item # Absent =>
       /\ item.kind = "reference" => item.id \in references \ Left(command.refs)
       /\ item.kind = "dependency" => item.id \in (dependencies \ references) \ Left(command.deps)

RowsAreGood ==
  /\ GoodRows(Rows)
  /\ command # Absent => GoodRows(command.existing) /\ GoodRows(command.rows)

\* What the rows of the command are: those of the upstreams that are settled, all
\* of them unless it warned, intact unless it warned, and with the pins kept.
RowsAreSettled == command # Absent =>
  /\ \A r \in command.rows : Settled(r.kind, r.id)
  /\ \A kind \in {"reference", "dependency"}, id \in Upstreams :
       Settled(kind, id) /\ ~command.warned => \E r \in command.rows : r.id = id

RowsAreIntact == command # Absent =>
  /\ ~command.warned => \A r \in command.rows : r.snapshot = Absent \/ Intact(r)
  /\ ~command.faulted => \A r \in command.rows :
       r.kind = "dependency" /\ r.snapshot.format = tool => Intact(r)

PinsAreKept == command # Absent =>
  \A r \in command.existing :
    r.snapshot # Absent /\ r.id \notin command.update /\ Settled(r.kind, r.id) => r \in command.rows

\* What the acquisition of an upstream has at each place.
ItemIsSound == item # Absent =>
  /\ item.mode = ModeOf(item.kind, item.id)
  /\ item.at # "acquire" =>
       /\ item.manifest \in Nat
       /\ item.kind = "dependency" /\ item.mode = "restore" => \E r \in Pins : item.manifest = r.version
  /\ item.at \in {"manifest", "cached"} =>
       /\ item.data \in LockSnapshot
       /\ item.kind = "dependency" => item.data = DepSnapshot(item.manifest)
       /\ item.mode = "restore" => \A r \in Pins : r.snapshot \in {Absent, item.data}
  /\ item.at = "cached" => cache[item.id].manifest = item.manifest

LockInv ==
  /\ LockTypeOK /\ Idle /\ Queued /\ RowsAreGood /\ RowsAreSettled /\ RowsAreIntact
  /\ PinsAreKept /\ ItemIsSound /\ LockHolds

-------------------------------------------------------------------------------
(***************************************************************************)
(* Sequences without repetition: what is taken from the front is no more   *)
(* left, and a set comes as such a sequence.                               *)
(***************************************************************************)
LEMMA HeadLeaves ==
  ASSUME NEW S, NEW s \in Seq(S), s # <<>>, NoRepeat(s)
  PROVE  /\ Head(s) \in S /\ Head(s) \in Left(s) /\ Tail(s) \in Seq(S) /\ NoRepeat(Tail(s))
         /\ Left(Tail(s)) = Left(s) \ {Head(s)}
<1>1. /\ Head(s) = s[1] /\ Tail(s) \in Seq(S) /\ Len(s) \in Nat \ {0} /\ Len(Tail(s)) = Len(s) - 1
      /\ \A i \in 1..(Len(s) - 1) : Tail(s)[i] = s[i + 1]
  OBVIOUS
<1>2. 1 \in 1..Len(s) /\ s[1] \in S
  BY <1>1
<1>3. NoRepeat(Tail(s))
  <2>1. ASSUME NEW i \in 1..Len(Tail(s)), NEW j \in 1..Len(Tail(s)), Tail(s)[i] = Tail(s)[j]
        PROVE  i = j
    <3>1. i + 1 \in 1..Len(s) /\ j + 1 \in 1..Len(s) /\ s[i + 1] = s[j + 1]
      BY <1>1, <2>1
    <3>2. i + 1 = j + 1
      BY <3>1 DEF NoRepeat
    <3> QED
      BY <3>2
  <2> QED
    BY <2>1 DEF NoRepeat
<1>4. ASSUME NEW x \in Left(Tail(s)) PROVE x \in Left(s) \ {Head(s)}
  <2>1. PICK i \in 1..Len(Tail(s)) : x = Tail(s)[i]
    BY DEF Left
  <2>2. i + 1 \in 1..Len(s) /\ i + 1 # 1 /\ x = s[i + 1]
    BY <1>1, <2>1
  <2>3. s[i + 1] # s[1]
    BY <1>2, <2>2 DEF NoRepeat
  <2> QED
    BY <1>1, <2>2, <2>3 DEF Left
<1>5. ASSUME NEW x \in Left(s) \ {Head(s)} PROVE x \in Left(Tail(s))
  <2>1. PICK i \in 1..Len(s) : x = s[i]
    BY DEF Left
  <2>2. i - 1 \in 1..Len(Tail(s)) /\ Tail(s)[i - 1] = s[i]
    BY <1>1, <1>5, <2>1
  <2> QED
    BY <2>1, <2>2 DEF Left
<1> QED
  BY <1>1, <1>2, <1>3, <1>4, <1>5 DEF Left

LEMMA SetComesAsSequence ==
  ASSUME NEW S, IsFiniteSet(S)
  PROVE  /\ SetToSeq(S) \in Seq(S) /\ NoRepeat(SetToSeq(S)) /\ Left(SetToSeq(S)) = S
<1> DEFINE n == Cardinality(S)
           f == SetToSeq(S)
<1>1. n \in Nat /\ ExistsBijection(1..n, S)
  BY FS_CardinalityType
<1>2. \E g \in [1..n -> S] : IsInjective(g)
  BY <1>1 DEF ExistsBijection, Bijection, Injection
<1>3. f \in [1..n -> S] /\ IsInjective(f)
  BY <1>2 DEF SetToSeq
<1> HIDE DEF f
<1>4. f \in Seq(S) /\ Len(f) = n
  BY <1>1, <1>3, SeqDef
<1>5. f \in Injection(1..n, S)
  BY <1>3 DEF Injection
<1>6. IsFiniteSet(1..n) /\ Cardinality(1..n) = n
  BY <1>1, FS_Interval
<1>7. f \in Surjection(1..n, S)
  BY <1>5, <1>6, FS_Injection
<1>8. \A x \in S : \E i \in 1..n : f[i] = x
  BY <1>7 DEF Surjection
<1>9. Left(f) = S
  BY <1>3, <1>4, <1>8 DEF Left
<1>10. NoRepeat(f)
  BY <1>3, <1>4 DEF NoRepeat, IsInjective
<1> QED
  BY <1>4, <1>9, <1>10 DEF f

-------------------------------------------------------------------------------
(***************************************************************************)
(* The steps of a command.                                                 *)
(***************************************************************************)
LEMMA LockTypes ==
  ASSUME LockInv
  PROVE  /\ references \in SUBSET Upstreams /\ dependencies \in SUBSET Upstreams
         /\ published \in [Upstreams -> Nat] /\ tool \in Nat /\ Rows \in SUBSET LockRow
         /\ cache \in [Upstreams -> [manifest : Nat \cup {Absent}, data : LockSnapshot \cup {Absent}]]
         /\ command # Absent => command \in LockCommand
         /\ item # Absent => item \in LockItem
BY DEF LockInv, LockTypeOK, Rows

LEMMA CommandFields ==
  ASSUME LockInv, command # Absent
  PROVE  /\ command.update \in SUBSET Upstreams
         /\ command.refs \in Seq(Upstreams) /\ command.deps \in Seq(Upstreams)
         /\ command.existing \in SUBSET LockRow /\ command.rows \in SUBSET LockRow
         /\ command.warned \in BOOLEAN /\ command.faulted \in BOOLEAN
BY LockTypes DEF LockCommand

\* A step that settles nothing: the rows are those of before, and as intact.
LEMMA NothingSettled ==
  ASSUME LockInv, command # Absent, command' \in LockCommand, item' \in LockItem \cup {Absent},
         cache' \in [Upstreams -> [manifest : Nat \cup {Absent}, data : LockSnapshot \cup {Absent}]],
         UNCHANGED <<references, dependencies, published, tool, lockfile, result>>,
         command'.rows = command.rows, command'.existing = command.existing,
         command'.update = command.update, command'.faulted = command.faulted,
         command.warned => command'.warned,
         \A kind \in {"reference", "dependency"}, id \in Upstreams :
           Settled(kind, id)' <=> Settled(kind, id),
         \A r \in command.rows : cache'[r.id] = cache[r.id],
         Queued', ItemIsSound'
  PROVE  LockInv'
<1>1. /\ command'.rows \in SUBSET LockRow /\ command' # Absent
      /\ \A r \in LockRow : r.kind \in {"reference", "dependency"} /\ r.id \in Upstreams
      /\ command.existing \in SUBSET LockRow /\ command'.warned \in BOOLEAN /\ command.warned \in BOOLEAN
  BY CommandFields, LockAssumption DEF LockRow, LockCommand
<1>2. LockTypeOK'
  BY DEF LockInv, LockTypeOK
<1>3. Idle' /\ LockHolds'
  BY <1>1 DEF LockInv, Idle, LockHolds, CleanIsIntact, RepairsCache, PinsStay
<1>4. RowsAreGood'
  BY <1>1 DEF LockInv, RowsAreGood, GoodRows, Rows
<1>5. RowsAreSettled' /\ PinsAreKept'
  BY <1>1 DEF LockInv, RowsAreSettled, PinsAreKept
<1>6. RowsAreIntact'
  BY <1>1 DEF LockInv, RowsAreIntact, Intact
<1> QED
  BY <1>2, <1>3, <1>4, <1>5, <1>6 DEF LockInv

\* A step that settles one upstream, with its rows.
LEMMA OneSettled ==
  ASSUME LockInv, command # Absent, command' \in LockCommand, item' = Absent,
         cache' \in [Upstreams -> [manifest : Nat \cup {Absent}, data : LockSnapshot \cup {Absent}]],
         UNCHANGED <<references, dependencies, published, tool, lockfile, result>>,
         NEW kind \in {"reference", "dependency"}, NEW id \in Upstreams, NEW new \in SUBSET LockRow,
         \A r \in new : r.kind = kind /\ r.id = id, GoodRows(new),
         command'.rows = command.rows \cup new, command'.existing = command.existing,
         command'.update = command.update,
         \A r \in command.rows : r.id # id,
         \A k \in {"reference", "dependency"}, i \in Upstreams :
           Settled(k, i)' <=> Settled(k, i) \/ (k = kind /\ i = id),
         ~command'.warned =>
           ~command.warned /\ new # {} /\ \A r \in new : r.snapshot = Absent \/ Intact(r)',
         ~command'.faulted =>
           /\ ~command.faulted
           /\ \A r \in new : r.kind = "dependency" /\ r.snapshot.format = tool => Intact(r)',
         \A i \in Upstreams \ {id} : cache'[i] = cache[i],
         id \in command.update \/ \A r \in RowsOf(command.existing, kind, id) :
           r.snapshot # Absent => r \in new,
         Queued'
  PROVE  LockInv'
<1>1. /\ command.rows \in SUBSET LockRow /\ command' # Absent /\ command'.rows \in SUBSET LockRow
      /\ \A r \in LockRow : r.kind \in {"reference", "dependency"} /\ r.id \in Upstreams
      /\ command.existing \in SUBSET LockRow
  BY CommandFields, LockAssumption DEF LockRow, LockCommand
<1>2. LockTypeOK'
  BY DEF LockInv, LockTypeOK
<1>3. Idle' /\ LockHolds' /\ ItemIsSound'
  BY <1>1 DEF LockInv, Idle, LockHolds, CleanIsIntact, RepairsCache, PinsStay, ItemIsSound
<1>4. RowsAreGood'
  <2>1. GoodRows(command.rows \cup new)
    BY DEF LockInv, RowsAreGood, GoodRows
  <2> QED
    BY <2>1 DEF LockInv, RowsAreGood, GoodRows, Rows
<1>5. RowsAreSettled'
  <2>1. \A r \in command.rows \cup new : Settled(r.kind, r.id)'
    <3> TAKE r \in command.rows \cup new
    <3>1. r.kind \in {"reference", "dependency"} /\ r.id \in Upstreams
      BY <1>1
    <3>2. r \in command.rows => Settled(r.kind, r.id)
      BY DEF LockInv, RowsAreSettled
    <3> QED
      BY <3>1, <3>2
  <2>2. ASSUME NEW k \in {"reference", "dependency"}, NEW i \in Upstreams, Settled(k, i)',
               ~command'.warned
        PROVE  \E r \in command.rows \cup new : r.id = i
    <3>1. CASE Settled(k, i)
      BY <2>2, <3>1 DEF LockInv, RowsAreSettled
    <3>2. CASE k = kind /\ i = id
      BY <2>2, <3>2
    <3> QED
      BY <2>2, <3>1, <3>2
  <2> QED
    BY <2>1, <2>2 DEF RowsAreSettled
<1>6. RowsAreIntact'
  <2>1. \A r \in command.rows : Intact(r)' <=> Intact(r)
    BY <1>1 DEF Intact
  <2>2. ~command'.warned => \A r \in command.rows \cup new : r.snapshot = Absent \/ Intact(r)'
    BY <2>1 DEF LockInv, RowsAreIntact
  <2>3. ~command'.faulted => \A r \in command.rows \cup new :
          r.kind = "dependency" /\ r.snapshot.format = tool => Intact(r)'
    BY <2>1 DEF LockInv, RowsAreIntact
  <2> QED
    BY <2>2, <2>3 DEF RowsAreIntact
<1>7. PinsAreKept'
  <2>1. ASSUME NEW r \in command.existing, r.snapshot # Absent, r.id \notin command.update,
               Settled(r.kind, r.id)'
        PROVE  r \in command.rows \cup new
    <3>1. r.kind \in {"reference", "dependency"} /\ r.id \in Upstreams
      BY <1>1
    <3>2. CASE Settled(r.kind, r.id)
      BY <2>1, <3>2 DEF LockInv, PinsAreKept
    <3>3. CASE r.kind = kind /\ r.id = id
      BY <2>1, <3>3 DEF RowsOf
    <3> QED
      BY <2>1, <3>1, <3>2, <3>3
  <2> QED
    BY <2>1 DEF PinsAreKept
<1> QED
  BY <1>2, <1>3, <1>4, <1>5, <1>6, <1>7 DEF LockInv

\* Rows of one upstream are good: a part of the rows of before.
LEMMA PinsAreGood ==
  ASSUME LockInv, command # Absent, NEW kind, NEW id
  PROVE  /\ RowsOf(command.existing, kind, id) \in SUBSET LockRow
         /\ \A r \in RowsOf(command.existing, kind, id) : r.kind = kind /\ r.id = id
         /\ GoodRows(RowsOf(command.existing, kind, id))
         /\ \A r, q \in RowsOf(command.existing, kind, id) : r = q
<1>1. GoodRows(command.existing)
  BY DEF LockInv, RowsAreGood
<1> QED
  BY <1>1, CommandFields DEF RowsOf, GoodRows

\* The next upstream, from the front of what is left: it is kept, or begun.
LEMMA Taken ==
  ASSUME LockInv, command # Absent, item = Absent, NEW kind \in {"reference", "dependency"},
         NEW id \in Upstreams, NEW rest \in LockCommand,
         rest.rows = command.rows, rest.existing = command.existing, rest.update = command.update,
         rest.warned = command.warned, rest.faulted = command.faulted,
         Take(kind, id, rest),
         UNCHANGED <<references, dependencies, published, tool, lockfile, cache, runs, result>>,
         NoRepeat(rest.refs), Left(rest.refs) \subseteq references,
         NoRepeat(rest.deps), Left(rest.deps) \subseteq dependencies,
         kind = "reference" =>
           /\ id \in references \ Left(rest.refs) /\ Left(command.refs) = Left(rest.refs) \cup {id}
           /\ Left(rest.deps) = Left(command.deps),
         kind = "dependency" =>
           /\ id \in (dependencies \ references) \ Left(rest.deps)
           /\ Left(command.deps) = Left(rest.deps) \cup {id}
           /\ Left(rest.refs) = Left(command.refs)
  PROVE  LockInv'
<1> DEFINE pins == RowsOf(command.existing, kind, id)
<1>1. /\ pins \in SUBSET LockRow /\ GoodRows(pins)
      /\ \A r \in pins : r.kind = kind /\ r.id = id
      /\ \A r, q \in pins : r = q
  BY PinsAreGood
<1>2. \A r \in command.rows : r.id # id
  <2>1. \A r \in command.rows : Settled(r.kind, r.id) /\ r.kind \in {"reference", "dependency"}
    BY CommandFields DEF LockInv, RowsAreSettled, LockRow
  <2> QED
    BY <2>1 DEF Settled
<1>3. rest # Absent /\ rest.rows \in SUBSET LockRow /\ rest.warned \in BOOLEAN /\ rest.faulted \in BOOLEAN
  BY LockAssumption DEF LockCommand
<1>4. CASE Kept(kind, id)
  <2> DEFINE to == [rest EXCEPT !.rows = @ \cup pins]
  <2>1. command' = to /\ item' = Absent
    BY <1>4 DEF Take
  <2>2. /\ to \in LockCommand /\ to.rows = command.rows \cup pins /\ to.existing = command.existing
        /\ to.update = command.update /\ to.warned = command.warned /\ to.faulted = command.faulted
        /\ to.refs = rest.refs /\ to.deps = rest.deps
    BY <1>1, <1>3 DEF LockCommand
  <2> HIDE DEF to
  <2>3. \A k \in {"reference", "dependency"}, i \in Upstreams :
          Settled(k, i)' <=> Settled(k, i) \/ (k = kind /\ i = id)
    BY <2>1, <2>2 DEF Settled
  <2>4. \E r \in pins : id \notin command.update /\ Intact(r)
    BY <1>4 DEF Kept
  <2>5. pins # {} /\ \A r \in pins : Intact(r)'
    BY <1>1, <2>4 DEF Intact
  <2>6. Queued'
    BY <2>1, <2>2 DEF Queued
  <2>7. cache' \in [Upstreams -> [manifest : Nat \cup {Absent}, data : LockSnapshot \cup {Absent}]]
    BY LockTypes
  <2> HIDE DEF pins
  <2>8. id \in command.update \/ \A r \in RowsOf(command.existing, kind, id) : r.snapshot # Absent => r \in pins
    BY DEF pins
  <2>9. /\ ~command'.warned => ~command.warned /\ pins # {} /\ \A r \in pins : r.snapshot = Absent \/ Intact(r)'
        /\ ~command'.faulted =>
             /\ ~command.faulted
             /\ \A r \in pins : r.kind = "dependency" /\ r.snapshot.format = tool => Intact(r)'
    BY <2>1, <2>2, <2>5
  <2> QED
    BY <1>1, <1>2, <2>1, <2>2, <2>3, <2>6, <2>7, <2>8, <2>9, OneSettled
<1>5. CASE ~Kept(kind, id)
  <2> DEFINE begun == [kind |-> kind, id |-> id, mode |-> ModeOf(kind, id), at |-> "acquire",
                       manifest |-> Absent, data |-> Absent]
  <2>1. command' = rest /\ item' = begun
    BY <1>5 DEF Take, Begin
  <2>2. /\ begun \in LockItem /\ begun # Absent /\ begun.kind = kind /\ begun.id = id
        /\ begun.mode = ModeOf(kind, id) /\ begun.at = "acquire"
    <3>1. ModeOf(kind, id) \in {"fresh", "restore"}
      BY DEF ModeOf
    <3>2. begun \in LockItem
      BY <3>1 DEF LockItem
    <3> QED
      BY <3>2, LockAssumption
  <2> HIDE DEF begun
  <2>3. \A k \in {"reference", "dependency"}, i \in Upstreams : Settled(k, i)' <=> Settled(k, i)
    BY <2>1, <2>2 DEF Settled
  <2>4. Queued'
    BY <2>1, <2>2 DEF Queued
  <2>5. ItemIsSound'
    <3>1. ModeOf(kind, id) = IF RowsOf(command.existing, kind, id) # {} /\ id \notin command.update
                               THEN "restore" ELSE "fresh"
      BY DEF ModeOf
    <3>2. item'.mode = ModeOf(item.kind, item.id)'
      BY <2>1, <2>2, <3>1 DEF ModeOf, RowsOf
    <3> QED
      BY <2>1, <2>2, <3>2 DEF ItemIsSound
  <2>6. cache' \in [Upstreams -> [manifest : Nat \cup {Absent}, data : LockSnapshot \cup {Absent}]]
    BY LockTypes
  <2> QED
    BY <2>1, <2>2, <2>3, <2>4, <2>5, <2>6, NothingSettled
<1> QED
  BY <1>4, <1>5

LEMMA NextReferenceKeeps == ASSUME LockInv, NextReference PROVE LockInv'
<1> DEFINE rest == [command EXCEPT !.refs = Tail(@)]
           id == Head(command.refs)
<1>1. command # Absent /\ item = Absent /\ command.refs # <<>> /\ Take("reference", id, rest)
  BY DEF NextReference, Working
<1>2. command \in LockCommand /\ command.refs \in Seq(Upstreams)
  BY <1>1, LockTypes DEF LockCommand
<1>3. NoRepeat(command.refs) /\ Left(command.refs) \subseteq references
      /\ NoRepeat(command.deps) /\ Left(command.deps) \subseteq dependencies
  BY <1>1 DEF LockInv, Queued
<1>4. /\ id \in Upstreams /\ id \in Left(command.refs) /\ Tail(command.refs) \in Seq(Upstreams)
      /\ NoRepeat(Tail(command.refs)) /\ Left(Tail(command.refs)) = Left(command.refs) \ {id}
  BY <1>1, <1>2, <1>3, HeadLeaves
<1>5. /\ rest \in LockCommand /\ rest.refs = Tail(command.refs) /\ rest.deps = command.deps
      /\ rest.rows = command.rows /\ rest.existing = command.existing /\ rest.update = command.update
      /\ rest.warned = command.warned /\ rest.faulted = command.faulted
  BY <1>2, <1>4 DEF LockCommand
<1> HIDE DEF rest, id
<1>6. UNCHANGED <<references, dependencies, published, tool, lockfile, cache, runs, result>>
  BY DEF NextReference
<1> QED
  BY <1>1, <1>3, <1>4, <1>5, <1>6, Taken

LEMMA NextDependencyKeeps == ASSUME LockInv, NextDependency PROVE LockInv'
<1> DEFINE rest == [command EXCEPT !.deps = Tail(@)]
           id == Head(command.deps)
<1>1. command # Absent /\ item = Absent /\ command.deps # <<>>
  BY DEF NextDependency, Working
<1>2. command \in LockCommand /\ command.deps \in Seq(Upstreams)
  BY <1>1, LockTypes DEF LockCommand
<1>3. NoRepeat(command.refs) /\ Left(command.refs) \subseteq references
      /\ NoRepeat(command.deps) /\ Left(command.deps) \subseteq dependencies
  BY <1>1 DEF LockInv, Queued
<1>4. /\ id \in Upstreams /\ id \in Left(command.deps) /\ Tail(command.deps) \in Seq(Upstreams)
      /\ NoRepeat(Tail(command.deps)) /\ Left(Tail(command.deps)) = Left(command.deps) \ {id}
  BY <1>1, <1>2, <1>3, HeadLeaves
<1>5. /\ rest \in LockCommand /\ rest.deps = Tail(command.deps) /\ rest.refs = command.refs
      /\ rest.rows = command.rows /\ rest.existing = command.existing /\ rest.update = command.update
      /\ rest.warned = command.warned /\ rest.faulted = command.faulted
  BY <1>2, <1>4 DEF LockCommand
<1>6. UNCHANGED <<references, dependencies, published, tool, lockfile, cache, runs, result>>
  BY DEF NextDependency
<1>7. CASE id \notin references
  <2>1. Take("dependency", id, rest)
    BY <1>7 DEF NextDependency
  <2> HIDE DEF rest, id
  <2> QED
    BY <1>1, <1>3, <1>4, <1>5, <1>6, <1>7, <2>1, Taken
<1>8. CASE id \in references
  <2> DEFINE to == [rest EXCEPT !.warned = TRUE]
  <2>1. command' = to /\ item' = item
    BY <1>8 DEF NextDependency
  <2> HIDE DEF rest, id
  <2>2. /\ to \in LockCommand /\ to.deps = rest.deps /\ to.refs = rest.refs /\ to.rows = rest.rows
        /\ to.existing = rest.existing /\ to.update = rest.update /\ to.warned = TRUE
        /\ to.faulted = rest.faulted
    BY <1>5 DEF LockCommand
  <2> HIDE DEF to
  <2>3. \A k \in {"reference", "dependency"}, i \in Upstreams : Settled(k, i)' <=> Settled(k, i)
    BY <1>1, <1>4, <1>5, <1>6, <1>8, <2>1, <2>2 DEF Settled
  <2>4. Queued' /\ ItemIsSound'
    BY <1>1, <1>3, <1>4, <1>5, <1>6, <2>1, <2>2 DEF Queued, ItemIsSound
  <2>5. cache' \in [Upstreams -> [manifest : Nat \cup {Absent}, data : LockSnapshot \cup {Absent}]]
    BY <1>6, LockTypes
  <2> QED
    BY <1>1, <1>5, <1>6, <2>1, <2>2, <2>3, <2>4, <2>5, NothingSettled
<1> QED
  BY <1>7, <1>8

-------------------------------------------------------------------------------
(***************************************************************************)
(* The upstream that is acquired: it moves on, or it is settled.           *)
(***************************************************************************)
LEMMA ItemFields ==
  ASSUME LockInv, item # Absent
  PROVE  /\ command # Absent /\ item \in LockItem
         /\ item.kind \in {"reference", "dependency"} /\ item.id \in Upstreams
         /\ item.manifest \in Nat \cup {Absent} /\ item.data \in LockSnapshot \cup {Absent}
         /\ \A r \in command.rows : r.id # item.id
         /\ item.kind = "reference" => item.id \in references \ Left(command.refs)
         /\ item.kind = "dependency" => item.id \in (dependencies \ references) \ Left(command.deps)
<1>1. command # Absent /\ item \in LockItem
  BY LockTypes DEF LockInv, Idle
<1>2. \A r \in command.rows : r.id # item.id
  BY <1>1 DEF LockInv, RowsAreSettled, Settled
<1> QED
  BY <1>1, <1>2 DEF LockInv, Queued, LockItem

LEMMA ItemMoves ==
  ASSUME LockInv, item # Absent, item' \in LockItem, item'.kind = item.kind, item'.id = item.id,
         cache' \in [Upstreams -> [manifest : Nat \cup {Absent}, data : LockSnapshot \cup {Absent}]],
         UNCHANGED <<references, dependencies, published, tool, lockfile, command, result>>,
         \A i \in Upstreams \ {item.id} : cache'[i] = cache[i],
         ItemIsSound'
  PROVE  LockInv'
<1>1. item' # Absent /\ command # Absent /\ command \in LockCommand
  BY ItemFields, LockTypes, LockAssumption
<1>2. \A kind \in {"reference", "dependency"}, id \in Upstreams : Settled(kind, id)' <=> Settled(kind, id)
  BY <1>1 DEF Settled
<1>3. Queued'
  BY <1>1 DEF LockInv, Queued
<1>4. \A r \in command.rows : cache'[r.id] = cache[r.id]
  BY <1>1, ItemFields, CommandFields DEF LockRow
<1> QED
  BY <1>1, <1>2, <1>3, <1>4, NothingSettled

LEMMA ItemEnds ==
  ASSUME LockInv, item # Absent, item' = Absent, command' \in LockCommand,
         cache' \in [Upstreams -> [manifest : Nat \cup {Absent}, data : LockSnapshot \cup {Absent}]],
         UNCHANGED <<references, dependencies, published, tool, lockfile, result>>,
         NEW new \in SUBSET LockRow,
         \A r \in new : r.kind = item.kind /\ r.id = item.id, GoodRows(new),
         command'.refs = command.refs, command'.deps = command.deps,
         command'.rows = command.rows \cup new, command'.existing = command.existing,
         command'.update = command.update,
         ~command'.warned =>
           ~command.warned /\ new # {} /\ \A r \in new : r.snapshot = Absent \/ Intact(r)',
         ~command'.faulted =>
           /\ ~command.faulted
           /\ \A r \in new : r.kind = "dependency" /\ r.snapshot.format = tool => Intact(r)',
         \A i \in Upstreams \ {item.id} : cache'[i] = cache[i],
         item.id \in command.update \/ \A r \in Pins : r.snapshot # Absent => r \in new
  PROVE  LockInv'
<1> DEFINE kind == item.kind
           id == item.id
<1>1. /\ command # Absent /\ kind \in {"reference", "dependency"} /\ id \in Upstreams
      /\ \A r \in command.rows : r.id # id
      /\ kind = "reference" => id \in references \ Left(command.refs)
      /\ kind = "dependency" => id \in (dependencies \ references) \ Left(command.deps)
  BY ItemFields
<1>2. \A k \in {"reference", "dependency"}, i \in Upstreams :
        Settled(k, i)' <=> Settled(k, i) \/ (k = kind /\ i = id)
  BY <1>1 DEF Settled
<1>3. Queued'
  BY <1>1 DEF LockInv, Queued
<1>4. id \in command.update \/ \A r \in RowsOf(command.existing, kind, id) : r.snapshot # Absent => r \in new
  BY DEF Pins
<1>5. \A r \in new : r.kind = kind /\ r.id = id
  OBVIOUS
<1>6. \A i \in Upstreams \ {id} : cache'[i] = cache[i]
  OBVIOUS
<1> HIDE DEF kind, id
<1> QED
  BY <1>1, <1>2, <1>3, <1>4, <1>5, <1>6, OneSettled

LEMMA FetchManifestKeeps == ASSUME LockInv, FetchManifest PROVE LockInv'
<1> DEFINE to == [item EXCEPT !.manifest = published[item.id], !.at = "data"]
<1>1. /\ item # Absent /\ item' = to /\ item.kind = "reference"
      /\ UNCHANGED <<references, dependencies, published, tool, lockfile, cache, command, result>>
  BY DEF FetchManifest, Acquiring
<1>2. item \in LockItem /\ published[item.id] \in Nat
  BY <1>1, ItemFields, LockTypes
<1>3. /\ to \in LockItem /\ to.kind = item.kind /\ to.id = item.id /\ to.mode = item.mode
      /\ to.manifest = published[item.id] /\ to.at = "data"
  BY <1>2 DEF LockItem
<1> HIDE DEF to
<1>4. ItemIsSound'
  BY <1>1, <1>2, <1>3 DEF LockInv, ItemIsSound, ModeOf, RowsOf
<1> QED
  BY <1>1, <1>3, <1>4, LockTypes, ItemMoves

LEMMA ResolveIntentKeeps == ASSUME LockInv, ResolveIntent PROVE LockInv'
<1>1. /\ item # Absent /\ item.kind = "dependency" /\ item \in LockItem /\ item.id \in Upstreams
      /\ command # Absent
      /\ UNCHANGED <<references, dependencies, published, tool, lockfile, cache, command, result>>
  BY ItemFields DEF ResolveIntent, Acquiring
<1>2. PICK commit \in IF item.mode = "restore" THEN {r.version : r \in Pins} ELSE {published[item.id]} :
        item' = [item EXCEPT !.manifest = commit, !.at = "data"]
  BY DEF ResolveIntent
<1>3. Pins \in SUBSET LockRow
  BY <1>1, PinsAreGood DEF Pins
<1>4. commit \in Nat /\ (item.mode = "restore" => \E r \in Pins : commit = r.version)
  BY <1>1, <1>2, <1>3, LockTypes DEF LockRow
<1> DEFINE to == [item EXCEPT !.manifest = commit, !.at = "data"]
<1>5. /\ to \in LockItem /\ to.kind = item.kind /\ to.id = item.id /\ to.mode = item.mode
      /\ to.manifest = commit /\ to.at = "data"
  BY <1>1, <1>4 DEF LockItem
<1>6. item' = to
  BY <1>2
<1> HIDE DEF to
<1>7. ItemIsSound'
  BY <1>1, <1>4, <1>5, <1>6 DEF LockInv, ItemIsSound, ModeOf, RowsOf, Pins
<1> QED
  BY <1>1, <1>5, <1>6, <1>7, LockTypes, ItemMoves

\* What was fetched differs from the pin of a dependency only if another markspec
\* compiled the pin: then nothing is said of its cache.
LEMMA FetchDataKeeps == ASSUME LockInv, FetchData PROVE LockInv'
<1>1. item # Absent /\ item.at = "data" /\ UNCHANGED <<references, dependencies, published, tool, lockfile, cache, result>>
  BY DEF FetchData, Acquiring, Warn
<1>2. /\ item \in LockItem /\ item.id \in Upstreams /\ command # Absent
      /\ published[item.id] \in Nat /\ tool \in Nat
      /\ item.manifest \in Nat /\ item.mode = ModeOf(item.kind, item.id)
      /\ item.kind = "dependency" /\ item.mode = "restore" => \E r \in Pins : item.manifest = r.version
  BY <1>1, ItemFields, LockTypes DEF LockInv, ItemIsSound
<1>3. /\ Pins \in SUBSET LockRow /\ GoodRows(Pins) /\ \A r \in Pins : r.kind = item.kind /\ r.id = item.id
      /\ \A r, q \in Pins : r = q
  BY <1>2, PinsAreGood DEF Pins
<1>4. Fetched \in LockSnapshot /\ (item.kind = "dependency" => Fetched = DepSnapshot(item.manifest))
  BY <1>2 DEF Fetched, RefSnapshot, DepSnapshot, LockSnapshot, LockItem
<1>5. CASE ~Differs(Fetched)
  <2> DEFINE to == [item EXCEPT !.data = Fetched, !.at = "manifest"]
  <2>1. item' = to /\ command' = command
    BY <1>5 DEF FetchData
  <2>2. /\ to \in LockItem /\ to.kind = item.kind /\ to.id = item.id /\ to.mode = item.mode
        /\ to.manifest = item.manifest /\ to.at = "manifest" /\ to.data = Fetched
    BY <1>2, <1>4 DEF LockItem
  <2> HIDE DEF to
  <2>3. item.mode = "restore" => \A r \in Pins : r.snapshot \in {Absent, Fetched}
    BY <1>5 DEF Differs
  <2>4. ItemIsSound'
    <3>1. Pins' = Pins /\ ModeOf(item.kind, item.id)' = ModeOf(item.kind, item.id)
      BY <2>1, <2>2 DEF Pins, RowsOf, ModeOf
    <3>2. DepSnapshot(item.manifest)' = DepSnapshot(item.manifest)
      BY <1>1, <2>1, <2>2 DEF DepSnapshot
    <3> QED
      BY <1>2, <1>4, <2>1, <2>2, <2>3, <3>1, <3>2 DEF ItemIsSound
  <2> QED
    BY <1>1, <2>1, <2>2, <2>4, LockTypes, ItemMoves
<1>6. CASE Differs(Fetched)
  <2> DEFINE to == [command EXCEPT !.rows = @ \cup Pins, !.warned = @ \/ TRUE]
  <2>1. command' = to /\ item' = Absent
    BY <1>6 DEF FetchData, Warn, Settle
  <2>2. /\ to \in LockCommand /\ to.refs = command.refs /\ to.deps = command.deps
        /\ to.rows = command.rows \cup Pins /\ to.existing = command.existing
        /\ to.update = command.update /\ to.warned /\ to.faulted = command.faulted
    <3>1. command \in LockCommand
      BY <1>2, LockTypes
    <3> QED
      BY <1>3, <3>1 DEF LockCommand
  <2> HIDE DEF to
  <2>3. ASSUME NEW r \in Pins, r.kind = "dependency", r.snapshot.format = tool PROVE FALSE
    <3>1. r.snapshot # Absent /\ r.snapshot.version = r.version /\ r.snapshot \in LockSnapshot
      BY <1>3, <2>3 DEF GoodRows, LockRow
    <3>2. r.snapshot = DepSnapshot(r.version)
      BY <2>3, <3>1 DEF LockSnapshot, DepSnapshot
    <3>3. item.mode = "restore" /\ \E q \in Pins : q.snapshot \notin {Absent, Fetched}
      BY <1>6 DEF Differs
    <3>4. item.manifest = r.version /\ r.snapshot # Fetched
      BY <1>2, <1>3, <2>3, <3>3
    <3> QED
      BY <1>3, <1>4, <2>3, <3>2, <3>4
  <2>4. command.faulted \in BOOLEAN /\ GoodRows(Pins)
    BY <1>2, <1>3, CommandFields
  <2> QED
    BY <1>1, <1>3, <2>1, <2>2, <2>3, <2>4, LockTypes, ItemEnds
<1> QED
  BY <1>5, <1>6

LEMMA WriteManifestKeeps == ASSUME LockInv, WriteManifest PROVE LockInv'
<1>1. /\ item # Absent /\ item.at = "manifest" /\ item \in LockItem /\ item.id \in Upstreams
      /\ cache' = [cache EXCEPT ![item.id].manifest = item.manifest]
      /\ item' = [item EXCEPT !.at = "cached"]
      /\ UNCHANGED <<references, dependencies, published, tool, lockfile, command, result>>
  BY ItemFields DEF WriteManifest, Acquiring
<1>2. /\ item' \in LockItem /\ item'.kind = item.kind /\ item'.id = item.id /\ item'.mode = item.mode
      /\ item'.manifest = item.manifest /\ item'.data = item.data /\ item'.at = "cached"
  BY <1>1 DEF LockItem
<1>3. /\ cache' \in [Upstreams -> [manifest : Nat \cup {Absent}, data : LockSnapshot \cup {Absent}]]
      /\ cache'[item.id].manifest = item.manifest
      /\ \A i \in Upstreams \ {item.id} : cache'[i] = cache[i]
  BY <1>1, LockTypes, ItemFields
<1>4. ItemIsSound'
  <2>1. Pins' = Pins /\ ModeOf(item.kind, item.id)' = ModeOf(item.kind, item.id)
        /\ DepSnapshot(item.manifest)' = DepSnapshot(item.manifest)
    BY <1>1, <1>2 DEF Pins, RowsOf, ModeOf, DepSnapshot
  <2> QED
    BY <1>1, <1>2, <1>3, <2>1 DEF LockInv, ItemIsSound
<1> QED
  BY <1>1, <1>2, <1>3, <1>4, ItemMoves

\* What is written last is the data of the row: the pin that was restored, or the new row.
LEMMA WriteDataKeeps == ASSUME LockInv, WriteData PROVE LockInv'
<1> DEFINE new == IF item.mode = "restore" /\ \A r \in Pins : r.snapshot # Absent THEN Pins ELSE {NewRow}
           to == [command EXCEPT !.rows = @ \cup new, !.warned = @ \/ FALSE]
<1>1. /\ item # Absent /\ item.at = "cached" /\ item \in LockItem /\ item.id \in Upstreams
      /\ item.kind \in {"reference", "dependency"} /\ command \in LockCommand /\ command # Absent
      /\ cache' = [cache EXCEPT ![item.id].data = item.data] /\ command' = to /\ item' = Absent
      /\ UNCHANGED <<references, dependencies, published, tool, lockfile, result>>
  BY ItemFields, LockTypes DEF WriteData, Acquiring, Settle
<1>2. /\ item.mode = ModeOf(item.kind, item.id) /\ item.manifest \in Nat /\ item.data \in LockSnapshot
      /\ item.kind = "dependency" => item.data = DepSnapshot(item.manifest)
      /\ item.mode = "restore" => \A r \in Pins : r.snapshot \in {Absent, item.data}
      /\ cache[item.id].manifest = item.manifest
  BY <1>1 DEF LockInv, ItemIsSound
<1>3. /\ Pins \in SUBSET LockRow /\ GoodRows(Pins) /\ \A r \in Pins : r.kind = item.kind /\ r.id = item.id
      /\ \A r, q \in Pins : r = q
  BY <1>1, PinsAreGood DEF Pins
<1>4. /\ cache' \in [Upstreams -> [manifest : Nat \cup {Absent}, data : LockSnapshot \cup {Absent}]]
      /\ cache'[item.id].manifest # Absent /\ cache'[item.id].data = item.data /\ item.data # Absent
      /\ \A i \in Upstreams \ {item.id} : cache'[i] = cache[i]
  BY <1>1, <1>2, LockTypes, LockAssumption
<1>5. \A r : r.id = item.id /\ r.snapshot = item.data => Intact(r)'
  BY <1>4 DEF Intact
<1>6. /\ NewRow \in LockRow /\ NewRow.kind = item.kind /\ NewRow.id = item.id
      /\ NewRow.snapshot = item.data /\ NewRow.version = item.manifest
  BY <1>1, <1>2 DEF NewRow, Row, LockRow
<1>7. GoodRows({NewRow})
  BY <1>2, <1>4, <1>6 DEF GoodRows, DepSnapshot
<1>8. /\ new \in SUBSET LockRow /\ \A r \in new : r.kind = item.kind /\ r.id = item.id
      /\ GoodRows(new) /\ \A r \in new : Intact(r)'
  BY <1>2, <1>3, <1>5, <1>6, <1>7
<1>9. new # {} /\ (item.id \in command.update \/ \A r \in Pins : r.snapshot # Absent => r \in new)
  <2>1. item.mode = "restore" => Pins # {}
    BY <1>2 DEF ModeOf, Pins
  <2>2. item.mode # "restore" => Pins = {} \/ item.id \in command.update
    BY <1>2 DEF ModeOf, Pins
  <2> QED
    BY <1>3, <2>1, <2>2
<1> HIDE DEF new
<1>10. /\ to \in LockCommand /\ to.refs = command.refs /\ to.deps = command.deps
       /\ to.rows = command.rows \cup new /\ to.existing = command.existing
       /\ to.update = command.update /\ to.warned = command.warned /\ to.faulted = command.faulted
  BY <1>1, <1>8 DEF LockCommand
<1> HIDE DEF to
<1> QED
  BY <1>1, <1>4, <1>8, <1>9, <1>10, ItemEnds

LEMMA FailKeeps == ASSUME LockInv, Fail PROVE LockInv'
<1> DEFINE to == [command EXCEPT !.rows = @ \cup Pins, !.warned = TRUE, !.faulted = TRUE]
<1>1. /\ item # Absent /\ command \in LockCommand /\ command # Absent /\ command' = to /\ item' = Absent
      /\ UNCHANGED <<references, dependencies, published, tool, lockfile, cache, result>>
  BY ItemFields, LockTypes DEF Fail
<1>2. /\ Pins \in SUBSET LockRow /\ GoodRows(Pins) /\ \A r \in Pins : r.kind = item.kind /\ r.id = item.id
  BY <1>1, PinsAreGood DEF Pins
<1>3. /\ to \in LockCommand /\ to.refs = command.refs /\ to.deps = command.deps
      /\ to.rows = command.rows \cup Pins /\ to.existing = command.existing
      /\ to.update = command.update /\ to.warned /\ to.faulted
  BY <1>1, <1>2 DEF LockCommand
<1> HIDE DEF to
<1> QED
  BY <1>1, <1>2, <1>3, LockTypes, ItemEnds

-------------------------------------------------------------------------------
(***************************************************************************)
(* The command starts, ends or is killed; and what happens around it.      *)
(***************************************************************************)
LEMMA StartKeeps == ASSUME LockInv, NEW update \in SUBSET Upstreams, Start(update) PROVE LockInv'
<1> DEFINE to == [update |-> update, refs |-> SetToSeq(references), deps |-> SetToSeq(dependencies),
                  existing |-> Rows, rows |-> {}, warned |-> FALSE, faulted |-> FALSE]
<1>1. /\ command = Absent /\ command' = to /\ result' = Absent
      /\ UNCHANGED <<references, dependencies, published, tool, lockfile, cache, item>>
  BY DEF Start
<1>2. item = Absent /\ references \in SUBSET Upstreams /\ dependencies \in SUBSET Upstreams
      /\ Rows \in SUBSET LockRow
  BY <1>1, LockTypes DEF LockInv, Idle
<1>3. IsFiniteSet(references) /\ IsFiniteSet(dependencies)
  BY <1>2, FS_Subset, LockAssumption
<1>4. /\ SetToSeq(references) \in Seq(references) /\ NoRepeat(SetToSeq(references))
      /\ Left(SetToSeq(references)) = references
      /\ SetToSeq(dependencies) \in Seq(dependencies) /\ NoRepeat(SetToSeq(dependencies))
      /\ Left(SetToSeq(dependencies)) = dependencies
  BY <1>3, SetComesAsSequence
<1>5. SetToSeq(references) \in Seq(Upstreams) /\ SetToSeq(dependencies) \in Seq(Upstreams)
  BY <1>2, <1>4
<1>6. to \in LockCommand
  BY <1>2, <1>5 DEF LockCommand
<1>7. /\ to # Absent /\ to.refs = SetToSeq(references) /\ to.deps = SetToSeq(dependencies)
      /\ to.existing = Rows /\ to.rows = {} /\ to.warned = FALSE /\ to.faulted = FALSE
  BY <1>6, LockAssumption
<1> HIDE DEF to
<1>8. LockTypeOK'
  BY <1>1, <1>6 DEF LockInv, LockTypeOK
<1>9. Idle' /\ Queued' /\ ItemIsSound' /\ LockHolds'
  BY <1>1, <1>2, <1>4, <1>7
     DEF Idle, Queued, ItemIsSound, LockHolds, CleanIsIntact, RepairsCache, PinsStay
<1>10. RowsAreGood' /\ RowsAreIntact'
  BY <1>1, <1>7 DEF LockInv, RowsAreGood, RowsAreIntact, GoodRows, Rows
<1>11. \A kind \in {"reference", "dependency"}, id \in Upstreams : ~Settled(kind, id)'
  BY <1>1, <1>4, <1>7 DEF Settled
<1>12. RowsAreSettled' /\ PinsAreKept'
  BY <1>1, <1>2, <1>7, <1>11 DEF RowsAreSettled, PinsAreKept, LockRow
<1> QED
  BY <1>8, <1>9, <1>10, <1>12 DEF LockInv

\* While the lockfile is cut short no result stands.
LEMMA TruncateKeeps == ASSUME LockInv, Truncate PROVE LockInv'
<1>1. /\ command # Absent /\ lockfile' = {Malformed}
      /\ UNCHANGED <<references, dependencies, published, tool, cache, command, item, runs, result>>
  BY DEF Truncate, Acquired, Working
<1>2. LockTypeOK' /\ Idle' /\ Queued'
  BY <1>1 DEF LockInv, LockTypeOK, Idle, Queued
<1>3. RowsAreGood'
  BY <1>1 DEF LockInv, RowsAreGood, GoodRows, Rows
<1>4. RowsAreSettled' /\ RowsAreIntact' /\ PinsAreKept'
  BY <1>1 DEF LockInv, RowsAreSettled, RowsAreIntact, PinsAreKept, Settled, Intact
<1>5. ItemIsSound'
  BY <1>1 DEF LockInv, ItemIsSound, ModeOf, RowsOf, Pins, DepSnapshot
<1>6. LockHolds'
  BY <1>1 DEF LockInv, Idle, LockHolds, CleanIsIntact, RepairsCache, PinsStay
<1> QED
  BY <1>2, <1>3, <1>4, <1>5, <1>6 DEF LockInv

\* With nothing left to take, every upstream declared is settled.
LEMMA WriteLockfileKeeps == ASSUME LockInv, WriteLockfile PROVE LockInv'
<1>1. /\ command # Absent /\ item = Absent /\ command.refs = <<>> /\ command.deps = <<>>
      /\ lockfile' = command.rows /\ command' = Absent /\ item' = Absent
      /\ result' = [clean |-> ~command.warned, faulted |-> command.faulted,
                    update |-> command.update, existing |-> command.existing]
      /\ UNCHANGED <<references, dependencies, published, tool, cache>>
  BY DEF WriteLockfile, Acquired, Working
<1>2. /\ command.rows \in SUBSET LockRow /\ command.existing \in SUBSET LockRow
      /\ command.warned \in BOOLEAN /\ command.faulted \in BOOLEAN
      /\ \A r \in LockRow : r.kind \in {"reference", "dependency"} /\ r.id \in Upstreams
  BY <1>1, CommandFields DEF LockRow
<1>3. /\ result'.clean = ~command.warned /\ result'.faulted = command.faulted
      /\ result'.update = command.update /\ result'.existing = command.existing
  BY <1>1
<1>4. Rows' = command.rows
  BY <1>1, <1>2, LockAssumption DEF Rows
<1>5. /\ \A id \in Upstreams : Settled("reference", id) <=> id \in references
      /\ \A id \in Upstreams : Settled("dependency", id) <=> id \in dependencies \ references
  BY <1>1 DEF Settled, Left
<1>6. GoodRows(command.rows)
  BY <1>1 DEF LockInv, RowsAreGood
<1>7. LockTypeOK' /\ Idle' /\ Queued' /\ RowsAreSettled' /\ RowsAreIntact' /\ PinsAreKept' /\ ItemIsSound'
  BY <1>1, <1>2 DEF LockInv, LockTypeOK, Idle, Queued, RowsAreSettled, RowsAreIntact, PinsAreKept, ItemIsSound
<1>8. RowsAreGood'
  BY <1>1, <1>4, <1>6 DEF RowsAreGood, GoodRows
<1>9. \A r \in LockRow : Intact(r)' <=> Intact(r)
  BY <1>1 DEF Intact
<1>10. ~command.warned =>
         /\ \A r \in command.rows : r.snapshot = Absent \/ Intact(r)'
         /\ {r.id : r \in command.rows} = references \cup dependencies
         /\ \A r, q \in command.rows : r.id = q.id => r = q
  <2> SUFFICES ASSUME ~command.warned
               PROVE  /\ \A r \in command.rows : r.snapshot = Absent \/ Intact(r)'
                      /\ {r.id : r \in command.rows} = references \cup dependencies
                      /\ \A r, q \in command.rows : r.id = q.id => r = q
    OBVIOUS
  <2>1. \A r \in command.rows : r.snapshot = Absent \/ Intact(r)'
    BY <1>1, <1>2, <1>9 DEF LockInv, RowsAreIntact
  <2>2. \A r \in command.rows : r.id \in references \cup dependencies
    BY <1>1, <1>2, <1>5 DEF LockInv, RowsAreSettled
  <2>3. \A id \in references \cup dependencies : \E r \in command.rows : r.id = id
    <3> TAKE id \in references \cup dependencies
    <3>1. id \in Upstreams
      BY LockTypes
    <3>2. Settled("reference", id) \/ Settled("dependency", id)
      BY <1>5, <3>1
    <3> QED
      BY <1>1, <3>1, <3>2 DEF LockInv, RowsAreSettled
  <2> QED
    BY <1>6, <2>1, <2>2, <2>3 DEF GoodRows
<1>11. CleanIsIntact'
  <2>1. (result # Absent /\ result.clean)' =>
          /\ CachePasses'
          /\ {r.id : r \in Rows'} = (references \cup dependencies)'
          /\ \A r, q \in Rows' : r.id = q.id => r = q
    BY <1>1, <1>3, <1>4, <1>10 DEF CachePasses
  <2>2. RepairsCache'
    BY <1>1, <1>2, <1>3, <1>4, <1>9 DEF LockInv, RowsAreIntact, RepairsCache
  <2> QED
    BY <2>1, <2>2 DEF CleanIsIntact
<1>12. PinsStay'
  <2>1. ASSUME NEW r \in command.existing, r.snapshot # Absent, r.id \notin command.update,
               r.id \in (IF r.kind = "reference" THEN references ELSE dependencies \ references)
        PROVE  r \in command.rows
    <3>1. Settled(r.kind, r.id)
      BY <1>2, <1>5, <2>1
    <3> QED
      BY <1>1, <2>1, <3>1 DEF LockInv, PinsAreKept
  <2> QED
    BY <1>1, <1>3, <1>4, <2>1 DEF PinsStay
<1> QED
  BY <1>7, <1>8, <1>11, <1>12 DEF LockInv, LockHolds

\* No command is at work and none has ended: only the rows are said of.
LEMMA NothingAtWork ==
  ASSUME LockInv, command' = Absent, item' = Absent, result' = Absent, lockfile' = lockfile, LockTypeOK'
  PROVE  LockInv'
<1>1. RowsAreGood'
  BY DEF LockInv, RowsAreGood, GoodRows, Rows
<1>2. Idle' /\ Queued' /\ RowsAreSettled' /\ RowsAreIntact' /\ PinsAreKept' /\ ItemIsSound' /\ LockHolds'
  BY DEF Idle, Queued, RowsAreSettled, RowsAreIntact, PinsAreKept, ItemIsSound,
         LockHolds, CleanIsIntact, RepairsCache, PinsStay
<1> QED
  BY <1>1, <1>2 DEF LockInv

LEMMA PublishKeeps ==
  ASSUME LockInv, published' \in [Upstreams -> Nat],
         UNCHANGED <<references, dependencies, tool, lockfile, cache, command, item, result>>
  PROVE  LockInv'
<1>1. LockTypeOK' /\ Idle' /\ Queued'
  BY DEF LockInv, LockTypeOK, Idle, Queued
<1>2. RowsAreGood' /\ RowsAreSettled' /\ RowsAreIntact' /\ PinsAreKept'
  BY DEF LockInv, RowsAreGood, RowsAreSettled, RowsAreIntact, PinsAreKept, GoodRows, Rows, Settled, Intact
<1>3. ItemIsSound'
  BY DEF LockInv, ItemIsSound, ModeOf, RowsOf, Pins, DepSnapshot
<1>4. LockHolds'
  BY DEF LockInv, LockHolds, CleanIsIntact, CachePasses, RepairsCache, PinsStay, Rows, Intact
<1> QED
  BY <1>1, <1>2, <1>3, <1>4 DEF LockInv

LEMMA AroundKeeps ==
  ASSUME LockInv, Kill \/ (\E id \in Upstreams : Publish(id)) \/ Upgrade \/ Edit \/ CleanCheckout
  PROVE  LockInv'
<1>1. CASE Kill
  <2>1. LockTypeOK'
    BY <1>1 DEF LockInv, LockTypeOK, Kill
  <2> QED
    BY <1>1, <2>1, NothingAtWork DEF Kill
<1>2. ASSUME NEW id \in Upstreams, Publish(id) PROVE LockInv'
  <2>1. published' \in [Upstreams -> Nat]
    BY <1>2, LockTypes DEF Publish
  <2> QED
    BY <1>2, <2>1, PublishKeeps DEF Publish
<1>3. CASE Upgrade
  <2>1. LockTypeOK' /\ item = Absent
    BY <1>3 DEF LockInv, LockTypeOK, Upgrade, Idle
  <2> QED
    BY <1>3, <2>1, NothingAtWork DEF Upgrade
<1>4. CASE Edit
  <2>1. LockTypeOK' /\ item = Absent
    BY <1>4 DEF LockInv, LockTypeOK, Edit, Idle
  <2> QED
    BY <1>4, <2>1, NothingAtWork DEF Edit
<1>5. CASE CleanCheckout
  <2>1. LockTypeOK' /\ item = Absent
    BY <1>5 DEF LockInv, LockTypeOK, CleanCheckout, Idle
  <2> QED
    BY <1>5, <2>1, NothingAtWork DEF CleanCheckout
<1> QED
  BY <1>1, <1>2, <1>3, <1>4, <1>5

LEMMA LockStep == LockInv /\ [LockNext]_lockVars => LockInv'
<1> SUFFICES ASSUME LockInv, [LockNext]_lockVars PROVE LockInv'
  OBVIOUS
<1>1. ASSUME NEW update \in {{}, Upstreams} \cup {{i} : i \in Upstreams}, Start(update) PROVE LockInv'
  <2>1. update \in SUBSET Upstreams
    OBVIOUS
  <2> QED
    BY <1>1, <2>1, StartKeeps
<1>2. CASE UNCHANGED lockVars
  BY <1>2, LockTypes, PublishKeeps DEF lockVars
<1> QED
  BY <1>1, <1>2, NextReferenceKeeps, NextDependencyKeeps, FetchManifestKeeps, ResolveIntentKeeps,
     FetchDataKeeps, WriteManifestKeeps, WriteDataKeeps, FailKeeps, TruncateKeeps,
     WriteLockfileKeeps, AroundKeeps DEF LockNext

LEMMA LockStarts == LockInit => LockInv
<1> SUFFICES ASSUME LockInit PROVE LockInv
  OBVIOUS
<1>1. /\ references \in SUBSET Upstreams /\ dependencies \in SUBSET Upstreams
      /\ published = [i \in Upstreams |-> 1] /\ tool = 1
      /\ cache = [i \in Upstreams |-> [manifest |-> Absent, data |-> Absent]]
      /\ command = Absent /\ item = Absent /\ result = Absent
  BY DEF LockInit
<1>2. PICK legacy \in {{}, references} : lockfile = {Row("reference", i, 1, Absent) : i \in legacy}
  BY DEF LockInit
<1>3. \A r \in lockfile : \E i \in Upstreams : r = Row("reference", i, 1, Absent)
  BY <1>1, <1>2
<1>4. \A i \in Upstreams : /\ Row("reference", i, 1, Absent) \in LockRow
                           /\ Row("reference", i, 1, Absent).kind = "reference"
                           /\ Row("reference", i, 1, Absent).id = i
  BY DEF Row, LockRow
<1>5. LockTypeOK
  BY <1>1, <1>3, <1>4 DEF LockTypeOK
<1>6. RowsAreGood
  BY <1>1, <1>3, <1>4 DEF RowsAreGood, GoodRows, Rows
<1>7. Idle /\ Queued /\ RowsAreSettled /\ RowsAreIntact /\ PinsAreKept /\ ItemIsSound /\ LockHolds
  BY <1>1 DEF Idle, Queued, RowsAreSettled, RowsAreIntact, PinsAreKept, ItemIsSound,
              LockHolds, CleanIsIntact, RepairsCache, PinsStay
<1> QED
  BY <1>5, <1>6, <1>7 DEF LockInv

\* What a lock leaves holds: after a command that warned of nothing the cache is
\* what the rows say and every upstream has one row, what was left half done in the
\* cache of a dependency is repaired, and a pin moves only when it is told to.
THEOREM LocksHold == LockSpec => []LockHolds
<1>1. LockInv => LockHolds
  BY DEF LockInv
<1> QED
  BY <1>1, LockStarts, LockStep, PTL DEF LockSpec

-------------------------------------------------------------------------------
(***************************************************************************)
(* ChecksPass and KeepsLinks: the references that fmt and lock heal, for   *)
(* any files, names and commands.  A file that fmt has done has nothing    *)
(* left to rewrite: a display ID of the index is never rewritten, and what *)
(* fmt writes is one (CanonicalIs).  The index of fmt is that of its       *)
(* begin.  What is stamped since is pointed at by nobody, for a ULID shows *)
(* only when it is stamped, and the ledger has no row for what had none    *)
(* (UnstampedIsUnknown): so the index that the gate builds afterwards      *)
(* gives nothing new to rewrite.  Nor does the ledger of a lock after it:  *)
(* its targets are what the names resolve to now.                          *)
(***************************************************************************)
CorpusFits ==
  \A s, t \in DOMAIN corpus :
    /\ corpus[s].name = corpus[t].name \/ corpus[s].ulid = corpus[t].ulid => s = t
    /\ corpus[s].ulid <= written
    /\ corpus[s].ref \in Ulids => corpus[s].ref <= written

LedgerFits ==
  \A x, y \in ledger :
    /\ x.source = y.source /\ x.token = y.token => x = y
    /\ x.source <= written /\ x.target <= written
    /\ x.token \in Ulids => x.target \in {x.token, NoUlid}

\* No reference and no row of the ledger points at the ULID.
Unpointed(u) == (\A t \in DOMAIN corpus : corpus[t].ref # u) /\ \A row \in ledger : row.target # u

UnstampedIsUnknown ==
  \A s \in DOMAIN corpus :
    ~corpus[s].stamped =>
      /\ \A t \in DOMAIN corpus : corpus[t].ref # corpus[s].ulid
      /\ \A row \in ledger : row.source # corpus[s].ulid /\ row.target # corpus[s].ulid

\* The entry has nothing to heal: CanonicalTarget has nothing for it (TargetIs).
Healed(s, index) ==
  /\ corpus[s].stamped
  /\ \A r \in index :
       /\ r.ulid # corpus[s].ref
       /\ \A row \in ledger :
            row.source = corpus[s].ulid /\ row.token = corpus[s].ref /\ row.target = r.ulid =>
              \E x \in index : x.name = corpus[s].ref

CalmFmtFits ==
  fmt.at # "idle" /\ fmt.calm =>
    /\ fmt.at = "files" => fmt.ledger = ledger
    /\ fmt.index \subseteq BuildRefIndex
    /\ \A r \in BuildRefIndex : r \in fmt.index \/ Unpointed(r.ulid)
    /\ fmt.whole => \A s \in DOMAIN corpus \ fmt.todo : Healed(s, fmt.index)

SettledFits ==
  /\ settled # "edit" => \A s \in DOMAIN corpus : Healed(s, BuildRefIndex)
  /\ settled = "lock" => EdgeQuads = locked

HealInv ==
  HealTypeOK /\ CorpusFits /\ LedgerFits /\ UnstampedIsUnknown /\ CalmFmtFits /\ SettledFits

-------------------------------------------------------------------------------
LEMMA TokensAre ==
  /\ Names \cap Ulids = {} /\ Blank \notin Tokens /\ NoUlid \notin Tokens /\ NoUlid = 0
  /\ Blank \notin Names /\ Blank # NoUlid /\ Ulids \subseteq Nat /\ \A u \in Ulids : u >= 1 /\ u <= MaxEntries
  /\ MaxEntries \in Nat
BY RefHealingAssumption DEF Ulids, Tokens, NoUlid

\* The entries of the corpus, and the sets made of them.
LEMMA EntryIs ==
  ASSUME CorpusTypeOK, NEW s \in DOMAIN corpus
  PROVE  /\ corpus[s] \in AuthoredEntry /\ corpus[s].ulid \in Ulids /\ corpus[s].name \in Names
         /\ corpus[s].stamped \in BOOLEAN /\ corpus[s].ref \in Tokens \cup {Blank}
<1>1. corpus[s] \in AuthoredEntry
  BY DEF CorpusTypeOK
<1> QED
  BY <1>1 DEF AuthoredEntry

LEMMA AuthoredIs ==
  /\ \A e : e \in Authored <=> \E s \in DOMAIN corpus : e = corpus[s]
  /\ \A e : e \in Authored' <=> \E s \in DOMAIN corpus' : e = corpus'[s]
BY DEF Authored, Range

LEMMA IndexIs ==
  /\ \A r : r \in BuildRefIndex <=>
       \E s \in DOMAIN corpus : corpus[s].stamped /\ r = [name |-> corpus[s].name, ulid |-> corpus[s].ulid]
  /\ \A r : r \in BuildRefIndex' <=>
       \E s \in DOMAIN corpus' : corpus'[s].stamped /\ r = [name |-> corpus'[s].name, ulid |-> corpus'[s].ulid]
BY AuthoredIs DEF BuildRefIndex

LEMMA IndexRows ==
  ASSUME CorpusTypeOK
  PROVE  BuildRefIndex \subseteq RefIndexRow
BY IndexIs, EntryIs DEF RefIndexRow

LEMMA ResolvedIs ==
  /\ \A token, e : e \in Resolved(token) <=>
       \E s \in DOMAIN corpus :
         e = corpus[s] /\ (corpus[s].name = token \/ (corpus[s].stamped /\ corpus[s].ulid = token))
  /\ \A token, e : e \in Resolved(token)' <=>
       \E s \in DOMAIN corpus' :
         e = corpus'[s] /\ (corpus'[s].name = token \/ (corpus'[s].stamped /\ corpus'[s].ulid = token))
BY AuthoredIs DEF Resolved

\* A display ID, and a ULID, resolve to one entry at most.
LEMMA ResolvesToOne ==
  ASSUME CorpusTypeOK, CorpusFits, NEW token \in Tokens, NEW x \in Resolved(token), NEW y \in Resolved(token)
  PROVE  x = y
<1>1. PICK s \in DOMAIN corpus :
        x = corpus[s] /\ (corpus[s].name = token \/ (corpus[s].stamped /\ corpus[s].ulid = token))
  BY ResolvedIs
<1>2. PICK t \in DOMAIN corpus :
        y = corpus[t] /\ (corpus[t].name = token \/ (corpus[t].stamped /\ corpus[t].ulid = token))
  BY ResolvedIs
<1>3. corpus[s].name \in Names /\ corpus[s].ulid \in Ulids /\ corpus[t].name \in Names /\ corpus[t].ulid \in Ulids
  BY EntryIs
<1>4. corpus[s].name = corpus[t].name \/ corpus[s].ulid = corpus[t].ulid
  BY <1>1, <1>2, <1>3, TokensAre
<1>5. s = t
  BY <1>4 DEF CorpusFits
<1> QED
  BY <1>1, <1>2, <1>5

\* What a lock writes: every row is of a stamped entry, and its target is the
\* stamped entry that the reference resolves to, if there is one.
LEMMA EdgeLedgerIs ==
  ASSUME CorpusTypeOK, CorpusFits, NEW row \in EdgeLedger
  PROVE  /\ row \in LockEdge
         /\ \E s \in DOMAIN corpus :
              /\ corpus[s].stamped /\ row.source = corpus[s].ulid /\ row.token = corpus[s].ref
              /\ corpus[s].ref \in Tokens
              /\ row = [source |-> corpus[s].ulid, token |-> corpus[s].ref,
                        target |-> IF \E t \in Resolved(corpus[s].ref) : t.stamped
                                   THEN (CHOOSE t \in Resolved(corpus[s].ref) : TRUE).ulid ELSE NoUlid]
              /\ row.target # NoUlid =>
                   \E t \in DOMAIN corpus :
                     /\ corpus[t].stamped /\ row.target = corpus[t].ulid
                     /\ corpus[t].name = row.token \/ corpus[t].ulid = row.token
<1>1. PICK e \in {x \in Referring : x.stamped} :
        row = [source |-> e.ulid, token |-> e.ref,
               target |-> IF \E t \in Resolved(e.ref) : t.stamped
                          THEN (CHOOSE t \in Resolved(e.ref) : TRUE).ulid ELSE NoUlid]
  BY DEF EdgeLedger
<1>2. PICK s \in DOMAIN corpus : e = corpus[s] /\ e.stamped /\ e.ref # Blank
  BY AuthoredIs DEF Referring
<1>3. e.ref \in Tokens /\ e.ulid \in Ulids
  BY <1>2, EntryIs
<1>4. PICK target : target = IF \E t \in Resolved(e.ref) : t.stamped
                             THEN (CHOOSE t \in Resolved(e.ref) : TRUE).ulid ELSE NoUlid
  OBVIOUS
<1>5. row = [source |-> e.ulid, token |-> e.ref, target |-> target]
  BY <1>1, <1>4
<1>6. target # NoUlid =>
        \E t \in DOMAIN corpus :
          /\ corpus[t].stamped /\ target = corpus[t].ulid /\ target \in Ulids
          /\ corpus[t].name = e.ref \/ corpus[t].ulid = e.ref
  <2> SUFFICES ASSUME target # NoUlid
               PROVE  \E t \in DOMAIN corpus :
                        /\ corpus[t].stamped /\ target = corpus[t].ulid /\ target \in Ulids
                        /\ corpus[t].name = e.ref \/ corpus[t].ulid = e.ref
    OBVIOUS
  <2>1. PICK x \in Resolved(e.ref) : x.stamped
    BY <1>4
  <2>2. (CHOOSE t \in Resolved(e.ref) : TRUE) = x
    BY <1>3, <2>1, ResolvesToOne
  <2>3. target = x.ulid
    BY <1>4, <2>1, <2>2
  <2>4. PICK t \in DOMAIN corpus : x = corpus[t] /\ (corpus[t].name = e.ref \/ corpus[t].ulid = e.ref)
    BY <2>1, ResolvedIs
  <2> QED
    BY <2>1, <2>3, <2>4, EntryIs
<1>7. target \in Ulids \cup {NoUlid}
  BY <1>6
<1>8. row \in LockEdge
  BY <1>3, <1>5, <1>7 DEF LockEdge
<1>9. row.source = e.ulid /\ row.token = e.ref /\ row.target = target
  BY <1>5
<1> QED
  BY <1>2, <1>3, <1>1, <1>6, <1>8, <1>9

\* So it fits, and points at no entry that is not stamped.
LEMMA EdgeLedgerFits ==
  ASSUME CorpusTypeOK, CorpusFits, written \in Nat
  PROVE  /\ EdgeLedger \subseteq LockEdge
         /\ \A x, y \in EdgeLedger :
              /\ x.source = y.source /\ x.token = y.token => x = y
              /\ x.source <= written /\ x.target <= written
              /\ x.token \in Ulids => x.target \in {x.token, NoUlid}
         /\ \A s \in DOMAIN corpus : ~corpus[s].stamped =>
              \A row \in EdgeLedger : corpus[s].ulid \notin {row.source, row.target}
<1>1. EdgeLedger \subseteq LockEdge
  BY EdgeLedgerIs
<1>2. ASSUME NEW x \in EdgeLedger, NEW y \in EdgeLedger, x.source = y.source
      PROVE  x = y
  <2>1. PICK s \in DOMAIN corpus :
          /\ x.source = corpus[s].ulid
          /\ x = [source |-> corpus[s].ulid, token |-> corpus[s].ref,
                  target |-> IF \E t \in Resolved(corpus[s].ref) : t.stamped
                             THEN (CHOOSE t \in Resolved(corpus[s].ref) : TRUE).ulid ELSE NoUlid]
    BY EdgeLedgerIs
  <2>2. PICK t \in DOMAIN corpus :
          /\ y.source = corpus[t].ulid
          /\ y = [source |-> corpus[t].ulid, token |-> corpus[t].ref,
                  target |-> IF \E z \in Resolved(corpus[t].ref) : z.stamped
                             THEN (CHOOSE z \in Resolved(corpus[t].ref) : TRUE).ulid ELSE NoUlid]
    BY EdgeLedgerIs
  <2>3. s = t
    BY <1>2, <2>1, <2>2 DEF CorpusFits
  <2> QED
    BY <2>1, <2>2, <2>3
<1>3. ASSUME NEW x \in EdgeLedger
      PROVE  /\ x.source <= written /\ x.target <= written
             /\ x.token \in Ulids => x.target \in {x.token, NoUlid}
             /\ \A s \in DOMAIN corpus : ~corpus[s].stamped => corpus[s].ulid \notin {x.source, x.target}
  <2>1. PICK s \in DOMAIN corpus : corpus[s].stamped /\ x.source = corpus[s].ulid
    BY EdgeLedgerIs
  <2>2. x.target # NoUlid =>
          \E t \in DOMAIN corpus :
            /\ corpus[t].stamped /\ x.target = corpus[t].ulid
            /\ corpus[t].name = x.token \/ corpus[t].ulid = x.token
    BY EdgeLedgerIs
  <2>3. x.source <= written
    BY <2>1 DEF CorpusFits
  <2>4. x.target <= written
    <3>1. CASE x.target = NoUlid
      BY <3>1 DEF NoUlid
    <3>2. CASE x.target # NoUlid
      BY <2>2, <3>2 DEF CorpusFits
    <3> QED
      BY <3>1, <3>2
  <2>5. x.token \in Ulids => x.target \in {x.token, NoUlid}
    <3>1. \A t \in DOMAIN corpus : corpus[t].name \in Names
      BY EntryIs
    <3> QED
      BY <2>2, <3>1, TokensAre
  <2>6. ASSUME NEW z \in DOMAIN corpus, ~corpus[z].stamped PROVE corpus[z].ulid \notin {x.source, x.target}
    <3>1. corpus[z].ulid # x.source
      BY <2>1, <2>6 DEF CorpusFits
    <3>2. corpus[z].ulid # NoUlid
      BY EntryIs, TokensAre DEF Tokens
    <3>3. corpus[z].ulid # x.target
      BY <2>2, <2>6, <3>2 DEF CorpusFits
    <3> QED
      BY <3>1, <3>3
  <2> QED
    BY <2>3, <2>4, <2>5, <2>6
<1> QED
  BY <1>1, <1>2, <1>3

-------------------------------------------------------------------------------
(***************************************************************************)
(* What fmt makes of one entry.                                            *)
(***************************************************************************)
LEMMA CanonicalIs ==
  ASSUME NEW e \in AuthoredEntry, NEW index \in SUBSET RefIndexRow, NEW rows
  PROVE  /\ Canonical(e, index, rows) \in AuthoredEntry
         /\ Canonical(e, index, rows).ulid = e.ulid /\ Canonical(e, index, rows).name = e.name
         /\ Canonical(e, index, rows).stamped = e.stamped
         /\ CanonicalTarget(e, index, rows) = {} => Canonical(e, index, rows) = e
         /\ CanonicalTarget(e, index, rows) # {} =>
              \E r \in CanonicalTarget(e, index, rows) : Canonical(e, index, rows).ref = r.name
         /\ CanonicalTarget(Canonical(e, index, rows), index, rows) = {}
<1>1. CanonicalTarget(e, index, rows) \subseteq index
  BY DEF CanonicalTarget
<1>2. CASE CanonicalTarget(e, index, rows) = {}
  BY <1>2 DEF Canonical
<1>3. CASE CanonicalTarget(e, index, rows) # {}
  <2>1. PICK r \in CanonicalTarget(e, index, rows) : r = CHOOSE x \in CanonicalTarget(e, index, rows) : TRUE
    BY <1>3
  <2>2. r \in index /\ r.name \in Names
    BY <1>1, <2>1 DEF RefIndexRow
  <2>3. PICK c : c = [e EXCEPT !.ref = r.name]
    OBVIOUS
  <2>4. Canonical(e, index, rows) = c
    BY <1>3, <2>1, <2>3 DEF Canonical
  <2>5. e = [ulid |-> e.ulid, name |-> e.name, stamped |-> e.stamped, ref |-> e.ref]
    BY DEF AuthoredEntry
  <2>6. c = [ulid |-> e.ulid, name |-> e.name, stamped |-> e.stamped, ref |-> r.name]
    BY <2>3, <2>5
  <2>7. c \in AuthoredEntry
    BY <2>2, <2>6 DEF AuthoredEntry, Tokens
  <2>8. c.ulid = e.ulid /\ c.name = e.name /\ c.stamped = e.stamped /\ c.ref = r.name
    BY <2>6
  <2>9. CanonicalTarget(c, index, rows) = {}
    <3>1. \A x \in index : x.ulid \in Ulids
      BY DEF RefIndexRow
    <3>2. \A x \in index : x.ulid # c.ref
      BY <2>2, <2>8, <3>1, TokensAre
    <3>3. \E x \in index : x.name = c.ref
      BY <2>2, <2>8
    <3> QED
      BY <3>2, <3>3 DEF CanonicalTarget
  <2> QED
    BY <1>3, <2>1, <2>4, <2>7, <2>8, <2>9
<1> QED
  BY <1>2, <1>3

\* It depends on the identity and the reference alone.
LEMMA SameTarget ==
  ASSUME NEW e, NEW c, e.ulid = c.ulid, e.ref = c.ref, NEW index, NEW rows
  PROVE  CanonicalTarget(e, index, rows) = CanonicalTarget(c, index, rows)
BY DEF CanonicalTarget

LEMMA StampedIs ==
  ASSUME NEW e \in AuthoredEntry
  PROVE  /\ Stamped(e) \in AuthoredEntry /\ Stamped(e).stamped = TRUE
         /\ Stamped(e).ulid = e.ulid /\ Stamped(e).name = e.name /\ Stamped(e).ref = e.ref
         /\ e.stamped => Stamped(e) = e
<1>1. PICK yes \in BOOLEAN : yes = TRUE
  OBVIOUS
<1>2. e = [ulid |-> e.ulid, name |-> e.name, stamped |-> e.stamped, ref |-> e.ref]
  BY DEF AuthoredEntry
<1>3. PICK c : c = [e EXCEPT !.stamped = yes]
  OBVIOUS
<1>4. c = [ulid |-> e.ulid, name |-> e.name, stamped |-> yes, ref |-> e.ref]
  BY <1>2, <1>3
<1>5. Stamped(e) = c
  BY <1>1, <1>3 DEF Stamped
<1>6. c \in AuthoredEntry
  BY <1>4 DEF AuthoredEntry
<1>7. c.stamped = yes /\ c.ulid = e.ulid /\ c.name = e.name /\ c.ref = e.ref
  BY <1>4
<1>8. e.stamped => e.stamped = yes
  BY <1>1 DEF AuthoredEntry
<1>9. e.stamped => c = e
  BY <1>2, <1>4, <1>8
<1> QED
  BY <1>1, <1>5, <1>6, <1>7, <1>9

LEMMA FormattedIs ==
  ASSUME HealTypeOK, NEW s \in DOMAIN corpus
  PROVE  /\ Formatted(s) \in AuthoredEntry /\ Formatted(s).stamped
         /\ Formatted(s).ulid = corpus[s].ulid /\ Formatted(s).name = corpus[s].name
         /\ CanonicalTarget(Formatted(s), fmt.index, fmt.ledger) = {}
         /\ CanonicalTarget(corpus[s], fmt.index, fmt.ledger) = {} => Formatted(s).ref = corpus[s].ref
         /\ CanonicalTarget(corpus[s], fmt.index, fmt.ledger) # {} =>
              \E r \in CanonicalTarget(corpus[s], fmt.index, fmt.ledger) : Formatted(s).ref = r.name
<1>1. PICK e \in AuthoredEntry : e = Stamped(corpus[s])
  BY EntryIs, StampedIs DEF HealTypeOK
<1>2. /\ e.stamped = TRUE /\ e.ulid = corpus[s].ulid /\ e.name = corpus[s].name /\ e.ref = corpus[s].ref
  BY <1>1, EntryIs, StampedIs DEF HealTypeOK
<1>3. PICK index \in SUBSET RefIndexRow : index = fmt.index
  BY DEF HealTypeOK, CorpusTypeOK
<1>4. Formatted(s) = Canonical(e, index, fmt.ledger)
  BY <1>1, <1>3 DEF Formatted
<1>5. CanonicalTarget(corpus[s], index, fmt.ledger) = CanonicalTarget(e, index, fmt.ledger)
  BY <1>2, SameTarget
<1> QED
  BY <1>2, <1>3, <1>4, <1>5, CanonicalIs

-------------------------------------------------------------------------------
(***************************************************************************)
(* The edits of the author.                                                *)
(***************************************************************************)
LEMMA Counted ==
  ASSUME HealTypeOK
  PROVE  /\ MaxEntries \in Nat /\ MaxEdits \in Nat /\ MaxFmts \in Nat /\ MaxLocks \in Nat
         /\ written \in 0..MaxEntries /\ edits \in 0..MaxEdits /\ fmts \in 0..MaxFmts /\ locks \in 0..MaxLocks
BY RefHealingAssumption DEF HealTypeOK, CorpusTypeOK

LEMMA EditedFits ==
  ASSUME HealInv, Edited, DOMAIN corpus' \subseteq Sources, corpus' \in [DOMAIN corpus' -> AuthoredEntry],
         written' \in 0..MaxEntries, written' >= written, CorpusFits', UnstampedIsUnknown'
  PROVE  HealInv'
<1>1. /\ edits < MaxEdits /\ edits' = edits + 1 /\ settled' = "edit"
      /\ fmt' = [fmt EXCEPT !.calm = FALSE] /\ UNCHANGED <<ledger, locked, fmts, locks>>
  BY DEF Edited
<1>2. edits' \in 0..MaxEdits
  BY <1>1, Counted DEF HealInv
<1>3. fmt' \in [at : {"idle", "ledger", "files"}, index : SUBSET RefIndexRow,
                ledger : SUBSET LockEdge, todo : SUBSET Sources, whole : BOOLEAN, calm : BOOLEAN]
      /\ ~fmt'.calm
  <2>1. PICK no \in BOOLEAN : no = FALSE
    OBVIOUS
  <2>2. fmt' = [fmt EXCEPT !.calm = no]
    BY <1>1, <2>1
  <2>3. fmt' \in [at : {"idle", "ledger", "files"}, index : SUBSET RefIndexRow,
                  ledger : SUBSET LockEdge, todo : SUBSET Sources, whole : BOOLEAN, calm : BOOLEAN]
        /\ fmt'.calm = no
    BY <2>2 DEF HealInv, HealTypeOK, CorpusTypeOK
  <2> QED
    BY <2>1, <2>3
<1>4. HealTypeOK'
  BY <1>1, <1>2, <1>3 DEF HealInv, HealTypeOK, CorpusTypeOK
<1>5. LedgerFits'
  <2>1. written \in Nat /\ written' \in Nat /\ written' >= written
    BY Counted DEF HealInv
  <2>2. \A row \in ledger : row.source \in Nat /\ row.target \in Nat
    BY TokensAre DEF HealInv, HealTypeOK, LockEdge, CorpusTypeOK
  <2>3. \A n \in Nat : n <= written => n <= written'
    BY <2>1
  <2> QED
    BY <1>1, <2>2, <2>3 DEF HealInv, LedgerFits
<1>6. CalmFmtFits'
  BY <1>3 DEF CalmFmtFits
<1>7. SettledFits'
  BY <1>1 DEF SettledFits
<1> QED
  BY <1>4, <1>5, <1>6, <1>7 DEF HealInv

LEMMA EntryIsWritten ==
  ASSUME HealInv, NEW s \in Sources, NEW name \in Free, NEW ref \in Writable(s), WriteEntry(s, name, ref)
  PROVE  HealInv'
<1>1. /\ s \notin DOMAIN corpus /\ written < MaxEntries /\ written' = written + 1 /\ Edited
      /\ corpus' = [x \in DOMAIN corpus \cup {s} |-> IF x # s THEN corpus[x] ELSE
                     [ulid |-> written + 1, name |-> name, stamped |-> FALSE, ref |-> ref]]
  BY DEF WriteEntry
<1>2. ledger' = ledger
  BY <1>1 DEF Edited
<1>3. /\ written \in Nat /\ written' \in 0..MaxEntries /\ written + 1 \in Ulids /\ written' >= written
  BY <1>1, Counted DEF HealInv, Ulids
<1>4. name \in Names /\ \A x \in DOMAIN corpus : corpus[x].name # name
  BY AuthoredIs DEF Free
<1>5. /\ ref \in Tokens \cup {Blank}
      /\ ref \in Ulids => ref <= written /\ \A x \in DOMAIN corpus : ~corpus[x].stamped => corpus[x].ulid # ref
  <2>1. ref \in Names \cup {Blank}
        \/ \E y \in DOMAIN corpus : corpus[y].stamped /\ ref = corpus[y].ulid
    BY AuthoredIs DEF Writable
  <2>2. ref \in Tokens \cup {Blank}
    BY <2>1, EntryIs DEF HealInv, Tokens, HealTypeOK
  <2>3. ref \in Ulids => \E y \in DOMAIN corpus : corpus[y].stamped /\ ref = corpus[y].ulid
    BY <2>1, TokensAre DEF Tokens
  <2> QED
    BY <2>2, <2>3 DEF HealInv, CorpusFits
<1>6. PICK unstamped \in BOOLEAN : unstamped = FALSE
  OBVIOUS
<1>7. PICK e : e = [ulid |-> written + 1, name |-> name, stamped |-> unstamped, ref |-> ref]
  OBVIOUS
<1>8. e \in AuthoredEntry /\ e.ulid = written + 1 /\ e.name = name /\ e.ref = ref /\ e.stamped = unstamped
  BY <1>3, <1>4, <1>5, <1>7 DEF AuthoredEntry
<1>9. /\ DOMAIN corpus' = DOMAIN corpus \cup {s} /\ corpus'[s] = e
      /\ \A x \in DOMAIN corpus : corpus'[x] = corpus[x] /\ x # s
      /\ corpus' \in [DOMAIN corpus' -> AuthoredEntry]
  <2>1. corpus' = [x \in DOMAIN corpus \cup {s} |-> IF x # s THEN corpus[x] ELSE e]
    BY <1>1, <1>6, <1>7
  <2>2. \A x \in DOMAIN corpus : corpus[x] \in AuthoredEntry
    BY EntryIs DEF HealInv, HealTypeOK
  <2> QED
    BY <1>1, <1>8, <2>1, <2>2
<1>10. \A x \in DOMAIN corpus : corpus[x].ulid \in Nat /\ corpus[x].ulid <= written
                                /\ (corpus[x].ref \in Ulids => corpus[x].ref <= written)
  BY EntryIs, TokensAre DEF HealInv, CorpusFits, HealTypeOK
<1>11. CorpusFits'
  <2> SUFFICES ASSUME NEW x \in DOMAIN corpus', NEW y \in DOMAIN corpus'
               PROVE  /\ corpus'[x].name = corpus'[y].name \/ corpus'[x].ulid = corpus'[y].ulid => x = y
                      /\ corpus'[x].ulid <= written'
                      /\ corpus'[x].ref \in Ulids => corpus'[x].ref <= written'
    BY DEF CorpusFits
  <2>1. corpus'[x].ulid <= written'
    BY <1>1, <1>3, <1>8, <1>9, <1>10
  <2>2. corpus'[x].ref \in Ulids => corpus'[x].ref <= written'
    <3>1. \A u \in Ulids : u \in Nat
      BY TokensAre
    <3> QED
      BY <1>1, <1>3, <1>5, <1>8, <1>9, <1>10, <3>1
  <2>3. corpus'[x].name = corpus'[y].name => x = y
    BY <1>4, <1>8, <1>9 DEF HealInv, CorpusFits
  <2>4. corpus'[x].ulid = corpus'[y].ulid => x = y
    <3>1. \A z \in DOMAIN corpus : corpus[z].ulid # written + 1
      BY <1>3, <1>10
    <3> QED
      BY <1>8, <1>9, <3>1 DEF HealInv, CorpusFits
  <2> QED
    BY <2>1, <2>2, <2>3, <2>4
<1>12. UnstampedIsUnknown'
  <2> SUFFICES ASSUME NEW x \in DOMAIN corpus', ~corpus'[x].stamped
               PROVE  /\ \A y \in DOMAIN corpus' : corpus'[y].ref # corpus'[x].ulid
                      /\ \A row \in ledger : row.source # corpus'[x].ulid /\ row.target # corpus'[x].ulid
    BY <1>2 DEF UnstampedIsUnknown
  <2>1. CASE x = s
    <3>1. corpus'[x].ulid = written + 1
      BY <1>8, <1>9, <2>1
    <3>2. \A row \in ledger : row.source # written + 1 /\ row.target # written + 1
      <4>1. \A row \in ledger : row.source \in Nat /\ row.target \in Nat /\ row.source <= written /\ row.target <= written
        BY TokensAre DEF HealInv, LedgerFits, HealTypeOK, LockEdge, CorpusTypeOK
      <4> QED
        BY <1>3, <4>1
    <3>3. \A y \in DOMAIN corpus' : corpus'[y].ref # written + 1
      <4>1. ref # written + 1
        BY <1>3, <1>5
      <4>2. \A y \in DOMAIN corpus : corpus[y].ref # written + 1
        BY <1>3, <1>10
      <4> QED
        BY <1>8, <1>9, <4>1, <4>2
    <3> QED
      BY <3>1, <3>2, <3>3
  <2>2. CASE x # s
    <3>1. x \in DOMAIN corpus /\ corpus'[x] = corpus[x] /\ ~corpus[x].stamped /\ corpus[x].ulid \in Ulids
      BY <1>9, <2>2, EntryIs DEF HealInv, HealTypeOK
    <3>2. /\ \A y \in DOMAIN corpus : corpus[y].ref # corpus[x].ulid
          /\ \A row \in ledger : row.source # corpus[x].ulid /\ row.target # corpus[x].ulid
      BY <3>1 DEF HealInv, UnstampedIsUnknown
    <3>3. corpus[x].ulid # ref
      BY <1>5, <3>1
    <3> QED
      BY <1>8, <1>9, <3>1, <3>2, <3>3
  <2> QED
    BY <2>1, <2>2
<1>13. DOMAIN corpus' \subseteq Sources
  BY <1>9 DEF HealInv, HealTypeOK, CorpusTypeOK
<1> QED
  BY <1>1, <1>3, <1>9, <1>11, <1>12, <1>13, EditedFits

\* One field of an entry that stays changes, its name or its reference.
LEMMA EntryIsEdited ==
  ASSUME HealInv, Edited, UNCHANGED written, NEW s \in DOMAIN corpus, NEW e \in AuthoredEntry,
         corpus' = [corpus EXCEPT ![s] = e],
         e.ulid = corpus[s].ulid, e.stamped = corpus[s].stamped,
         e.name = corpus[s].name \/ e.name \in Free, e.ref = corpus[s].ref \/ e.ref \in Writable(s)
  PROVE  HealInv'
<1>1. ledger' = ledger
  BY DEF Edited
<1>2. /\ DOMAIN corpus' = DOMAIN corpus /\ corpus'[s] = e
      /\ \A x \in DOMAIN corpus : x # s => corpus'[x] = corpus[x]
      /\ \A x \in DOMAIN corpus : corpus'[x].ulid = corpus[x].ulid /\ corpus'[x].stamped = corpus[x].stamped
      /\ corpus' \in [DOMAIN corpus' -> AuthoredEntry]
  BY DEF HealInv, HealTypeOK, CorpusTypeOK
<1>3. \A y \in DOMAIN corpus : y # s => e.name # corpus[y].name
  BY AuthoredIs DEF Free, HealInv, CorpusFits
<1>4. \A u \in Ulids : e.ref = u =>
        \E y \in DOMAIN corpus : (corpus[y].ref = u) \/ (corpus[y].stamped /\ corpus[y].ulid = u)
  <2>1. e.ref = corpus[s].ref \/ e.ref \in Names \cup {Blank}
        \/ \E y \in DOMAIN corpus : corpus[y].stamped /\ e.ref = corpus[y].ulid
    BY AuthoredIs DEF Writable
  <2> QED
    BY <2>1, TokensAre DEF Tokens
<1>5. CorpusFits'
  <2> SUFFICES ASSUME NEW x \in DOMAIN corpus, NEW y \in DOMAIN corpus
               PROVE  /\ corpus'[x].name = corpus'[y].name \/ corpus'[x].ulid = corpus'[y].ulid => x = y
                      /\ corpus'[x].ulid <= written
                      /\ corpus'[x].ref \in Ulids => corpus'[x].ref <= written
    BY <1>2 DEF CorpusFits
  <2>1. corpus'[x].name = corpus'[y].name => x = y
    BY <1>2, <1>3 DEF HealInv, CorpusFits
  <2>2. (corpus'[x].ulid = corpus'[y].ulid => x = y) /\ corpus'[x].ulid <= written
    BY <1>2 DEF HealInv, CorpusFits
  <2>3. corpus'[x].ref \in Ulids => corpus'[x].ref <= written
    BY <1>2, <1>4 DEF HealInv, CorpusFits
  <2> QED
    BY <2>1, <2>2, <2>3
<1>6. UnstampedIsUnknown'
  <2> SUFFICES ASSUME NEW x \in DOMAIN corpus, ~corpus[x].stamped
               PROVE  /\ \A y \in DOMAIN corpus : corpus'[y].ref # corpus[x].ulid
                      /\ \A row \in ledger : row.source # corpus[x].ulid /\ row.target # corpus[x].ulid
    BY <1>1, <1>2 DEF UnstampedIsUnknown
  <2>1. /\ \A y \in DOMAIN corpus : corpus[y].ref # corpus[x].ulid
        /\ \A row \in ledger : row.source # corpus[x].ulid /\ row.target # corpus[x].ulid
    BY DEF HealInv, UnstampedIsUnknown
  <2>2. corpus[x].ulid \in Ulids /\ \A y \in DOMAIN corpus : corpus[y].ulid = corpus[x].ulid => y = x
    BY EntryIs DEF HealInv, CorpusFits, HealTypeOK
  <2>3. e.ref # corpus[x].ulid
    BY <1>4, <2>1, <2>2
  <2> QED
    BY <1>2, <2>1, <2>3
<1>7. written' \in 0..MaxEntries /\ written' >= written /\ DOMAIN corpus' \subseteq Sources
  BY <1>2, Counted DEF HealInv, HealTypeOK, CorpusTypeOK
<1> QED
  BY <1>2, <1>5, <1>6, <1>7, EditedFits

LEMMA EntryIsRenamed ==
  ASSUME HealInv, NEW s, NEW name \in Free, RenameEntry(s, name)
  PROVE  HealInv'
<1>1. s \in DOMAIN corpus /\ corpus' = [corpus EXCEPT ![s].name = name] /\ UNCHANGED written /\ Edited
  BY DEF RenameEntry
<1>2. corpus[s] \in AuthoredEntry /\ name \in Names
  BY <1>1, EntryIs DEF HealInv, Free, HealTypeOK
<1>3. PICK e : e = [ulid |-> corpus[s].ulid, name |-> name, stamped |-> corpus[s].stamped, ref |-> corpus[s].ref]
  OBVIOUS
<1>4. e \in AuthoredEntry /\ e.ulid = corpus[s].ulid /\ e.name = name /\ e.stamped = corpus[s].stamped
      /\ e.ref = corpus[s].ref
  BY <1>2, <1>3 DEF AuthoredEntry
<1>5. corpus' = [corpus EXCEPT ![s] = e]
  <2>1. [corpus[s] EXCEPT !.name = name] = e
    BY <1>2, <1>3 DEF AuthoredEntry
  <2> QED
    BY <1>1, <2>1
<1> QED
  BY <1>1, <1>4, <1>5, EntryIsEdited

LEMMA EntryRefers ==
  ASSUME HealInv, NEW s, NEW ref \in Writable(s), Refer(s, ref)
  PROVE  HealInv'
<1>1. s \in DOMAIN corpus /\ corpus' = [corpus EXCEPT ![s].ref = ref] /\ UNCHANGED written /\ Edited
  BY DEF Refer
<1>2. corpus[s] \in AuthoredEntry /\ ref \in Tokens \cup {Blank}
  BY <1>1, AuthoredIs, EntryIs DEF HealInv, Writable, Tokens, HealTypeOK
<1>3. PICK e : e = [ulid |-> corpus[s].ulid, name |-> corpus[s].name, stamped |-> corpus[s].stamped, ref |-> ref]
  OBVIOUS
<1>4. e \in AuthoredEntry /\ e.ulid = corpus[s].ulid /\ e.name = corpus[s].name /\ e.stamped = corpus[s].stamped
      /\ e.ref = ref
  BY <1>2, <1>3 DEF AuthoredEntry
<1>5. corpus' = [corpus EXCEPT ![s] = e]
  <2>1. [corpus[s] EXCEPT !.ref = ref] = e
    BY <1>2, <1>3 DEF AuthoredEntry
  <2> QED
    BY <1>1, <2>1
<1> QED
  BY <1>1, <1>4, <1>5, EntryIsEdited

LEMMA EntryIsDeleted ==
  ASSUME HealInv, NEW s, DeleteEntry(s)
  PROVE  HealInv'
<1>1. corpus' = [x \in DOMAIN corpus \ {s} |-> corpus[x]] /\ UNCHANGED written /\ Edited
  BY DEF DeleteEntry, Restrict
<1>2. ledger' = ledger
  BY <1>1 DEF Edited
<1>3. DOMAIN corpus' \subseteq DOMAIN corpus /\ \A x \in DOMAIN corpus' : corpus'[x] = corpus[x]
  BY <1>1
<1>4. corpus' \in [DOMAIN corpus' -> AuthoredEntry] /\ DOMAIN corpus' \subseteq Sources
  BY <1>1 DEF HealInv, HealTypeOK, CorpusTypeOK
<1>5. CorpusFits' /\ UnstampedIsUnknown'
  BY <1>1, <1>2, <1>3 DEF HealInv, CorpusFits, UnstampedIsUnknown
<1>6. written' \in 0..MaxEntries /\ written' >= written
  BY <1>1, Counted DEF HealInv
<1> QED
  BY <1>1, <1>4, <1>5, <1>6, EditedFits

-------------------------------------------------------------------------------
(***************************************************************************)
(* The commands.                                                           *)
(***************************************************************************)
LEMMA TargetIs ==
  ASSUME NEW e, NEW index, NEW rows
  PROVE  CanonicalTarget(e, index, rows) = {} <=>
           \A r \in index :
             /\ r.ulid # e.ref
             /\ \A row \in rows : row.source = e.ulid /\ row.token = e.ref /\ row.target = r.ulid =>
                  \E x \in index : x.name = e.ref
BY DEF CanonicalTarget

LEMMA CorpusStays ==
  ASSUME UNCHANGED corpus
  PROVE  BuildRefIndex' = BuildRefIndex /\ EdgeQuads' = EdgeQuads
BY DEF BuildRefIndex, EdgeQuads, Referring, Authored

\* What a command leaves as it was, when it changes neither the corpus nor the ledger.
LEMMA RestStays ==
  ASSUME HealInv, UNCHANGED <<corpus, written, ledger, locked>>
  PROVE  /\ CorpusFits' /\ LedgerFits' /\ UnstampedIsUnknown'
         /\ (settled' = settled => SettledFits')
         /\ \A s \in DOMAIN corpus : \A index : Healed(s, index)' = Healed(s, index)
         /\ \A u : Unpointed(u)' = Unpointed(u)
<1>1. CorpusFits' /\ LedgerFits' /\ UnstampedIsUnknown'
  BY DEF HealInv, CorpusFits, LedgerFits, UnstampedIsUnknown
<1>2. settled' = settled => SettledFits'
  BY CorpusStays DEF HealInv, SettledFits, Healed
<1>3. \A s \in DOMAIN corpus : \A index : Healed(s, index)' = Healed(s, index)
  BY DEF Healed
<1>4. \A u : Unpointed(u)' = Unpointed(u)
  BY DEF Unpointed
<1> QED
  BY <1>1, <1>2, <1>3, <1>4

LEMMA FmtStarts ==
  ASSUME HealInv, NEW files \in SUBSET DOMAIN corpus, StartFmt(files)
  PROVE  HealInv'
<1>1. /\ fmts < MaxFmts /\ fmts' = fmts + 1
      /\ fmt' = [at |-> "ledger", index |-> BuildRefIndex, ledger |-> {}, todo |-> files,
                 whole |-> files = DOMAIN corpus, calm |-> TRUE]
      /\ UNCHANGED <<corpus, written, ledger, locked, settled, edits, locks>>
  BY DEF StartFmt
<1>2. fmts' \in 0..MaxFmts
  BY <1>1, Counted DEF HealInv
<1>3. PICK all \in BOOLEAN, yes \in BOOLEAN : all = (files = DOMAIN corpus) /\ yes = TRUE
  OBVIOUS
<1>4. fmt' = [at |-> "ledger", index |-> BuildRefIndex, ledger |-> {}, todo |-> files, whole |-> all, calm |-> yes]
  BY <1>1, <1>3
<1>5. fmt' \in [at : {"idle", "ledger", "files"}, index : SUBSET RefIndexRow,
                ledger : SUBSET LockEdge, todo : SUBSET Sources, whole : BOOLEAN, calm : BOOLEAN]
  <2>1. BuildRefIndex \subseteq RefIndexRow /\ files \subseteq Sources
    <3>1. CorpusTypeOK
      BY DEF HealInv, HealTypeOK
    <3> QED
      BY <3>1, IndexRows DEF CorpusTypeOK
  <2> QED
    BY <1>4, <2>1
<1>6. HealTypeOK'
  BY <1>1, <1>2, <1>5 DEF HealInv, HealTypeOK, CorpusTypeOK
<1>7. CalmFmtFits'
  <2>1. fmt'.at = "ledger" /\ fmt'.index = BuildRefIndex /\ fmt'.todo = files /\ fmt'.whole = all
    BY <1>4
  <2>2. DOMAIN corpus' = DOMAIN corpus /\ BuildRefIndex' = BuildRefIndex
    BY <1>1, CorpusStays
  <2>3. fmt'.whole => DOMAIN corpus' \ fmt'.todo = {}
    BY <1>3, <2>1, <2>2
  <2> QED
    BY <2>1, <2>2, <2>3 DEF CalmFmtFits
<1> QED
  BY <1>1, <1>6, <1>7, RestStays DEF HealInv

LEMMA LedgerIsRead ==
  ASSUME HealInv, ReadLedger
  PROVE  HealInv'
<1>1. /\ fmt.at = "ledger" /\ fmt' = [fmt EXCEPT !.at = "files", !.ledger = ledger]
      /\ UNCHANGED <<corpus, written, ledger, locked, settled, healCounters>>
  BY DEF ReadLedger
<1>2. /\ fmt' \in [at : {"idle", "ledger", "files"}, index : SUBSET RefIndexRow,
                   ledger : SUBSET LockEdge, todo : SUBSET Sources, whole : BOOLEAN, calm : BOOLEAN]
      /\ fmt'.ledger = ledger /\ fmt'.index = fmt.index /\ fmt'.todo = fmt.todo
      /\ fmt'.whole = fmt.whole /\ fmt'.calm = fmt.calm
  <2>1. PICK f : f = [fmt EXCEPT !.at = "files"]
    OBVIOUS
  <2>2. /\ f \in [at : {"idle", "ledger", "files"}, index : SUBSET RefIndexRow,
                  ledger : SUBSET LockEdge, todo : SUBSET Sources, whole : BOOLEAN, calm : BOOLEAN]
        /\ f.index = fmt.index /\ f.todo = fmt.todo /\ f.whole = fmt.whole /\ f.calm = fmt.calm
    BY <2>1 DEF HealInv, HealTypeOK, CorpusTypeOK
  <2>3. fmt' = [f EXCEPT !.ledger = ledger]
    BY <1>1, <2>1
  <2>4. ledger \subseteq LockEdge
    BY DEF HealInv, HealTypeOK, CorpusTypeOK
  <2> QED
    BY <2>2, <2>3, <2>4
<1>3. HealTypeOK'
  BY <1>1, <1>2 DEF HealInv, HealTypeOK, healCounters, CorpusTypeOK
<1>4. CalmFmtFits'
  <2> SUFFICES ASSUME fmt.calm
               PROVE  /\ fmt.index \subseteq BuildRefIndex
                      /\ \A r \in BuildRefIndex : r \in fmt.index \/ Unpointed(r.ulid)
                      /\ fmt.whole => \A s \in DOMAIN corpus \ fmt.todo : Healed(s, fmt.index)
    BY <1>1, <1>2, RestStays, CorpusStays DEF CalmFmtFits, Healed, Unpointed
  <2> QED
    BY <1>1 DEF HealInv, CalmFmtFits
<1> QED
  BY <1>1, <1>3, <1>4, RestStays DEF HealInv

LEMMA FmtEnds ==
  ASSUME HealInv, EndFmt
  PROVE  HealInv'
<1>1. /\ fmt.at # "idle" /\ fmt' = NoFmt
      /\ settled' = IF fmt.calm /\ fmt.whole /\ fmt.at = "files" /\ fmt.todo = {} /\ settled # "lock"
                    THEN "fmt" ELSE settled
      /\ UNCHANGED <<corpus, written, ledger, locked, healCounters>>
  BY DEF EndFmt
<1>2. /\ fmt' \in [at : {"idle", "ledger", "files"}, index : SUBSET RefIndexRow,
                   ledger : SUBSET LockEdge, todo : SUBSET Sources, whole : BOOLEAN, calm : BOOLEAN]
      /\ fmt'.at = "idle"
  <2>1. PICK no \in BOOLEAN : no = FALSE
    OBVIOUS
  <2>2. fmt' = [at |-> "idle", index |-> {}, ledger |-> {}, todo |-> {}, whole |-> no, calm |-> no]
    BY <1>1, <2>1 DEF NoFmt
  <2> QED
    BY <2>2
<1>3. HealTypeOK'
  <2>1. settled' \in {"edit", "fmt", "lock"}
    BY <1>1 DEF HealInv, HealTypeOK, CorpusTypeOK
  <2> QED
    BY <1>1, <1>2, <2>1 DEF HealInv, HealTypeOK, healCounters, CorpusTypeOK
<1>4. CalmFmtFits'
  BY <1>2 DEF CalmFmtFits
<1>5. SettledFits'
  <2>1. CASE fmt.calm /\ fmt.whole /\ fmt.at = "files" /\ fmt.todo = {} /\ settled # "lock"
    <3>1. settled' = "fmt"
      BY <1>1, <2>1
    <3>2. /\ fmt.index \subseteq BuildRefIndex
          /\ \A r \in BuildRefIndex : r \in fmt.index \/ Unpointed(r.ulid)
          /\ \A s \in DOMAIN corpus : Healed(s, fmt.index)
      BY <2>1 DEF HealInv, CalmFmtFits
    <3>3. \A s \in DOMAIN corpus : Healed(s, BuildRefIndex)
      BY <3>2 DEF Healed, Unpointed
    <3>4. \A s \in DOMAIN corpus' : Healed(s, BuildRefIndex)'
      BY <1>1, <3>3, CorpusStays DEF Healed
    <3> QED
      BY <3>1, <3>4 DEF SettledFits
  <2>2. CASE ~(fmt.calm /\ fmt.whole /\ fmt.at = "files" /\ fmt.todo = {} /\ settled # "lock")
    BY <1>1, <2>2, RestStays
  <2> QED
    BY <2>1, <2>2
<1> QED
  BY <1>1, <1>3, <1>4, <1>5, RestStays DEF HealInv

LEMMA EdgesAreLocked ==
  ASSUME HealInv, LockEdges
  PROVE  HealInv'
<1>1. /\ locks < MaxLocks /\ locks' = locks + 1 /\ ledger' = EdgeLedger /\ locked' = EdgeQuads
      /\ settled' = IF settled = "edit" THEN "edit" ELSE "lock"
      /\ fmt' = [fmt EXCEPT !.calm = FALSE] /\ UNCHANGED <<corpus, written, edits, fmts>>
  BY DEF LockEdges
<1>2. locks' \in 0..MaxLocks
  BY <1>1, Counted DEF HealInv
<1>3. fmt' \in [at : {"idle", "ledger", "files"}, index : SUBSET RefIndexRow,
                ledger : SUBSET LockEdge, todo : SUBSET Sources, whole : BOOLEAN, calm : BOOLEAN]
      /\ ~fmt'.calm
  <2>1. PICK no \in BOOLEAN : no = FALSE
    OBVIOUS
  <2>2. fmt' = [fmt EXCEPT !.calm = no]
    BY <1>1, <2>1
  <2>3. fmt' \in [at : {"idle", "ledger", "files"}, index : SUBSET RefIndexRow,
                  ledger : SUBSET LockEdge, todo : SUBSET Sources, whole : BOOLEAN, calm : BOOLEAN]
        /\ fmt'.calm = no
    BY <2>2 DEF HealInv, HealTypeOK, CorpusTypeOK
  <2> QED
    BY <2>1, <2>3
<1>4. EdgeQuads \subseteq [source : Names, target : Tokens]
  BY AuthoredIs, EntryIs DEF HealInv, EdgeQuads, Referring, HealTypeOK
<1>5. HealTypeOK'
  <2>1. settled' \in {"edit", "fmt", "lock"} /\ EdgeLedger \subseteq LockEdge
    BY <1>1, EdgeLedgerFits, Counted DEF HealInv, HealTypeOK
  <2> QED
    BY <1>1, <1>2, <1>3, <1>4, <2>1 DEF HealInv, HealTypeOK, CorpusTypeOK
<1>6. CorpusFits' /\ LedgerFits'
  BY <1>1, EdgeLedgerFits, Counted DEF HealInv, CorpusFits, LedgerFits, HealTypeOK
<1>7. UnstampedIsUnknown'
  BY <1>1, EdgeLedgerFits, Counted DEF HealInv, UnstampedIsUnknown, HealTypeOK
<1>8. CalmFmtFits'
  BY <1>3 DEF CalmFmtFits
<1>9. SettledFits'
  <2>1. EdgeQuads' = locked'
    BY <1>1, CorpusStays
  <2>2. ASSUME settled # "edit", NEW s \in DOMAIN corpus
        PROVE  Healed(s, BuildRefIndex)'
    <3>1. corpus[s].stamped /\ \A r \in BuildRefIndex : r.ulid # corpus[s].ref
      BY <2>2 DEF HealInv, SettledFits, Healed
    <3>2. ASSUME NEW r \in BuildRefIndex, NEW row \in EdgeLedger, row.token = corpus[s].ref, row.target = r.ulid
          PROVE  \E x \in BuildRefIndex : x.name = corpus[s].ref
      <4>1. row.target # NoUlid
        BY <3>2, IndexRows, TokensAre DEF RefIndexRow, HealInv, HealTypeOK
      <4>2. PICK t \in DOMAIN corpus :
              /\ corpus[t].stamped /\ row.target = corpus[t].ulid
              /\ corpus[t].name = row.token \/ corpus[t].ulid = row.token
        BY <4>1, EdgeLedgerIs DEF HealInv, HealTypeOK
      <4>3. [name |-> corpus[t].name, ulid |-> corpus[t].ulid] \in BuildRefIndex
        BY <4>2, IndexIs
      <4> QED
        BY <3>1, <3>2, <4>2, <4>3
    <3> QED
      BY <1>1, <3>1, <3>2, CorpusStays DEF Healed
  <2> QED
    BY <1>1, <2>1, <2>2 DEF SettledFits
<1> QED
  BY <1>5, <1>6, <1>7, <1>8, <1>9 DEF HealInv

\* What fmt makes of a file, beside the others.
LEMMA FileIsFormatted ==
  ASSUME HealInv, NEW s \in DOMAIN corpus, FmtFile(s)
  PROVE  /\ fmt.at = "files" /\ s \in fmt.todo
         /\ DOMAIN corpus' = DOMAIN corpus /\ corpus'[s] = Formatted(s)
         /\ \A x \in DOMAIN corpus : x # s => corpus'[x] = corpus[x]
         /\ \A x \in DOMAIN corpus :
              /\ corpus'[x] \in AuthoredEntry
              /\ corpus'[x].name = corpus[x].name /\ corpus'[x].ulid = corpus[x].ulid
              /\ corpus[x].stamped => corpus'[x].stamped
              /\ ~corpus[x].stamped /\ corpus'[x].stamped => x = s
              /\ corpus'[x].ref = corpus[x].ref \/ corpus'[x].ref \in Names
         /\ corpus'[s].stamped
<1>1. /\ fmt.at = "files" /\ s \in fmt.todo
      /\ corpus' = [x \in DOMAIN corpus |-> IF x = s THEN Formatted(s) ELSE corpus[x]]
  BY DEF FmtFile
<1>2. /\ DOMAIN corpus' = DOMAIN corpus /\ corpus'[s] = Formatted(s)
      /\ \A x \in DOMAIN corpus : x # s => corpus'[x] = corpus[x]
  BY <1>1
<1>3. /\ Formatted(s) \in AuthoredEntry /\ Formatted(s).stamped
      /\ Formatted(s).ulid = corpus[s].ulid /\ Formatted(s).name = corpus[s].name
  BY FormattedIs DEF HealInv
<1>4. Formatted(s).ref = corpus[s].ref \/ Formatted(s).ref \in Names
  <2>1. \A r \in CanonicalTarget(corpus[s], fmt.index, fmt.ledger) : r.name \in Names
    BY DEF CanonicalTarget, HealInv, HealTypeOK, RefIndexRow, CorpusTypeOK
  <2> QED
    BY <2>1, FormattedIs DEF HealInv
<1>5. \A x \in DOMAIN corpus : corpus[x] \in AuthoredEntry
  BY EntryIs DEF HealInv, HealTypeOK
<1> QED
  BY <1>1, <1>2, <1>3, <1>4, <1>5

LEMMA FormattedFits ==
  ASSUME HealInv, NEW s \in DOMAIN corpus, FmtFile(s)
  PROVE  HealInv'
<1>1. /\ fmt' = [fmt EXCEPT !.todo = @ \ {s}]
      /\ settled' = IF corpus' # corpus THEN "edit" ELSE settled
      /\ UNCHANGED <<written, ledger, locked, healCounters>>
      /\ corpus' = [x \in DOMAIN corpus |-> IF x = s THEN Formatted(s) ELSE corpus[x]]
  BY DEF FmtFile
<1>2. /\ fmt' \in [at : {"idle", "ledger", "files"}, index : SUBSET RefIndexRow,
                   ledger : SUBSET LockEdge, todo : SUBSET Sources, whole : BOOLEAN, calm : BOOLEAN]
      /\ fmt'.at = fmt.at /\ fmt'.ledger = fmt.ledger /\ fmt'.index = fmt.index /\ fmt'.todo = fmt.todo \ {s}
      /\ fmt'.whole = fmt.whole /\ fmt'.calm = fmt.calm
  <2>1. PICK todo \in SUBSET Sources : todo = fmt.todo \ {s}
    BY DEF HealInv, HealTypeOK, CorpusTypeOK
  <2>2. fmt' = [fmt EXCEPT !.todo = todo]
    BY <1>1, <2>1
  <2> QED
    BY <2>1, <2>2 DEF HealInv, HealTypeOK, CorpusTypeOK
<1>3. HealTypeOK'
  <2>1. DOMAIN corpus' \subseteq Sources /\ corpus' \in [DOMAIN corpus' -> AuthoredEntry]
    BY <1>1, FileIsFormatted DEF HealInv, HealTypeOK, CorpusTypeOK
  <2>2. settled' \in {"edit", "fmt", "lock"}
    BY <1>1 DEF HealInv, HealTypeOK, CorpusTypeOK
  <2> QED
    BY <1>1, <1>2, <2>1, <2>2 DEF HealInv, HealTypeOK, healCounters, CorpusTypeOK
<1>4. CorpusFits'
  <2>1. \A x \in DOMAIN corpus : corpus'[x].ref \in Ulids => corpus'[x].ref = corpus[x].ref
    BY FileIsFormatted, TokensAre
  <2> QED
    BY <1>1, <2>1, FileIsFormatted DEF HealInv, CorpusFits
<1>5. LedgerFits'
  BY <1>1 DEF HealInv, LedgerFits
<1>6. UnstampedIsUnknown'
  <2> SUFFICES ASSUME NEW x \in DOMAIN corpus, ~corpus'[x].stamped
               PROVE  /\ \A y \in DOMAIN corpus : corpus'[y].ref # corpus'[x].ulid
                      /\ \A row \in ledger : row.source # corpus'[x].ulid /\ row.target # corpus'[x].ulid
    BY <1>1, FileIsFormatted DEF UnstampedIsUnknown
  <2>1. ~corpus[x].stamped /\ corpus'[x].ulid = corpus[x].ulid /\ corpus[x].ulid \in Ulids
    BY FileIsFormatted, EntryIs DEF HealInv, HealTypeOK
  <2>2. /\ \A y \in DOMAIN corpus : corpus[y].ref # corpus[x].ulid
        /\ \A row \in ledger : row.source # corpus[x].ulid /\ row.target # corpus[x].ulid
    BY <2>1 DEF HealInv, UnstampedIsUnknown
  <2>3. \A y \in DOMAIN corpus : corpus'[y].ref = corpus[y].ref \/ corpus'[y].ref \in Names
    BY FileIsFormatted
  <2> QED
    BY <2>1, <2>2, <2>3, TokensAre
<1>7. CalmFmtFits'
  <2> SUFFICES ASSUME fmt.calm
               PROVE  /\ fmt.ledger = ledger
                      /\ fmt.index \subseteq BuildRefIndex'
                      /\ \A r \in BuildRefIndex' : r \in fmt.index \/ Unpointed(r.ulid)'
                      /\ fmt.whole => \A x \in DOMAIN corpus \ (fmt.todo \ {s}) : Healed(x, fmt.index)'
    BY <1>1, <1>2, FileIsFormatted DEF CalmFmtFits, Healed
  <2>1. /\ fmt.ledger = ledger /\ fmt.index \subseteq BuildRefIndex
        /\ \A r \in BuildRefIndex : r \in fmt.index \/ Unpointed(r.ulid)
        /\ fmt.whole => \A x \in DOMAIN corpus \ fmt.todo : Healed(x, fmt.index)
    BY FileIsFormatted DEF HealInv, CalmFmtFits
  <2>2. BuildRefIndex \subseteq BuildRefIndex'
    BY FileIsFormatted, IndexIs
  <2>3. ASSUME NEW r \in BuildRefIndex', r \notin fmt.index
        PROVE  Unpointed(r.ulid)'
    <3>1. PICK x \in DOMAIN corpus' :
            corpus'[x].stamped /\ r = [name |-> corpus'[x].name, ulid |-> corpus'[x].ulid]
      BY IndexIs
    <3>2. x \in DOMAIN corpus /\ r = [name |-> corpus[x].name, ulid |-> corpus[x].ulid] /\ r.ulid = corpus[x].ulid
          /\ corpus[x].ulid \in Ulids
      BY <3>1, FileIsFormatted, EntryIs DEF HealInv, HealTypeOK
    <3>3. /\ \A y \in DOMAIN corpus : corpus[y].ref # r.ulid
          /\ \A row \in ledger : row.target # r.ulid
      <4>1. CASE corpus[x].stamped
        <5>1. r \in BuildRefIndex
          BY <3>2, <4>1, IndexIs
        <5> QED
          BY <2>1, <2>3, <5>1 DEF Unpointed
      <4>2. CASE ~corpus[x].stamped
        BY <3>2, <4>2 DEF HealInv, UnstampedIsUnknown
      <4> QED
        BY <4>1, <4>2
    <3>4. \A y \in DOMAIN corpus : corpus'[y].ref = corpus[y].ref \/ corpus'[y].ref \in Names
      BY FileIsFormatted
    <3>5. \A y \in DOMAIN corpus : corpus'[y].ref # r.ulid
      BY <3>2, <3>3, <3>4, TokensAre
    <3> QED
      BY <1>1, <3>3, <3>5, FileIsFormatted DEF Unpointed
  <2>4. Healed(s, fmt.index)'
    <3>1. CanonicalTarget(Formatted(s), fmt.index, ledger) = {} /\ Formatted(s).stamped
      BY <2>1, FormattedIs DEF HealInv
    <3>2. /\ \A r \in fmt.index :
               /\ r.ulid # Formatted(s).ref
               /\ \A row \in ledger :
                    row.source = Formatted(s).ulid /\ row.token = Formatted(s).ref /\ row.target = r.ulid =>
                      \E x \in fmt.index : x.name = Formatted(s).ref
      BY <3>1, TargetIs
    <3> QED
      BY <1>1, <1>2, <3>1, <3>2, FileIsFormatted DEF Healed
  <2>5. \A x \in DOMAIN corpus : x # s /\ Healed(x, fmt.index) => Healed(x, fmt.index)'
    BY <1>1, <1>2, FileIsFormatted DEF Healed
  <2> QED
    BY <2>1, <2>2, <2>3, <2>4, <2>5
<1>8. SettledFits'
  <2>1. CASE corpus' = corpus
    BY <1>1, <2>1, CorpusStays DEF HealInv, SettledFits, Healed
  <2>2. CASE corpus' # corpus
    BY <1>1, <2>2 DEF SettledFits
  <2> QED
    BY <2>1, <2>2
<1> QED
  BY <1>3, <1>4, <1>5, <1>6, <1>7, <1>8 DEF HealInv

LEMMA FileIsGone ==
  ASSUME HealInv, NEW s, s \notin DOMAIN corpus, FmtFile(s)
  PROVE  HealInv'
<1>1. /\ fmt' = [fmt EXCEPT !.todo = @ \ {s}]
      /\ settled' = IF corpus' # corpus THEN "edit" ELSE settled
      /\ UNCHANGED <<written, ledger, locked, healCounters>>
      /\ corpus' = [x \in DOMAIN corpus |-> IF x = s THEN Formatted(s) ELSE corpus[x]]
  BY DEF FmtFile
<1>2. corpus' = corpus
  <2>1. corpus' = [x \in DOMAIN corpus |-> corpus[x]]
    BY <1>1
  <2> QED
    BY <2>1 DEF HealInv, HealTypeOK, CorpusTypeOK
<1>3. /\ fmt' \in [at : {"idle", "ledger", "files"}, index : SUBSET RefIndexRow,
                   ledger : SUBSET LockEdge, todo : SUBSET Sources, whole : BOOLEAN, calm : BOOLEAN]
      /\ fmt'.at = fmt.at /\ fmt'.ledger = fmt.ledger /\ fmt'.index = fmt.index /\ fmt'.todo = fmt.todo \ {s}
      /\ fmt'.whole = fmt.whole /\ fmt'.calm = fmt.calm
  <2>1. PICK todo \in SUBSET Sources : todo = fmt.todo \ {s}
    BY DEF HealInv, HealTypeOK, CorpusTypeOK
  <2>2. fmt' = [fmt EXCEPT !.todo = todo]
    BY <1>1, <2>1
  <2> QED
    BY <2>1, <2>2 DEF HealInv, HealTypeOK, CorpusTypeOK
<1>4. HealTypeOK'
  BY <1>1, <1>2, <1>3 DEF HealInv, HealTypeOK, healCounters, CorpusTypeOK
<1>5. CalmFmtFits'
  BY <1>1, <1>2, <1>3, CorpusStays DEF HealInv, CalmFmtFits, Healed, Unpointed
<1> QED
  BY <1>1, <1>2, <1>4, <1>5, RestStays DEF HealInv

LEMMA HealInitially ==
  ASSUME HealInit
  PROVE  HealInv
<1>1. PICK files \in SUBSET Sources :
        \E name \in [files -> Names], ulid \in [files -> 1..Cardinality(files)], ref \in [files -> Names \cup {Blank}] :
          /\ IsInjective(name) /\ IsInjective(ulid)
          /\ corpus = [s \in files |-> [ulid |-> ulid[s], name |-> name[s], stamped |-> TRUE, ref |-> ref[s]]]
  BY DEF HealInit
<1>2. PICK name \in [files -> Names], ulid \in [files -> 1..Cardinality(files)], ref \in [files -> Names \cup {Blank}] :
          /\ IsInjective(name) /\ IsInjective(ulid)
          /\ corpus = [s \in files |-> [ulid |-> ulid[s], name |-> name[s], stamped |-> TRUE, ref |-> ref[s]]]
  BY <1>1
<1>3. /\ written = Cardinality(DOMAIN corpus) /\ ledger = EdgeLedger /\ locked = EdgeQuads
      /\ fmt = NoFmt /\ settled = "edit" /\ edits = 0 /\ fmts = 0 /\ locks = 0
  BY DEF HealInit
<1>4. written = Cardinality(files) /\ written \in Nat /\ written <= MaxEntries /\ MaxEntries \in Nat
  <2>1. IsFiniteSet(files) /\ Cardinality(files) <= Cardinality(Sources)
    BY FS_Subset, RefHealingAssumption
  <2>2. Cardinality(files) \in Nat /\ Cardinality(Sources) \in Nat
    BY <2>1, FS_CardinalityType, RefHealingAssumption
  <2> QED
    BY <1>2, <1>3, <2>1, <2>2, RefHealingAssumption
<1>5. PICK yes \in BOOLEAN : yes = TRUE
  OBVIOUS
<1>6. /\ DOMAIN corpus = files
      /\ \A s \in files : corpus[s] = [ulid |-> ulid[s], name |-> name[s], stamped |-> yes, ref |-> ref[s]]
  BY <1>2, <1>5
<1>7. \A s \in files : ulid[s] \in Ulids /\ ulid[s] <= written /\ name[s] \in Names /\ ref[s] \in Names \cup {Blank}
  BY <1>2, <1>4 DEF Ulids
<1>8. CorpusTypeOK
  <2>1. \A s \in files : corpus[s] \in AuthoredEntry
    BY <1>6, <1>7 DEF AuthoredEntry, Tokens
  <2> QED
    BY <1>2, <1>6, <2>1 DEF CorpusTypeOK
<1>9. /\ \A s \in files : corpus[s].ulid = ulid[s] /\ corpus[s].name = name[s] /\ corpus[s].ref = ref[s]
      /\ \A s \in files : corpus[s].stamped = yes
  BY <1>6
<1>10. CorpusFits
  <2>1. \A s, t \in files : name[s] = name[t] \/ ulid[s] = ulid[t] => s = t
    BY <1>2 DEF IsInjective
  <2>2. \A s \in files : ref[s] \notin Ulids
    BY <1>7, TokensAre DEF Tokens
  <2> QED
    BY <1>6, <1>7, <1>9, <2>1, <2>2 DEF CorpusFits
<1>11. EdgeLedger \subseteq LockEdge /\ LedgerFits
  BY <1>3, <1>4, <1>8, <1>10, EdgeLedgerFits DEF LedgerFits
<1>12. EdgeQuads \subseteq [source : Names, target : Tokens]
  BY <1>8, AuthoredIs, EntryIs DEF EdgeQuads, Referring
<1>13. PICK no \in BOOLEAN : no = FALSE
  OBVIOUS
<1>14. /\ fmt \in [at : {"idle", "ledger", "files"}, index : SUBSET RefIndexRow,
                   ledger : SUBSET LockEdge, todo : SUBSET Sources, whole : BOOLEAN, calm : BOOLEAN]
       /\ fmt.at = "idle"
  <2>1. fmt = [at |-> "idle", index |-> {}, ledger |-> {}, todo |-> {}, whole |-> no, calm |-> no]
    BY <1>3, <1>13 DEF NoFmt
  <2> QED
    BY <2>1
<1>15. HealTypeOK
  <2>1. written \in 0..MaxEntries /\ edits \in 0..MaxEdits /\ fmts \in 0..MaxFmts /\ locks \in 0..MaxLocks
    BY <1>3, <1>4, RefHealingAssumption
  <2> QED
    BY <1>3, <1>8, <1>11, <1>12, <1>14, <2>1 DEF HealTypeOK
<1>16. UnstampedIsUnknown
  BY <1>5, <1>6, <1>9 DEF UnstampedIsUnknown
<1>17. CalmFmtFits /\ SettledFits
  BY <1>3, <1>14 DEF CalmFmtFits, SettledFits
<1> QED
  BY <1>10, <1>11, <1>15, <1>16, <1>17 DEF HealInv

LEMMA HealStays ==
  ASSUME HealInv, UNCHANGED healVars
  PROVE  HealInv'
<1>1. UNCHANGED <<corpus, written, ledger, locked, fmt, settled, edits, fmts, locks>>
  BY DEF healVars, healCounters
<1>2. HealTypeOK'
  BY <1>1 DEF HealInv, HealTypeOK, CorpusTypeOK
<1>3. CalmFmtFits'
  BY <1>1, CorpusStays DEF HealInv, CalmFmtFits, Healed, Unpointed
<1> QED
  BY <1>1, <1>2, <1>3, RestStays DEF HealInv

LEMMA HealStep ==
  ASSUME HealInv, [HealNext]_healVars
  PROVE  HealInv'
<1>1. ASSUME NEW s \in Sources, NEW name \in Free, NEW ref \in Writable(s), WriteEntry(s, name, ref)
      PROVE  HealInv'
  BY <1>1, EntryIsWritten
<1>2. ASSUME NEW s \in Sources, NEW name \in Free, RenameEntry(s, name)
      PROVE  HealInv'
  BY <1>2, EntryIsRenamed
<1>3. ASSUME NEW s \in Sources, NEW ref \in Writable(s), Refer(s, ref)
      PROVE  HealInv'
  BY <1>3, EntryRefers
<1>4. ASSUME NEW s \in Sources, DeleteEntry(s)
      PROVE  HealInv'
  BY <1>4, EntryIsDeleted
<1>5. ASSUME NEW s \in Sources, FmtFile(s)
      PROVE  HealInv'
  BY <1>5, FormattedFits, FileIsGone
<1>6. ASSUME StartFmt(DOMAIN corpus) \/ \E s \in DOMAIN corpus : StartFmt({s})
      PROVE  HealInv'
  <2>1. PICK files \in SUBSET DOMAIN corpus : StartFmt(files)
    BY <1>6
  <2> QED
    BY <2>1, FmtStarts
<1>7. CASE ReadLedger
  BY <1>7, LedgerIsRead
<1>8. CASE EndFmt
  BY <1>8, FmtEnds
<1>9. CASE LockEdges
  BY <1>9, EdgesAreLocked
<1>10. CASE UNCHANGED healVars
  BY <1>10, HealStays
<1> QED
  BY <1>1, <1>2, <1>3, <1>4, <1>5, <1>6, <1>7, <1>8, <1>9, <1>10 DEF HealNext

\* The gates of `markspec check` are silent after a whole, undisturbed fmt, and
\* after a lock that follows it.
LEMMA HealedPasses ==
  ASSUME HealInv
  PROVE  ChecksPass
<1>1. ASSUME settled # "edit", NEW s \in DOMAIN corpus
      PROVE  Canonical(Stamped(corpus[s]), BuildRefIndex, ledger) = corpus[s]
  <2>1. corpus[s].stamped /\ CanonicalTarget(corpus[s], BuildRefIndex, ledger) = {}
    BY <1>1, TargetIs DEF HealInv, SettledFits, Healed
  <2>2. Stamped(corpus[s]) = corpus[s]
    BY <2>1, EntryIs, StampedIs DEF HealInv, HealTypeOK
  <2> QED
    BY <2>1, <2>2 DEF Canonical
<1>2. settled # "edit" => ~FmtDrift
  BY <1>1, AuthoredIs DEF FmtDrift
<1>3. settled = "lock" => ~LockDrift
  BY DEF HealInv, SettledFits, LockDrift
<1> QED
  BY <1>2, <1>3 DEF ChecksPass

\* ChecksPass, for any files, names, edits and commands: what fmt and lock leave
\* is what fmtDriftGate and lockfileDriftGate accept.
THEOREM ChecksStayPassing == HealSpec => []ChecksPass
<1>1. HealInit => HealInv
  BY HealInitially
<1>2. HealInv /\ [HealNext]_healVars => HealInv'
  BY HealStep
<1>3. HealInv => ChecksPass
  BY HealedPasses
<1> QED
  BY <1>1, <1>2, <1>3, PTL DEF HealSpec

-------------------------------------------------------------------------------
(***************************************************************************)
(* What a reference points at.                                             *)
(***************************************************************************)
\* The reference of s resolves to the entry of t; the ledger knows it as that of t.
Hits(t, s) == corpus[t].name = corpus[s].ref \/ (corpus[t].stamped /\ corpus[t].ulid = corpus[s].ref)
Recorded(t, s) ==
  /\ corpus[t].stamped /\ corpus[s].stamped
  /\ [source |-> corpus[s].ulid, token |-> corpus[s].ref, target |-> corpus[t].ulid] \in ledger

LEMMA LinkIs ==
  ASSUME NEW s
  PROVE  \A u : u \in LinkOf(s) <=>
           \E t \in DOMAIN corpus :
             u = corpus[t].ulid /\ (Hits(t, s) \/ ((\A h \in DOMAIN corpus : ~Hits(h, s)) /\ Recorded(t, s)))
<1> DEFINE e == corpus[s]
           renamed == {x \in Authored : x.stamped /\ e.stamped
                         /\ [source |-> e.ulid, token |-> e.ref, target |-> x.ulid] \in ledger}
<1>1. \A x : x \in Resolved(e.ref) <=> \E t \in DOMAIN corpus : x = corpus[t] /\ Hits(t, s)
  BY ResolvedIs DEF Hits
<1>2. \A x : x \in renamed <=> \E t \in DOMAIN corpus : x = corpus[t] /\ Recorded(t, s)
  BY AuthoredIs DEF Recorded
<1>3. LinkOf(s) = {x.ulid : x \in IF Resolved(e.ref) # {} THEN Resolved(e.ref) ELSE renamed}
  BY DEF LinkOf
<1> HIDE DEF renamed
<1>4. CASE Resolved(e.ref) # {}
  BY <1>1, <1>3, <1>4
<1>5. CASE Resolved(e.ref) = {}
  BY <1>1, <1>2, <1>3, <1>5
<1> QED
  BY <1>4, <1>5

LEMMA LinkIsThen ==
  ASSUME NEW s
  PROVE  \A u : u \in LinkOf(s)' <=>
           \E t \in DOMAIN corpus' :
             u = corpus'[t].ulid /\ (Hits(t, s)' \/ ((\A h \in DOMAIN corpus' : ~Hits(h, s)') /\ Recorded(t, s)'))
<1> DEFINE e == corpus[s]
           byRef == Resolved(e.ref)
           renamed == {x \in Authored : x.stamped /\ e.stamped
                         /\ [source |-> e.ulid, token |-> e.ref, target |-> x.ulid] \in ledger}
<1>1. \A x : x \in byRef' <=> \E t \in DOMAIN corpus' : x = corpus'[t] /\ Hits(t, s)'
  BY AuthoredIs DEF Resolved, Hits
<1>2. \A x : x \in renamed' <=> \E t \in DOMAIN corpus' : x = corpus'[t] /\ Recorded(t, s)'
  BY AuthoredIs DEF Recorded
<1>3. LinkOf(s)' = {x.ulid : x \in IF byRef' # {} THEN byRef' ELSE renamed'}
  BY DEF LinkOf
<1> HIDE DEF renamed, byRef
<1>4. CASE byRef' # {}
  BY <1>1, <1>3, <1>4
<1>5. CASE byRef' = {}
  BY <1>1, <1>2, <1>3, <1>5
<1> QED
  BY <1>4, <1>5

\* fmt keeps the reference as it is.
LEMMA KeptLinkStays ==
  ASSUME HealInv, NEW s \in DOMAIN corpus, FmtFile(s), corpus'[s].ref = corpus[s].ref
  PROVE  LinkOf(s)' = LinkOf(s)
<1>1. /\ DOMAIN corpus' = DOMAIN corpus /\ ledger' = ledger /\ corpus'[s].stamped
      /\ \A t \in DOMAIN corpus :
           /\ corpus'[t].name = corpus[t].name /\ corpus'[t].ulid = corpus[t].ulid
           /\ corpus[t].stamped => corpus'[t].stamped
  BY FileIsFormatted DEF FmtFile
<1>2. \A t \in DOMAIN corpus : ~corpus[t].stamped =>
        /\ corpus[s].ref # corpus[t].ulid
        /\ \A row \in ledger : row.source # corpus[t].ulid /\ row.target # corpus[t].ulid
  BY DEF HealInv, UnstampedIsUnknown
<1>3. \A t \in DOMAIN corpus : Hits(t, s)' <=> Hits(t, s)
  BY <1>1, <1>2 DEF Hits
<1>4. \A t \in DOMAIN corpus : Recorded(t, s)' <=> Recorded(t, s)
  <2> SUFFICES ASSUME NEW t \in DOMAIN corpus,
                      NEW row, row = [source |-> corpus[s].ulid, token |-> corpus[s].ref, target |-> corpus[t].ulid],
                      row \in ledger
               PROVE  corpus[t].stamped /\ corpus[s].stamped
    BY <1>1 DEF Recorded
  <2> QED
    BY <1>2
<1>5. \A u : u \in LinkOf(s)' <=> u \in LinkOf(s)
  BY <1>1, <1>3, <1>4, LinkIs, LinkIsThen
<1> QED
  BY <1>5

\* fmt writes the display ID of what the reference points at.
LEMMA MovedLinkStays ==
  ASSUME HealInv, NEW s \in DOMAIN corpus, FmtFile(s), fmt.calm,
         \A t \in DOMAIN corpus : Hits(t, s) => [name |-> corpus[t].name, ulid |-> corpus[t].ulid] \in fmt.index,
         CanonicalTarget(corpus[s], fmt.index, fmt.ledger) # {}
  PROVE  LinkOf(s)' = LinkOf(s)
<1>1. /\ fmt.at = "files" /\ DOMAIN corpus' = DOMAIN corpus /\ corpus'[s] = Formatted(s)
      /\ \A t \in DOMAIN corpus :
           /\ corpus'[t].name = corpus[t].name /\ corpus'[t].ulid = corpus[t].ulid
           /\ corpus[t].stamped => corpus'[t].stamped
  BY FileIsFormatted
<1>2. fmt.ledger = ledger /\ fmt.index \subseteq BuildRefIndex
  BY <1>1 DEF HealInv, CalmFmtFits
<1>3. PICK r \in CanonicalTarget(corpus[s], fmt.index, fmt.ledger) : Formatted(s).ref = r.name
  BY FormattedIs DEF HealInv
<1>4. /\ r \in fmt.index
      /\ \/ r.ulid = corpus[s].ref
         \/ /\ ~\E x \in fmt.index : x.name = corpus[s].ref
            /\ \E row \in ledger : row.source = corpus[s].ulid /\ row.token = corpus[s].ref /\ row.target = r.ulid
  BY <1>2, <1>3 DEF CanonicalTarget
<1>5. PICK y \in DOMAIN corpus : corpus[y].stamped /\ r = [name |-> corpus[y].name, ulid |-> corpus[y].ulid]
  BY <1>2, <1>4, IndexIs
<1>6. r.name = corpus[y].name /\ r.ulid = corpus[y].ulid /\ r.name \in Names /\ r.ulid \in Ulids
  BY <1>5, EntryIs DEF HealInv, HealTypeOK
<1>7. \A u : u \in LinkOf(s)' <=> u = r.ulid
  <2>1. \A t \in DOMAIN corpus : Hits(t, s)' <=> t = y
    <3>1. \A t \in DOMAIN corpus : corpus'[t].ulid \in Ulids /\ corpus'[t].ulid # r.name
      BY <1>1, <1>6, EntryIs, TokensAre DEF HealInv, HealTypeOK
    <3>2. corpus'[s].ref = r.name
      BY <1>1, <1>3
    <3>3. \A t \in DOMAIN corpus : Hits(t, s)' <=> corpus[t].name = corpus[y].name
      BY <1>1, <1>6, <3>1, <3>2 DEF Hits
    <3> QED
      BY <3>3 DEF HealInv, CorpusFits
  <2> QED
    BY <1>1, <1>6, <2>1, LinkIsThen
<1>8. \A u : u \in LinkOf(s) <=> u = r.ulid
  <2>1. CASE r.ulid = corpus[s].ref
    <3>1. \A t \in DOMAIN corpus : Hits(t, s) <=> t = y
      <4>1. Hits(y, s)
        BY <1>5, <1>6, <2>1 DEF Hits
      <4>2. \A t \in DOMAIN corpus : corpus[t].name # corpus[s].ref
        BY <1>6, <2>1, EntryIs, TokensAre DEF HealInv, HealTypeOK
      <4>3. \A t \in DOMAIN corpus : corpus[t].ulid = corpus[y].ulid => t = y
        BY DEF HealInv, CorpusFits
      <4> QED
        BY <1>6, <2>1, <4>1, <4>2, <4>3 DEF Hits
    <3> QED
      BY <1>6, <3>1, LinkIs
  <2>2. CASE r.ulid # corpus[s].ref
    <3>1. ~\E x \in fmt.index : x.name = corpus[s].ref
      BY <1>4, <2>2
    <3>2. PICK row \in ledger : row.source = corpus[s].ulid /\ row.token = corpus[s].ref /\ row.target = r.ulid
      BY <1>4, <2>2
    <3>3. \A t \in DOMAIN corpus : ~Hits(t, s)
      <4> SUFFICES ASSUME NEW t \in DOMAIN corpus, Hits(t, s)
                   PROVE  FALSE
        OBVIOUS
      <4>1. corpus[t].name # corpus[s].ref
        BY <3>1
      <4>2. corpus[t].stamped /\ corpus[t].ulid = corpus[s].ref
        BY <4>1 DEF Hits
      <4>3. row.token \in Ulids
        BY <3>2, <4>2, EntryIs DEF HealInv, HealTypeOK
      <4>4. row.target = row.token \/ row.target = NoUlid
        BY <4>3 DEF HealInv, LedgerFits
      <4> QED
        BY <1>6, <2>2, <3>2, <4>4, TokensAre DEF Tokens
    <3>4. row = [source |-> corpus[s].ulid, token |-> corpus[s].ref, target |-> r.ulid]
      BY <3>2 DEF HealInv, HealTypeOK, LockEdge
    <3>5. corpus[s].stamped
      BY <3>2 DEF HealInv, UnstampedIsUnknown
    <3>6. \A t \in DOMAIN corpus : Recorded(t, s) <=> t = y
      <4>1. Recorded(y, s)
        BY <1>5, <1>6, <3>4, <3>5 DEF Recorded
      <4>2. ASSUME NEW t \in DOMAIN corpus, Recorded(t, s)
            PROVE  t = y
        <5>1. PICK q : q = [source |-> corpus[s].ulid, token |-> corpus[s].ref, target |-> corpus[t].ulid]
          OBVIOUS
        <5>2. q \in ledger
          BY <4>2, <5>1 DEF Recorded
        <5>3. q = row
          BY <3>2, <5>1, <5>2 DEF HealInv, LedgerFits
        <5>4. corpus[t].ulid = corpus[y].ulid
          BY <1>6, <3>2, <5>1, <5>3
        <5> QED
          BY <5>4 DEF HealInv, CorpusFits
      <4> QED
        BY <4>1, <4>2
    <3> QED
      BY <1>6, <3>3, <3>6, LinkIs
  <2> QED
    BY <2>1, <2>2
<1> QED
  BY <1>7, <1>8

LEMMA LinksAreKept ==
  ASSUME HealInv, NEW s \in DOMAIN corpus, FmtFile(s), fmt.calm,
         \A t \in Resolved(corpus[s].ref) : [name |-> t.name, ulid |-> t.ulid] \in fmt.index
  PROVE  LinkOf(s)' = LinkOf(s)
<1>1. CASE CanonicalTarget(corpus[s], fmt.index, fmt.ledger) = {}
  <2>1. corpus'[s].ref = corpus[s].ref
    BY <1>1, FileIsFormatted, FormattedIs DEF HealInv
  <2> QED
    BY <2>1, KeptLinkStays
<1>2. CASE CanonicalTarget(corpus[s], fmt.index, fmt.ledger) # {}
  <2>1. \A t \in DOMAIN corpus : Hits(t, s) => [name |-> corpus[t].name, ulid |-> corpus[t].ulid] \in fmt.index
    BY ResolvedIs DEF Hits
  <2> QED
    BY <1>2, <2>1, MovedLinkStays
<1> QED
  BY <1>1, <1>2

\* KeepsLinks, for any files, names, edits and commands: what canonicalizeRefs
\* writes points where the reference did.
THEOREM LinksStay == HealSpec => KeepsLinks
<1> DEFINE LinksHold ==
      \A s \in DOMAIN corpus :
        /\ FmtFile(s) /\ fmt.calm
        /\ \A t \in Resolved(corpus[s].ref) : [name |-> t.name, ulid |-> t.ulid] \in fmt.index
        => LinkOf(s)' = LinkOf(s)
<1>1. HealInit => HealInv
  BY HealInitially
<1>2. HealInv /\ [HealNext]_healVars => HealInv'
  BY HealStep
<1>3. HealInv /\ [HealNext]_healVars => [LinksHold]_healVars
  BY LinksAreKept
<1>4. HealSpec => [][LinksHold]_healVars
  BY <1>1, <1>2, <1>3, PTL DEF HealSpec
<1> QED
  BY <1>4 DEF KeepsLinks

-------------------------------------------------------------------------------
(***************************************************************************)
(* The projects of a tree of directories, whatever their configurations,   *)
(* the rules in it and its hidden directories.  The climb from a project   *)
(* ends at the outermost one, so all surfaces start from the same place.   *)
(***************************************************************************)

\* The directories above a directory are in a line, each above the next.
LEMMA AboveIsLine ==
  ASSUME NEW d \in Dirs
  PROVE  /\ Above(d) \subseteq Dirs /\ d \notin Above(d) /\ Depth(d) \in Nat
         /\ \A x \in Above(d) : Above(x) \subseteq Above(d) /\ Depth(x) < Depth(d)
         /\ \A x, y \in Above(d) : x = y \/ x \in Above(y) \/ y \in Above(x)
<1>1. /\ Path[d] \in Seq(Dirs) /\ Len(Path[d]) \in Nat
      /\ \A i \in 1..Len(Path[d]) : Path[d][i] \in Dirs /\ Path[Path[d][i]] = SubSeq(Path[d], 1, i)
  BY ProjectDiscoveryAssumption
<1>2. \A i \in 1..Len(Path[d]) :
        /\ Depth(Path[d][i]) = i
        /\ Above(Path[d][i]) = {Path[d][j] : j \in 1..(i - 1)}
  <2> SUFFICES ASSUME NEW i \in 1..Len(Path[d])
               PROVE  /\ Depth(Path[d][i]) = i
                      /\ Above(Path[d][i]) = {Path[d][j] : j \in 1..(i - 1)}
    OBVIOUS
  <2>1. Path[Path[d][i]] = SubSeq(Path[d], 1, i)
    BY <1>1
  <2>2. Len(SubSeq(Path[d], 1, i)) = i /\ \A j \in 1..i : SubSeq(Path[d], 1, i)[j] = Path[d][j]
    BY <1>1
  <2> QED
    BY <2>1, <2>2 DEF Depth, Above
<1>3. Above(d) = {Path[d][i] : i \in 1..(Len(Path[d]) - 1)} /\ Depth(d) = Len(Path[d])
  BY DEF Above, Depth
<1>4. d \notin Above(d)
  BY <1>1, <1>2, <1>3
<1>5. ASSUME NEW x \in Above(d), NEW y \in Above(d) PROVE x = y \/ x \in Above(y) \/ y \in Above(x)
  <2>1. PICK i \in 1..(Len(Path[d]) - 1) : x = Path[d][i]
    BY <1>3
  <2>2. PICK j \in 1..(Len(Path[d]) - 1) : y = Path[d][j]
    BY <1>3
  <2>3. i \in 1..Len(Path[d]) /\ j \in 1..Len(Path[d])
    BY <1>1
  <2>4. i = j \/ i \in 1..(j - 1) \/ j \in 1..(i - 1)
    BY <1>1
  <2>5. /\ i \in 1..(j - 1) => x \in Above(y)
        /\ j \in 1..(i - 1) => y \in Above(x)
    BY <1>2, <2>1, <2>2, <2>3
  <2> QED
    BY <2>1, <2>2, <2>4, <2>5
<1>6. ASSUME NEW x \in Above(d) PROVE Above(x) \subseteq Above(d) /\ Depth(x) < Depth(d)
  <2>1. PICK i \in 1..(Len(Path[d]) - 1) : x = Path[d][i]
    BY <1>3
  <2>2. i \in 1..Len(Path[d]) /\ i < Len(Path[d]) /\ 1..(i - 1) \subseteq 1..(Len(Path[d]) - 1)
    BY <1>1
  <2>3. Depth(x) = i /\ Above(x) = {Path[d][j] : j \in 1..(i - 1)}
    BY <1>2, <2>1, <2>2
  <2> QED
    BY <1>3, <2>2, <2>3
<1> QED
  BY <1>1, <1>3, <1>4, <1>5, <1>6

LEMMA DeepestOf ==
  ASSUME NEW d \in Dirs, NEW S \in SUBSET (Above(d) \cup {d}), S # {}
  PROVE  Deepest(S) \in S /\ \A x \in S : x = Deepest(S) \/ x \in Above(Deepest(S))
<1> DEFINE T == {m \in Nat : \E x \in S : m = Depth(d) - Depth(x)}
<1>1. Depth(d) \in Nat /\ \A x \in S : x \in Dirs /\ Depth(x) \in Nat /\ Depth(x) <= Depth(d)
  BY AboveIsLine
<1>2. T \subseteq Nat /\ T # {}
  <2>1. PICK x \in S : TRUE
    OBVIOUS
  <2>2. Depth(d) - Depth(x) \in T
    BY <1>1, <2>1
  <2> QED
    BY <2>2
<1>3. PICK m \in T : \A k \in T : ~(<<k, m>> \in OpToRel(<, Nat))
  <2>1. IsWellFoundedOn(OpToRel(<, Nat), Nat)
    BY NatLessThanWellFounded
  <2> HIDE DEF T
  <2> QED
    BY <1>2, <2>1, WFMin
<1>4. PICK y \in S : m = Depth(d) - Depth(y)
  OBVIOUS
<1>5. \A x \in S : Depth(x) <= Depth(y)
  <2> SUFFICES ASSUME NEW x \in S PROVE Depth(x) <= Depth(y)
    OBVIOUS
  <2>1. Depth(d) - Depth(x) \in T /\ Depth(d) - Depth(x) \in Nat /\ m \in Nat
    BY <1>1
  <2>2. ~(Depth(d) - Depth(x) < m)
    BY <1>3, <2>1 DEF OpToRel
  <2> QED
    BY <1>1, <1>4, <2>2
<1>6. Deepest(S) \in S /\ \A x \in S : Depth(x) <= Depth(Deepest(S))
  BY <1>5 DEF Deepest
<1>7. ASSUME NEW x \in S, x # Deepest(S) PROVE x \in Above(Deepest(S))
  <2>1. x \notin Above(x) /\ Deepest(S) \in Dirs
    BY <1>1, <1>6, AboveIsLine
  <2>2. Deepest(S) \notin Above(x)
    BY <1>1, <1>6, AboveIsLine
  <2> QED
    BY <1>6, <1>7, <2>2, AboveIsLine
<1> QED
  BY <1>6, <1>7

-------------------------------------------------------------------------------
Configured == projectYaml \cup markspecYaml

\* The nearest root at or above d.
LEMMA NearestIs ==
  ASSUME NEW d \in Dirs, NEW roots
  PROVE  LET S == roots \cap (Above(d) \cup {d})
         IN  /\ S = {} => NearestRoot(d, roots) = NoRoot
             /\ S # {} => /\ NearestRoot(d, roots) \in S
                          /\ \A x \in S : x = NearestRoot(d, roots) \/ x \in Above(NearestRoot(d, roots))
<1> DEFINE S == roots \cap (Above(d) \cup {d})
<1>1. S = {} => NearestRoot(d, roots) = NoRoot
  BY DEF NearestRoot, Deepest
<1>2. NearestRoot(d, roots) = Deepest(S)
  BY DEF NearestRoot
<1>3. S # {} => /\ Deepest(S) \in S /\ \A x \in S : x = Deepest(S) \/ x \in Above(Deepest(S))
  BY DeepestOf
<1> QED
  BY <1>1, <1>2, <1>3

\* A directory has at most one nearest root.
LEMMA NearestIsOnly ==
  ASSUME NEW d \in Dirs, NEW roots, NEW r \in roots \cap (Above(d) \cup {d}),
         \A x \in roots \cap (Above(d) \cup {d}) : r \notin Above(x)
  PROVE  NearestRoot(d, roots) = r
BY NearestIs

LEMMA ConfigRootIs ==
  ASSUME NEW d \in Dirs
  PROVE  LET r == ResolveConfigRoot(d)
         IN  /\ r = NoRoot <=> Configured \cap (Above(d) \cup {d}) = {}
             /\ r # NoRoot => /\ r \in Configured \cap (Above(d) \cup {d})
                              /\ \A x \in projectYaml \cap (Above(d) \cup {d}) :
                                   r \in projectYaml /\ r \notin Above(x)
                              /\ projectYaml \cap (Above(d) \cup {d}) = {} =>
                                   \A x \in markspecYaml \cap (Above(d) \cup {d}) : r \notin Above(x)
<1>1. Above(d) \cup {d} \subseteq Dirs /\ NoRoot \notin Dirs
  BY AboveIsLine, ProjectDiscoveryAssumption
<1>2. \A x \in Above(d) \cup {d} : x \notin Above(x)
  BY <1>1, AboveIsLine
<1>3. \A x, y \in Above(d) \cup {d} : x \in Above(y) => y \notin Above(x)
  BY <1>1, AboveIsLine
<1>4. CASE projectYaml \cap (Above(d) \cup {d}) # {}
  BY <1>1, <1>2, <1>3, <1>4, NearestIs DEF ResolveConfigRoot, Configured
<1>5. CASE projectYaml \cap (Above(d) \cup {d}) = {}
  BY <1>1, <1>2, <1>3, <1>5, NearestIs DEF ResolveConfigRoot, Configured
<1> QED
  BY <1>4, <1>5

-------------------------------------------------------------------------------
\* The home directory is no project.
HomeIsNoProject == Configured \cap Home = {}

\* t is the outermost configured directory at or above d.
IsTop(d, t) == t \in Configured \cap (Above(d) \cup {d}) /\ Configured \cap Above(t) = {}

LEMMA TopIsOnly ==
  ASSUME NEW d \in Dirs, NEW t, NEW u, IsTop(d, t), IsTop(d, u)
  PROVE  t = u
BY AboveIsLine DEF IsTop

LEMMA TopBelow ==
  ASSUME NEW d \in Dirs, NEW x \in Above(d) \cup {d}, NEW t, IsTop(x, t)
  PROVE  IsTop(d, t)
BY AboveIsLine DEF IsTop

LEMMA TopExists ==
  ASSUME NEW d \in Dirs, Configured \cap (Above(d) \cup {d}) # {}
  PROVE  \E t : IsTop(d, t)
<1> DEFINE S == Configured \cap (Above(d) \cup {d})
           T == {Depth(x) : x \in S}
<1>1. \A x \in S : x \in Dirs /\ Depth(x) \in Nat
  BY AboveIsLine
<1>2. T \subseteq Nat /\ T # {}
  BY <1>1
<1>3. PICK m \in T : \A k \in T : ~(<<k, m>> \in OpToRel(<, Nat))
  <2>1. IsWellFoundedOn(OpToRel(<, Nat), Nat)
    BY NatLessThanWellFounded
  <2> HIDE DEF T
  <2> QED
    BY <1>2, <2>1, WFMin
<1>4. PICK t \in S : m = Depth(t)
  OBVIOUS
<1>5. \A x \in S : ~(Depth(x) < Depth(t))
  BY <1>1, <1>3, <1>4 DEF OpToRel
<1>6. \A x \in Above(t) : x \in Above(d) /\ Depth(x) < Depth(t)
  BY <1>1, <1>4, AboveIsLine
<1> QED
  BY <1>4, <1>5, <1>6 DEF IsTop

\* The project that the parent of n is in.
StepUp(n) == IF Above(n) = {} THEN NoRoot ELSE ResolveConfigRoot(Deepest(Above(n)))

LEMMA StepUpIs ==
  ASSUME NEW n \in Dirs
  PROVE  /\ Configured \cap Above(n) = {} => StepUp(n) = NoRoot
         /\ Configured \cap Above(n) # {} => StepUp(n) # NoRoot /\ StepUp(n) \in Configured \cap Above(n)
<1>1. CASE Above(n) = {}
  BY <1>1 DEF StepUp
<1>2. CASE Above(n) # {}
  <2> DEFINE parent == Deepest(Above(n))
  <2>1. parent \in Above(n) /\ \A x \in Above(n) : x = parent \/ x \in Above(parent)
    BY <1>2, DeepestOf
  <2>2. parent \in Dirs /\ Above(parent) \cup {parent} = Above(n)
    BY <2>1, AboveIsLine
  <2> QED
    BY <1>2, <2>2, ConfigRootIs DEF StepUp
<1> QED
  BY <1>1, <1>2

\* The climb from a project ends at the outermost one above it.
LEMMA ClimbEnds ==
  ASSUME HomeIsNoProject, NEW n \in Dirs
  PROVE  /\ Configured \cap Above(n) = {} => OutermostFrom[n] = n
         /\ Configured \cap Above(n) # {} => IsTop(n, OutermostFrom[n])
<1> DEFINE Climb(h) == [x \in Dirs |->
             IF StepUp(x) = NoRoot \/ StepUp(x) \in Home THEN x ELSE h[StepUp(x)]]
           Ends(h, x) == /\ Configured \cap Above(x) = {} => h[x] = x
                         /\ Configured \cap Above(x) # {} => IsTop(x, h[x])
           g == [x \in Dirs |-> IF Configured \cap Above(x) = {} THEN x ELSE CHOOSE t : IsTop(x, t)]
<1>1. OutermostFrom = CHOOSE h : h = Climb(h)
  BY Zenon DEF OutermostFrom, StepUp
<1>2. \A h, x : x \in Dirs => Climb(h)[x] = IF Configured \cap Above(x) = {} THEN x ELSE h[StepUp(x)]
  BY StepUpIs DEF HomeIsNoProject
<1>3. \A x \in Dirs : Above(x) \subseteq Dirs
  BY AboveIsLine
<1>4. \A x \in Dirs : Ends(g, x)
  <2> SUFFICES ASSUME NEW x \in Dirs, Configured \cap Above(x) # {} PROVE IsTop(x, CHOOSE t : IsTop(x, t))
    OBVIOUS
  <2> QED
    BY TopExists
<1>5. g = Climb(g)
  <2> SUFFICES ASSUME NEW x \in Dirs PROVE g[x] = Climb(g)[x]
    OBVIOUS
  <2>1. CASE Configured \cap Above(x) = {}
    BY <1>2, <2>1
  <2>2. CASE Configured \cap Above(x) # {}
    <3> DEFINE up == StepUp(x)
    <3>1. up \in Configured \cap Above(x) /\ up \in Dirs
      BY <1>3, <2>2, StepUpIs
    <3>2. IsTop(up, g[up])
      BY <1>4, <3>1 DEF IsTop
    <3>3. IsTop(x, g[up]) /\ IsTop(x, g[x])
      BY <1>4, <2>2, <3>1, <3>2, TopBelow
    <3>4. g[x] = g[up]
      BY <3>3, TopIsOnly
    <3> QED
      BY <1>2, <2>2, <3>4
  <2> QED
    BY <2>1, <2>2
<1>6. OutermostFrom = Climb(OutermostFrom)
  <2> HIDE DEF Climb, g
  <2> QED
    BY <1>1, <1>5
<1> DEFINE T == {m \in Nat : \E x \in Dirs : m = Depth(x) /\ ~Ends(OutermostFrom, x)}
<1>7. \A x \in Dirs : OutermostFrom[x] = IF Configured \cap Above(x) = {} THEN x ELSE OutermostFrom[StepUp(x)]
  <2> HIDE DEF Climb
  <2> QED
    BY <1>2, <1>6
<1>8. T = {}
  <2> SUFFICES ASSUME T # {} PROVE FALSE
    OBVIOUS
  <2>1. PICK m \in T : \A k \in T : ~(<<k, m>> \in OpToRel(<, Nat))
    <3>1. T \subseteq Nat
      OBVIOUS
    <3>2. IsWellFoundedOn(OpToRel(<, Nat), Nat)
      BY NatLessThanWellFounded
    <3> HIDE DEF T
    <3> QED
      BY <3>1, <3>2, WFMin
  <2>2. PICK x \in Dirs : m = Depth(x) /\ ~Ends(OutermostFrom, x)
    OBVIOUS
  <2>3. Configured \cap Above(x) # {}
    BY <1>7, <2>2
  <2> DEFINE up == StepUp(x)
  <2>4. up \in Configured \cap Above(x) /\ up \in Dirs
    BY <1>3, <2>3, StepUpIs
  <2>5. Depth(up) \in Nat /\ Depth(x) \in Nat /\ Depth(up) < Depth(x)
    BY <2>4, AboveIsLine
  <2>6. <<Depth(up), m>> \in OpToRel(<, Nat)
    BY <2>2, <2>5 DEF OpToRel
  <2>7. Depth(up) \notin T
    <3> HIDE DEF T
    <3> QED
      BY <2>1, <2>6
  <2>8. Ends(OutermostFrom, up)
    BY <2>4, <2>5, <2>7
  <2>9. IsTop(up, OutermostFrom[up])
    BY <2>4, <2>8 DEF IsTop
  <2>10. IsTop(x, OutermostFrom[x])
    BY <1>7, <2>3, <2>4, <2>9, TopBelow
  <2> QED
    BY <2>2, <2>3, <2>10
<1>9. Depth(n) \in Nat
  BY AboveIsLine
<1> QED
  BY <1>8, <1>9

LEMMA OutermostIs ==
  ASSUME HomeIsNoProject, NEW d \in Dirs, Configured \cap (Above(d) \cup {d}) # {}
  PROVE  IsTop(d, OutermostOf(d)) /\ OutermostOf(d) # NoRoot
<1> DEFINE r == ResolveConfigRoot(d)
<1>1. r # NoRoot /\ r \in Configured \cap (Above(d) \cup {d})
  BY ConfigRootIs
<1>2. r \in Dirs /\ NoRoot \notin Dirs /\ Above(d) \cup {d} \subseteq Dirs
  BY <1>1, AboveIsLine, ProjectDiscoveryAssumption
<1>3. IsTop(r, OutermostFrom[r])
  BY <1>1, <1>2, ClimbEnds DEF IsTop
<1>4. IsTop(d, OutermostFrom[r])
  BY <1>1, <1>3, TopBelow
<1> QED
  BY <1>1, <1>2, <1>4 DEF OutermostOf, IsTop

-------------------------------------------------------------------------------
\* What is found below an outermost project are configured directories that
\* some directory resolves to.
LEMMA RootsAre ==
  ASSUME NEW top \in Dirs
  PROVE  /\ top \in RootsFrom(top)
         /\ \A r \in RootsFrom(top) : r = top \/ (r \in Dirs /\ top \in Above(r))
         /\ \A r \in RootsFrom(top) \ {top} : \E x \in Dirs : r = ResolveConfigRoot(x)
<1>1. Walk(top, NoRoot) \subseteq Dirs
  BY DEF Walk, Below
<1>2. \A r \in FindNestedProjectRoots(top) : r \in Below(top) /\ \E x \in Dirs : r = ResolveConfigRoot(x)
  BY <1>1 DEF FindNestedProjectRoots
<1> QED
  BY <1>2 DEF RootsFrom, Below

\* The owner of a directory is the nearest of the roots found from the outermost.
LEMMA OwnerIs ==
  ASSUME HomeIsNoProject, NEW d \in Dirs, Configured \cap (Above(d) \cup {d}) # {}
  PROVE  OwnerOf(d) = NearestRoot(d, RootsFrom(OutermostOf(d)))
<1> DEFINE top == OutermostOf(d)
<1>1. IsTop(d, top) /\ top \in Dirs /\ top \in Above(d) \cup {d}
  BY OutermostIs, AboveIsLine DEF IsTop
<1>2. CASE top # ResolveConfigRoot(d)
  BY <1>2 DEF OwnerOf
<1>3. ASSUME top = ResolveConfigRoot(d),
             NEW r \in RootsFrom(top) \cap (Above(d) \cup {d}), top \in Above(r)
      PROVE  FALSE
  <2>1. r \in Dirs /\ r # top
    BY <1>1, <1>3, AboveIsLine
  <2>2. PICK x \in Dirs : r = ResolveConfigRoot(x)
    BY <1>1, <1>3, <2>1, RootsAre
  <2>3. r # NoRoot /\ top # NoRoot
    BY <1>1, <2>1, ProjectDiscoveryAssumption
  <2>4. r \in Configured \cap (Above(x) \cup {x}) /\ top \in Above(x)
    BY <1>3, <2>2, <2>3, ConfigRootIs, AboveIsLine
  <2>5. CASE projectYaml \cap (Above(d) \cup {d}) # {}
    <3>1. top \in projectYaml /\ r \notin projectYaml
      BY <1>3, <2>3, <2>5, ConfigRootIs
    <3> QED
      BY <2>2, <2>3, <2>4, <3>1, ConfigRootIs
  <2>6. CASE projectYaml \cap (Above(d) \cup {d}) = {}
    <3>1. r \in markspecYaml
      BY <1>3, <2>4, <2>6 DEF Configured
    <3> QED
      BY <1>3, <2>3, <2>6, <3>1, ConfigRootIs
  <2> QED
    BY <2>5, <2>6
<1>4. CASE top = ResolveConfigRoot(d)
  <2>1. NearestRoot(d, RootsFrom(top)) = top
    BY <1>1, <1>3, <1>4, RootsAre, NearestIsOnly
  <2> QED
    BY <1>4, <2>1 DEF OwnerOf
<1> QED
  BY <1>2, <1>4

\* From a root of the same outermost project, the nearest of the roots at or
\* below it is the nearest of all.
LEMMA NearestBelow ==
  ASSUME NEW x \in Dirs, NEW roots, NEW root \in roots \cap (Above(x) \cup {x})
  PROVE  NearestRoot(x, {root} \cup (roots \cap Below(root))) = NearestRoot(x, roots)
<1> DEFINE n == NearestRoot(x, roots)
           S == {root} \cup (roots \cap Below(root))
<1>1. n \in roots \cap (Above(x) \cup {x}) /\ \A y \in roots \cap (Above(x) \cup {x}) : y = n \/ y \in Above(n)
  BY NearestIs
<1>2. n \in Dirs /\ Above(n) \subseteq Dirs /\ n \notin Above(n)
  BY <1>1, AboveIsLine
<1>3. n \in S
  BY <1>1, <1>2 DEF Below
<1>4. \A y \in S \cap (Above(x) \cup {x}) : n \notin Above(y)
  <2> SUFFICES ASSUME NEW y \in roots \cap (Above(x) \cup {x}), n \in Above(y) PROVE FALSE
    OBVIOUS
  <2>1. y \in Above(n)
    BY <1>1, <1>2
  <2> QED
    BY <1>2, <2>1, AboveIsLine
<1> QED
  BY <1>1, <1>3, <1>4, NearestIsOnly

DirectoriesFit == projectYaml \subseteq Dirs /\ markspecYaml \subseteq Dirs

LEMMA FilesAreTheSame == DirectoriesFit /\ HomeIsNoProject => SameFilesFromAnywhere
<1> SUFFICES ASSUME DirectoriesFit, HomeIsNoProject PROVE SameFilesFromAnywhere
  OBVIOUS
<1> DEFINE Inside(d) == d \in Dirs /\ Configured \cap (Above(d) \cup {d}) # {}
           Top(d) == OutermostOf(d)
           Roots(d) == RootsFrom(OutermostOf(d))
           owners == {OwnerOf(d) : d \in InProject}
<1>1. \A d \in InProject : Inside(d)
  BY DEF InProject, Configured, Below, DirectoriesFit
<1>2. ASSUME NEW d, Inside(d)
      PROVE  /\ IsTop(d, Top(d)) /\ Top(d) \in Dirs /\ Top(d) \in Roots(d) /\ Top(d) # NoRoot
             /\ OwnerOf(d) = NearestRoot(d, Roots(d))
             /\ OwnerOf(d) \in Roots(d) \cap (Above(d) \cup {d})
  <2>1. IsTop(d, Top(d)) /\ Top(d) \in Dirs /\ Top(d) # NoRoot
    BY <1>2, OutermostIs, AboveIsLine DEF IsTop
  <2>2. Top(d) \in Roots(d) \cap (Above(d) \cup {d})
    BY <2>1, RootsAre DEF IsTop
  <2> QED
    BY <1>2, <2>1, <2>2, OwnerIs, NearestIs
<1>3. ASSUME NEW d, Inside(d), NEW x \in Dirs, d \in Above(x) \cup {x}
      PROVE  Inside(x) /\ Top(x) = Top(d)
  <2>1. Inside(x)
    BY <1>3, AboveIsLine
  <2>2. IsTop(x, Top(d)) /\ IsTop(x, Top(x))
    BY <1>2, <1>3, <2>1, TopBelow
  <2> QED
    BY <1>3, <2>1, <2>2, TopIsOnly
<1>4. ASSUME NEW d, Inside(d)
      PROVE  Inside(Top(d)) /\ Top(Top(d)) = Top(d) /\ ResolveConfigRoot(Top(d)) = Top(d)
  <2>1. Inside(Top(d))
    BY <1>2, <1>4 DEF IsTop
  <2>2. IsTop(Top(d), Top(d)) /\ IsTop(Top(d), Top(Top(d)))
    BY <1>2, <1>4, <2>1 DEF IsTop
  <2>3. ResolveConfigRoot(Top(d)) = Top(d)
    BY <1>2, <1>4, <2>1, ConfigRootIs DEF IsTop
  <2> QED
    BY <2>1, <2>2, <2>3, TopIsOnly
<1>5. SurfacesAgree
  <2> SUFFICES ASSUME NEW d \in InProject PROVE OwnerOf(d) = NearestRoot(d, DiscoverProjectRoots(Top(d)))
    BY DEF SurfacesAgree
  <2>1. Inside(d) /\ Top(d) \in Configured
    BY <1>1, <1>2 DEF IsTop
  <2>2. DiscoverProjectRoots(Top(d)) = Roots(d)
    <3>1. ResolveConfigRoot(Top(d)) = Top(d) /\ Top(d) # NoRoot /\ Top(d) \notin Home
      BY <1>2, <1>4, <2>1 DEF HomeIsNoProject
    <3> QED
      BY <3>1 DEF DiscoverProjectRoots, RootsFrom
  <2> QED
    BY <1>2, <2>1, <2>2
\* A project of a run at root, and a directory at or below it.
<1>6. ASSUME NEW root \in owners, NEW p \in {root} \cup NestedRootsBelow(root), NEW x \in Below(p) \cup {p}
      PROVE  /\ Inside(root) /\ Inside(p) /\ Inside(x) /\ Top(p) = Top(root) /\ Top(x) = Top(root)
             /\ NearestRoot(x, {root} \cup NestedRootsBelow(root)) = OwnerOf(x)
             /\ NearestRoot(x, {p} \cup NestedRootsBelow(p)) = OwnerOf(x)
             /\ NearestRoot(x, {Top(root)} \cup NestedRootsBelow(Top(root))) = OwnerOf(x)
  <2>0. PICK e \in InProject : root = OwnerOf(e)
    OBVIOUS
  <2>1. Inside(e) /\ root \in Roots(e) \cap (Above(e) \cup {e}) /\ IsTop(e, Top(e)) /\ Top(e) \in Dirs
    BY <1>1, <1>2, <2>0
  <2>2. root \in Dirs /\ Top(e) \in Above(root) \cup {root}
    BY <2>1, AboveIsLine, RootsAre
  <2>3. Inside(Top(e)) /\ Top(Top(e)) = Top(e)
    BY <1>4, <2>1
  <2>4. Inside(root) /\ Top(root) = Top(e)
    BY <1>3, <2>2, <2>3
  <2>5. p \in Roots(root) /\ p \in Dirs /\ root \in Above(p) \cup {p}
    BY <2>1, <2>2, <2>4 DEF NestedRootsBelow, Below
  <2>6. Inside(p) /\ Top(p) = Top(root)
    BY <1>3, <2>4, <2>5
  <2>7. x \in Dirs /\ p \in Above(x) \cup {x} /\ root \in Above(x) \cup {x} /\ Top(root) \in Above(x) \cup {x}
    BY <2>2, <2>4, <2>5, AboveIsLine DEF Below
  <2>8. Inside(x) /\ Top(x) = Top(root)
    BY <1>3, <2>6, <2>7
  <2>9. \A r \in {root, p, Top(root)} :
          NearestRoot(x, {r} \cup NestedRootsBelow(r)) = NearestRoot(x, Roots(root))
    <3> SUFFICES ASSUME NEW r \in {root, p, Top(root)}
                 PROVE  NearestRoot(x, {r} \cup NestedRootsBelow(r)) = NearestRoot(x, Roots(root))
      OBVIOUS
    <3>1. Roots(r) = Roots(root) /\ r \in Roots(root) \cap (Above(x) \cup {x})
      BY <1>2, <2>1, <2>3, <2>4, <2>5, <2>6, <2>7
    <3> QED
      BY <2>7, <3>1, NearestBelow DEF NestedRootsBelow
  <2>10. OwnerOf(x) = NearestRoot(x, Roots(root))
    BY <1>2, <2>8
  <2> QED
    BY <2>4, <2>6, <2>8, <2>9, <2>10
<1>7. \A root, from : Walk(root, from) \subseteq Below(root) \cup {root}
  BY DEF Walk
<1>8. BareWalkOwns
  BY <1>6, <1>7 DEF BareWalkOwns, WalkProjects
<1>9. ASSUME NEW root \in owners, NEW p \in {root} \cup NestedRootsBelow(root)
      PROVE  WalkProjects(root, p) = WalkProjects(Top(root), p) /\ WalkProjects(root, p) = Collected(p)
  <2>1. p \in Below(p) \cup {p}
    OBVIOUS
  <2>2. Inside(root) /\ Top(p) = Top(root) /\ Top(Top(root)) = Top(root)
    BY <1>4, <1>6, <1>9, <2>1
  <2>3. \A x \in Walk(p, InheritFor(p, Top(root))) :
          /\ NearestRoot(x, {root} \cup NestedRootsBelow(root)) = OwnerOf(x)
          /\ NearestRoot(x, {p} \cup NestedRootsBelow(p)) = OwnerOf(x)
          /\ NearestRoot(x, {Top(root)} \cup NestedRootsBelow(Top(root))) = OwnerOf(x)
    <3> SUFFICES ASSUME NEW x \in Below(p) \cup {p}
                 PROVE  /\ NearestRoot(x, {root} \cup NestedRootsBelow(root)) = OwnerOf(x)
                        /\ NearestRoot(x, {p} \cup NestedRootsBelow(p)) = OwnerOf(x)
                        /\ NearestRoot(x, {Top(root)} \cup NestedRootsBelow(Top(root))) = OwnerOf(x)
      BY <1>7
    <3> HIDE DEF owners, Top, Inside
    <3> QED
      BY <1>6, <1>9
  <2>4. WalkProjects(root, p) = {x \in Walk(p, InheritFor(p, Top(root))) : OwnerOf(x) = p}
    BY <2>3 DEF WalkProjects
  <2>5. WalkProjects(Top(root), p) = {x \in Walk(p, InheritFor(p, Top(root))) : OwnerOf(x) = p}
    BY <2>2, <2>3 DEF WalkProjects
  <2>6. Collected(p) = {x \in Walk(p, InheritFor(p, Top(root))) : OwnerOf(x) = p}
    BY <2>2, <2>3 DEF Collected
  <2> QED
    BY <2>4, <2>5, <2>6
<1> QED
  BY <1>5, <1>8, <1>9 DEF SameFilesFromAnywhere

\* For any tree and any rules in it: the surfaces agree on the project and the
\* files of a project, unless the home directory is one.
THEOREM FilesAreSame == DirSpec => [](HomeIsNoProject => SameFilesFromAnywhere)
<1>1. DirInit => DirectoriesFit
  BY DEF DirInit, DirectoriesFit
<1>2. DirectoriesFit /\ [DirNext]_dirVars => DirectoriesFit'
  BY DEF DirectoriesFit, DirNext, AddRule, Rename, dirVars
<1> QED
  BY <1>1, <1>2, FilesAreTheSame, PTL DEF DirSpec

-------------------------------------------------------------------------------
(***************************************************************************)
(* `compile`, for any files of any content, any profile and any number of  *)
(* slots, read in any order and changed meanwhile: the graph is that of    *)
(* the entries, each from the first place that has its display ID.         *)
(*                                                                         *)
(* The argument has three parts.  What the compilation joins, file by      *)
(* file, has at each display ID the entry of that place (AllFoundIs).      *)
(* What it generates from these is what the entries say, as long as no two *)
(* share a ULID (GraphIs).  And when it makes the graph all files have     *)
(* been read: the invariant says that the files without a slot are those   *)
(* in the queue, that the slots are of the files in work or free, and that *)
(* a file that is past its reading has its content.                        *)
(***************************************************************************)
NamesOf(s) == {s[n].name : n \in DOMAIN s}

\* Entry n of s is the first of its display ID.
IsFirst(s, n, x) == n \in DOMAIN s /\ s[n].name = x /\ \A m \in 1..(n - 1) : s[m].name # x

\* A set of numbers has a least one.
LEMMA LeastOf ==
  ASSUME NEW S \in SUBSET Nat, S # {}
  PROVE  \E n \in S : \A m \in S : n <= m
<1>1. IsWellFoundedOn(OpToRel(<, Nat), Nat)
  BY NatLessThanWellFounded
<1>2. PICK n \in S : \A m \in S : ~(<<m, n>> \in OpToRel(<, Nat))
  BY <1>1, WFMin
<1>3. \A m \in S : ~(m < n)
  BY <1>2 DEF OpToRel
<1> QED
  BY <1>3

LEMMA FirstExists ==
  ASSUME NEW s \in Seq(FileEntry), NEW x \in NamesOf(s)
  PROVE  \E n : IsFirst(s, n, x)
<1> DEFINE S == {n \in DOMAIN s : s[n].name = x}
<1>1. DOMAIN s = 1..Len(s) /\ Len(s) \in Nat
  OBVIOUS
<1>2. S \in SUBSET Nat /\ S # {}
  BY <1>1 DEF NamesOf
<1>3. PICK n \in S : \A m \in S : n <= m
  <2> HIDE DEF S
  <2> QED
    BY <1>2, LeastOf
<1>4. \A m \in 1..(n - 1) : m \in DOMAIN s /\ ~(n <= m)
  BY <1>1
<1> QED
  BY <1>3, <1>4 DEF IsFirst

LEMMA FirstIs ==
  ASSUME NEW s \in Seq(FileEntry), NEW n, NEW x, IsFirst(s, n, x)
  PROVE  FirstIn(s, x) = s[n] /\ x \in NamesOf(s)
<1>1. ASSUME NEW m, IsFirst(s, m, x) PROVE m = n
  <2>1. m \in Nat /\ n \in Nat /\ m >= 1 /\ n >= 1
    BY <1>1 DEF IsFirst
  <2>2. ~(m \in 1..(n - 1)) /\ ~(n \in 1..(m - 1))
    BY <1>1 DEF IsFirst
  <2> QED
    BY <2>1, <2>2
<1>2. (CHOOSE m \in DOMAIN s : s[m].name = x /\ \A k \in 1..(m - 1) : s[k].name # x) = n
  BY <1>1 DEF IsFirst
<1> QED
  BY <1>2 DEF FirstIn, IsFirst, NamesOf

\* The first entry of a display ID in a sequence after another.
LEMMA FirstJoined ==
  ASSUME NEW s \in Seq(FileEntry), NEW t \in Seq(FileEntry)
  PROVE  /\ s \o t \in Seq(FileEntry) /\ NamesOf(s \o t) = NamesOf(s) \cup NamesOf(t)
         /\ \A x \in NamesOf(s) : FirstIn(s \o t, x) = FirstIn(s, x)
         /\ \A x \in NamesOf(t) \ NamesOf(s) : FirstIn(s \o t, x) = FirstIn(t, x)
<1> DEFINE u == s \o t
<1>1. /\ u \in Seq(FileEntry) /\ Len(u) = Len(s) + Len(t) /\ Len(s) \in Nat /\ Len(t) \in Nat
      /\ \A n \in 1..Len(s) : u[n] = s[n]
      /\ \A n \in 1..Len(t) : u[Len(s) + n] = t[n]
  OBVIOUS
<1>2. /\ DOMAIN s = 1..Len(s) /\ DOMAIN t = 1..Len(t) /\ DOMAIN u = 1..Len(u)
      /\ \A n \in 1..Len(s) : n \in DOMAIN u
      /\ \A n \in 1..Len(t) : Len(s) + n \in DOMAIN u
      /\ \A n \in DOMAIN u : n \in 1..Len(s) \/ \E m \in 1..Len(t) : n = Len(s) + m
  <2>1. DOMAIN s = 1..Len(s) /\ DOMAIN t = 1..Len(t) /\ DOMAIN u = 1..Len(u)
    BY <1>1
  <2>2. ASSUME NEW n \in DOMAIN u, n \notin 1..Len(s) PROVE \E m \in 1..Len(t) : n = Len(s) + m
    <3> HIDE DEF u
    <3>1. n - Len(s) \in 1..Len(t) /\ n = Len(s) + (n - Len(s))
      BY <1>1, <2>1, <2>2
    <3> QED
      BY <3>1
  <2> HIDE DEF u
  <2> QED
    BY <1>1, <2>1, <2>2
<1> HIDE DEF u
<1>3. NamesOf(u) = NamesOf(s) \cup NamesOf(t)
  <2>1. ASSUME NEW n \in DOMAIN u PROVE u[n].name \in NamesOf(s) \cup NamesOf(t)
    <3>1. CASE n \in 1..Len(s)
      BY <1>1, <1>2, <3>1 DEF NamesOf
    <3>2. CASE \E m \in 1..Len(t) : n = Len(s) + m
      BY <1>1, <1>2, <3>2 DEF NamesOf
    <3> QED
      BY <1>2, <3>1, <3>2
  <2>2. ASSUME NEW n \in DOMAIN s PROVE s[n].name \in NamesOf(u)
    <3>1. n \in DOMAIN u /\ u[n] = s[n]
      BY <1>1, <1>2
    <3> QED
      BY <3>1 DEF NamesOf
  <2>3. ASSUME NEW n \in DOMAIN t PROVE t[n].name \in NamesOf(u)
    <3>1. Len(s) + n \in DOMAIN u /\ u[Len(s) + n] = t[n]
      BY <1>1, <1>2
    <3> QED
      BY <3>1 DEF NamesOf
  <2> QED
    BY <2>1, <2>2, <2>3 DEF NamesOf
<1>4. ASSUME NEW x \in NamesOf(s) PROVE FirstIn(u, x) = FirstIn(s, x)
  <2>1. PICK n : IsFirst(s, n, x)
    BY FirstExists
  <2>2. n \in 1..Len(s) /\ n \in DOMAIN u /\ u[n] = s[n]
    BY <1>1, <1>2, <2>1 DEF IsFirst
  <2>3. ASSUME NEW m \in 1..(n - 1) PROVE u[m].name # x
    <3>1. m \in 1..Len(s)
      BY <1>1, <2>2
    <3>2. u[m] = s[m]
      BY <1>1, <3>1
    <3> QED
      BY <2>1, <2>3, <3>2 DEF IsFirst
  <2>4. IsFirst(u, n, x)
    BY <2>1, <2>2, <2>3 DEF IsFirst
  <2>5. FirstIn(u, x) = u[n] /\ FirstIn(s, x) = s[n]
    BY <1>1, <2>1, <2>4, FirstIs
  <2> QED
    BY <2>2, <2>5
<1>5. ASSUME NEW x \in NamesOf(t) \ NamesOf(s) PROVE FirstIn(u, x) = FirstIn(t, x)
  <2>1. PICK n : IsFirst(t, n, x)
    BY FirstExists
  <2> DEFINE k == Len(s) + n
  <2>2. n \in 1..Len(t) /\ k \in DOMAIN u /\ u[k].name = x /\ u[k] = t[n] /\ k \in Nat
    BY <1>1, <1>2, <2>1 DEF IsFirst
  <2>3. ASSUME NEW m \in 1..(k - 1) PROVE u[m].name # x
    <3>1. CASE m \in 1..Len(s)
      BY <1>1, <1>2, <1>5, <3>1 DEF NamesOf
    <3>2. CASE m \notin 1..Len(s)
      <4>1. m - Len(s) \in 1..(n - 1) /\ m = Len(s) + (m - Len(s)) /\ m - Len(s) \in 1..Len(t)
        BY <1>1, <2>2, <3>2
      <4> QED
        BY <1>1, <2>1, <4>1 DEF IsFirst
    <3> QED
      BY <3>1, <3>2
  <2>4. IsFirst(u, k, x)
    BY <2>2, <2>3 DEF IsFirst
  <2> QED
    BY <1>1, <2>1, <2>2, <2>4, FirstIs
<1> QED
  BY <1>1, <1>3, <1>4, <1>5 DEF u

\* What the compilation has joined up to file n of the first k.
Joins(g, k) == g = [n \in 0..k |-> IF n = 0 THEN Delivered ELSE g[n - 1] \o EntriesOf(found[Paths[n]])]

LEMMA JoinsExist == \A k \in 0..Len(Paths) : \E g : Joins(g, k)
<1> DEFINE S == {k \in 0..Len(Paths) : ~\E g : Joins(g, k)}
<1> SUFFICES ASSUME S # {} PROVE FALSE
  OBVIOUS
<1>1. S \in SUBSET Nat
  OBVIOUS
<1>2. PICK k \in S : \A m \in S : k <= m
  <2> HIDE DEF S
  <2> QED
    BY <1>1, LeastOf
<1>3. CASE k = 0
  <2> DEFINE g == [n \in 0..0 |-> Delivered]
  <2>1. Joins(g, 0)
    BY DEF Joins
  <2> QED
    BY <1>2, <1>3, <2>1
<1>4. CASE k # 0
  <2>1. k \in Nat /\ k - 1 \in 0..Len(Paths) /\ k - 1 \notin S /\ k - 1 \in Nat
    BY <1>2, <1>4
  <2>2. PICK g : Joins(g, k - 1)
    BY <2>1
  <2> DEFINE h == [n \in 0..k |-> IF n = k THEN g[k - 1] \o EntriesOf(found[Paths[k]]) ELSE g[n]]
  <2>3. ASSUME NEW n \in 0..k
        PROVE h[n] = IF n = 0 THEN Delivered ELSE h[n - 1] \o EntriesOf(found[Paths[n]])
    <3>1. CASE n = k
      <4>1. k - 1 \in 0..k /\ k - 1 # k
        BY <2>1
      <4>2. h[k - 1] = g[k - 1]
        BY <4>1
      <4> QED
        BY <1>4, <3>1, <4>2
    <3>2. CASE n # k
      <4>1. n \in 0..(k - 1) /\ (n # 0 => n - 1 \in 0..k /\ n - 1 # k)
        BY <2>1, <3>2
      <4>2. h[n] = g[n] /\ (n # 0 => h[n - 1] = g[n - 1])
        BY <3>2, <4>1
      <4>3. g[n] = IF n = 0 THEN Delivered ELSE g[n - 1] \o EntriesOf(found[Paths[n]])
        BY <2>2, <4>1 DEF Joins
      <4> QED
        BY <4>2, <4>3
    <3> QED
      BY <3>1, <3>2
  <2>4. Joins(h, k)
    BY <2>3 DEF Joins
  <2> QED
    BY <1>2, <2>4
<1> QED
  BY <1>3, <1>4

LEMMA AllFoundJoins == \E g : Joins(g, Len(Paths)) /\ AllFound = g[Len(Paths)]
<1> DEFINE g == CHOOSE h : Joins(h, Len(Paths))
<1>1. Len(Paths) \in 0..Len(Paths)
  BY CompilationAssumption
<1>2. Joins(g, Len(Paths))
  BY <1>1, JoinsExist
<1>3. AllFound = g[Len(Paths)]
  BY Zenon DEF AllFound, Joins
<1> QED
  BY <1>2, <1>3

\* All files have been read.
AllRead == \A f \in PathSet : found[f] \in Contents

LEMMA Contained ==
  ASSUME AllRead, NEW n \in DOMAIN Paths
  PROVE  /\ EntriesOf(found[Paths[n]]) \in Seq(FileEntry)
         /\ NamesIn(found[Paths[n]]) = NamesOf(EntriesOf(found[Paths[n]]))
         /\ \A x \in NamesIn(found[Paths[n]]) : EntriesOf(found[Paths[n]]) = found[Paths[n]]
<1>1. found[Paths[n]] \in Contents
  BY DEF AllRead, PathSet
<1>2. found[Paths[n]] \in Seq(FileEntry) \/ found[Paths[n]] = NoText
  BY <1>1, CompilationAssumption
<1>3. EntriesOf(found[Paths[n]]) \in Seq(FileEntry)
  BY <1>2 DEF EntriesOf
<1>4. found[Paths[n]] = NoText => NamesIn(found[Paths[n]]) = {}
  BY DEF NamesIn, EntriesOf
<1>5. found[Paths[n]] # NoText => EntriesOf(found[Paths[n]]) = found[Paths[n]]
  BY DEF EntriesOf
<1> QED
  BY <1>3, <1>4, <1>5 DEF NamesIn, NamesOf

LEMMA DeliveredFirst ==
  EntriesOf(Delivered) = Delivered /\ Delivered \in Seq(FileEntry) /\ NamesIn(Delivered) = NamesOf(Delivered)
BY CompilationAssumption DEF EntriesOf, NamesIn, NamesOf

\* A display ID comes from the first file that has it.
LEMMA SourceIs ==
  ASSUME NEW n \in DOMAIN Paths, NEW x \in NamesIn(found[Paths[n]]), x \notin NamesIn(Delivered),
         \A m \in 1..(n - 1) : x \notin NamesIn(found[Paths[m]])
  PROVE  SourceOf(x) = FirstIn(found[Paths[n]], x)
<1> DEFINE First(k) == x \in NamesIn(found[Paths[k]]) /\ \A m \in 1..(k - 1) : x \notin NamesIn(found[Paths[m]])
<1>1. DOMAIN Paths = 1..Len(Paths) /\ Len(Paths) \in Nat
  BY CompilationAssumption
<1>2. ASSUME NEW k \in DOMAIN Paths, First(k) PROVE k = n
  <2>1. ~(k \in 1..(n - 1)) /\ ~(n \in 1..(k - 1))
    BY <1>2
  <2> QED
    BY <1>1, <2>1
<1>3. (CHOOSE k \in DOMAIN Paths : First(k)) = n
  BY <1>2
<1> QED
  BY <1>3 DEF SourceOf

\* The entries with the same display IDs, and from the same places.
LEMMA JoinedAre ==
  ASSUME AllRead, NEW g, Joins(g, Len(Paths)), NEW n \in 0..Len(Paths)
  PROVE  /\ g[n] \in Seq(FileEntry)
         /\ NamesOf(g[n]) = NamesIn(Delivered) \cup UNION {NamesIn(found[Paths[m]]) : m \in 1..n}
         /\ \A x \in NamesOf(g[n]) : FirstIn(g[n], x) = SourceOf(x)
<1> DEFINE UpTo(k) == NamesIn(Delivered) \cup UNION {NamesIn(found[Paths[m]]) : m \in 1..k}
           Good(k) == /\ g[k] \in Seq(FileEntry) /\ NamesOf(g[k]) = UpTo(k)
                      /\ \A x \in NamesOf(g[k]) : FirstIn(g[k], x) = SourceOf(x)
           S == {k \in 0..Len(Paths) : ~Good(k)}
<1> SUFFICES ASSUME S # {} PROVE FALSE
  OBVIOUS
<1>1. DOMAIN Paths = 1..Len(Paths) /\ Len(Paths) \in Nat /\ S \in SUBSET Nat
  BY CompilationAssumption
<1>2. PICK k \in S : \A m \in S : k <= m
  <2> HIDE DEF S
  <2> QED
    BY <1>1, LeastOf
<1>3. g[k] = IF k = 0 THEN Delivered ELSE g[k - 1] \o EntriesOf(found[Paths[k]])
  BY <1>2 DEF Joins
<1>4. CASE k = 0
  <2>1. g[k] = Delivered /\ 1..k = {}
    BY <1>3, <1>4
  <2>2. UNION {NamesIn(found[Paths[m]]) : m \in 1..k} = {}
    BY <2>1
  <2>3. \A x \in NamesIn(Delivered) : SourceOf(x) = FirstIn(Delivered, x)
    BY DEF SourceOf
  <2>4. Good(k)
    BY <2>1, <2>2, <2>3, DeliveredFirst
  <2> QED
    BY <1>2, <2>4
<1>5. CASE k # 0
  <2>1. k \in DOMAIN Paths /\ k \in Nat /\ k - 1 \in 0..Len(Paths) /\ k - 1 \notin S
    <3>1. k \in 0..Len(Paths)
      BY <1>2
    <3> HIDE DEF S
    <3> QED
      BY <1>1, <1>2, <1>5, <3>1
  <2>2. Good(k - 1)
    BY <2>1
  <2> DEFINE t == EntriesOf(found[Paths[k]])
  <2>3. /\ t \in Seq(FileEntry) /\ NamesIn(found[Paths[k]]) = NamesOf(t)
        /\ \A x \in NamesOf(t) : t = found[Paths[k]]
    BY <2>1, Contained
  <2>4. g[k] = g[k - 1] \o t
    BY <1>3, <1>5
  <2> HIDE DEF t
  <2>5. /\ g[k] \in Seq(FileEntry) /\ NamesOf(g[k]) = NamesOf(g[k - 1]) \cup NamesOf(t)
        /\ \A x \in NamesOf(g[k - 1]) : FirstIn(g[k], x) = FirstIn(g[k - 1], x)
        /\ \A x \in NamesOf(t) \ NamesOf(g[k - 1]) : FirstIn(g[k], x) = FirstIn(t, x)
    BY <2>2, <2>3, <2>4, FirstJoined
  <2>6. NamesOf(g[k]) = UpTo(k)
    <3>1. \A m : m \in 1..k <=> m \in 1..(k - 1) \/ m = k
      BY <2>1, <1>1
    <3>2. UpTo(k) = UpTo(k - 1) \cup NamesIn(found[Paths[k]])
      BY <3>1
    <3> QED
      BY <2>2, <2>3, <2>5, <3>2
  <2>7. ASSUME NEW x \in NamesOf(g[k]) PROVE FirstIn(g[k], x) = SourceOf(x)
    <3>1. CASE x \in NamesOf(g[k - 1])
      BY <2>2, <2>5, <3>1
    <3>2. CASE x \notin NamesOf(g[k - 1])
      <4>1. x \in NamesOf(t) /\ FirstIn(g[k], x) = FirstIn(found[Paths[k]], x)
        BY <2>3, <2>5, <2>7, <3>2
      <4>2. x \notin NamesIn(Delivered) /\ \A m \in 1..(k - 1) : x \notin NamesIn(found[Paths[m]])
        BY <2>2, <3>2
      <4> QED
        BY <2>1, <2>3, <4>1, <4>2, SourceIs
    <3> QED
      BY <3>1, <3>2
  <2>8. Good(k)
    BY <2>5, <2>6, <2>7
  <2> QED
    BY <1>2, <2>8
<1> QED
  BY <1>4, <1>5

\* The display IDs of all that was read.
AllNames == NamesIn(Delivered) \cup UNION {NamesIn(found[f]) : f \in PathSet}

\* What all files together have: the display IDs, each from its place.
LEMMA AllFoundIs ==
  ASSUME AllRead
  PROVE  /\ AllFound \in Seq(FileEntry) /\ NamesOf(AllFound) = AllNames
         /\ \A x \in AllNames : FirstIn(AllFound, x) = SourceOf(x)
<1>1. PICK g : Joins(g, Len(Paths)) /\ AllFound = g[Len(Paths)]
  BY AllFoundJoins
<1>2. DOMAIN Paths = 1..Len(Paths) /\ Len(Paths) \in 0..Len(Paths)
  BY CompilationAssumption
<1>3. AllNames = NamesIn(Delivered) \cup UNION {NamesIn(found[Paths[m]]) : m \in 1..Len(Paths)}
  BY <1>2 DEF AllNames, PathSet
<1> QED
  BY <1>1, <1>2, <1>3, JoinedAre

LEMMA FirstsAre ==
  ASSUME NEW all \in Seq(FileEntry)
  PROVE  /\ \A x \in NamesOf(all) : /\ FirstIn(all, x) \in FileEntry /\ FirstIn(all, x).name = x
                                    /\ \E n \in FirstEntries(all) : all[n] = FirstIn(all, x)
         /\ \A n \in FirstEntries(all) : /\ n \in DOMAIN all /\ all[n].name \in NamesOf(all)
                                         /\ all[n] = FirstIn(all, all[n].name)
<1>1. ASSUME NEW x \in NamesOf(all)
      PROVE  /\ FirstIn(all, x) \in FileEntry /\ FirstIn(all, x).name = x
             /\ \E n \in FirstEntries(all) : all[n] = FirstIn(all, x)
  <2>1. PICK n : IsFirst(all, n, x)
    BY FirstExists
  <2>2. FirstIn(all, x) = all[n] /\ all[n].name = x /\ n \in DOMAIN all
    BY <2>1, FirstIs DEF IsFirst
  <2>3. n \in FirstEntries(all)
    BY <2>1 DEF IsFirst, FirstEntries
  <2>4. all[n] \in FileEntry
    BY <2>2
  <2> QED
    BY <2>2, <2>3, <2>4
<1>2. ASSUME NEW n \in FirstEntries(all)
      PROVE  n \in DOMAIN all /\ all[n].name \in NamesOf(all) /\ all[n] = FirstIn(all, all[n].name)
  <2>1. IsFirst(all, n, all[n].name)
    BY DEF FirstEntries, IsFirst
  <2> QED
    BY <2>1, FirstIs DEF IsFirst
<1> QED
  BY <1>1, <1>2

\* A set of numbers up to a bound has a greatest one.
LEMMA GreatestOf ==
  ASSUME NEW b \in Nat, NEW S \in SUBSET (1..b), S # {}
  PROVE  \E n \in S : \A m \in S : m <= n
<1> DEFINE T == {b - n : n \in S}
<1>1. T \in SUBSET Nat /\ T # {}
  <2>1. \A n \in S : n \in 1..b /\ b - n \in Nat
    OBVIOUS
  <2> QED
    BY <2>1
<1>2. PICK t \in T : \A u \in T : t <= u
  <2> HIDE DEF T
  <2> QED
    BY <1>1, LeastOf
<1>3. PICK n \in S : t = b - n
  OBVIOUS
<1>4. ASSUME NEW m \in S PROVE m <= n
  <2>1. b - n <= b - m
    BY <1>2, <1>3
  <2>2. m \in 1..b /\ n \in 1..b
    OBVIOUS
  <2> QED
    BY <2>1, <2>2
<1> QED
  BY <1>4

LEMMA HasIdIs ==
  ASSUME NEW all \in Seq(FileEntry), NEW id
  PROVE  HasId(all, id) <=> id # NoId /\ \E x \in NamesOf(all) : FirstIn(all, x).id = id
<1>1. (\E n \in FirstEntries(all) : all[n].id = id) => \E x \in NamesOf(all) : FirstIn(all, x).id = id
  BY FirstsAre
<1>2. (\E x \in NamesOf(all) : FirstIn(all, x).id = id) => \E n \in FirstEntries(all) : all[n].id = id
  BY FirstsAre
<1> QED
  BY <1>1, <1>2 DEF HasId

LEMMA ByIdIs ==
  ASSUME NEW all \in Seq(FileEntry), NEW id, HasId(all, id)
  PROVE  \E x \in NamesOf(all) : ById(all, id) = FirstIn(all, x) /\ FirstIn(all, x).id = id
<1> DEFINE S == {n \in FirstEntries(all) : all[n].id = id}
           Latest(n) == all[n].id = id /\ \A m \in FirstEntries(all) : all[m].id = id => m <= n
<1>1. S # {} /\ S \in SUBSET (1..Len(all)) /\ Len(all) \in Nat
  BY FirstsAre DEF HasId
<1>2. \E n \in S : \A m \in S : m <= n
  <2> HIDE DEF S
  <2> QED
    BY <1>1, GreatestOf
<1>3. \E n \in FirstEntries(all) : Latest(n)
  BY <1>2
<1> DEFINE n == CHOOSE k \in FirstEntries(all) : Latest(k)
<1>4. n \in FirstEntries(all) /\ Latest(n)
  <2> HIDE DEF Latest
  <2> QED
    BY <1>3
<1>5. ById(all, id) = all[n]
  BY Zenon DEF ById
<1> HIDE DEF n
<1> QED
  BY <1>4, <1>5, FirstsAre

\* No two display IDs share a ULID.
UniqueIds(all) ==
  \A x, y \in NamesOf(all) :
    FirstIn(all, x).id = FirstIn(all, y).id /\ FirstIn(all, x).id # NoId => x = y

LEMMA ByIdUnique ==
  ASSUME NEW all \in Seq(FileEntry), UniqueIds(all), NEW y \in NamesOf(all), FirstIn(all, y).id # NoId
  PROVE  HasId(all, FirstIn(all, y).id) /\ ById(all, FirstIn(all, y).id) = FirstIn(all, y)
<1>1. HasId(all, FirstIn(all, y).id)
  BY HasIdIs
<1>2. PICK x \in NamesOf(all) : /\ ById(all, FirstIn(all, y).id) = FirstIn(all, x)
                                /\ FirstIn(all, x).id = FirstIn(all, y).id
  BY <1>1, ByIdIs
<1>3. x = y
  BY <1>2 DEF UniqueIds
<1> QED
  BY <1>1, <1>2, <1>3

Gen(all, x, s, id) ==
  [target |-> id, inverse |-> s.inverse, attr |-> s.attr, source |-> FirstIn(all, x).id]

\* Entry x has written ULID id, of an entry that returns it by inverse s.
Writes(all, x, s, id) ==
  /\ id \in FirstIn(all, x).attrs[s.attr] /\ FirstIn(all, x).id # NoId
  /\ s.source \in {AnyType, FirstIn(all, x).type}
  /\ HasId(all, id) /\ ById(all, id).type = s.category

LEMMA GeneratedAre ==
  ASSUME NEW all, NEW g
  PROVE  g \in Generated(all) <=>
           \E n \in FirstEntries(all), k \in DOMAIN Inverses :
             /\ Returns(all, n, k, g.target) /\ ~ReturnedBefore(all, n, k, g.target)
             /\ g = [target |-> g.target, inverse |-> Inverses[k].inverse, attr |-> Inverses[k].attr,
                     source |-> all[n].id]
<1> DEFINE Ids(n, k) == {v \in all[n].attrs[Inverses[k].attr] :
                           Returns(all, n, k, v) /\ ~ReturnedBefore(all, n, k, v)}
           Edge(n, k, id) == [target |-> id, inverse |-> Inverses[k].inverse, attr |-> Inverses[k].attr,
                              source |-> all[n].id]
           Gens(n, k) == {Edge(n, k, id) : id \in Ids(n, k)}
<1>1. Generated(all) = UNION {Gens(n, k) : n \in FirstEntries(all), k \in DOMAIN Inverses}
  BY DEF Generated
<1>2. g \in Generated(all) <=> \E n \in FirstEntries(all), k \in DOMAIN Inverses : g \in Gens(n, k)
  <2> HIDE DEF Gens
  <2> QED
    BY <1>1
<1>3. ASSUME NEW n, NEW k
      PROVE  g \in Gens(n, k) <=>
               /\ Returns(all, n, k, g.target) /\ ~ReturnedBefore(all, n, k, g.target)
               /\ g = Edge(n, k, g.target)
  <2>1. \A id : id \in Ids(n, k) <=> Returns(all, n, k, id) /\ ~ReturnedBefore(all, n, k, id)
    BY DEF Returns
  <2>2. \A id : Edge(n, k, id).target = id
    OBVIOUS
  <2>3. g \in Gens(n, k) <=> \E id \in Ids(n, k) : g = Edge(n, k, id)
    OBVIOUS
  <2> HIDE DEF Ids, Edge, Gens
  <2> QED
    BY <2>1, <2>2, <2>3
<1> HIDE DEF Gens
<1>4. g \in Generated(all) <=>
        \E n \in FirstEntries(all), k \in DOMAIN Inverses :
          /\ Returns(all, n, k, g.target) /\ ~ReturnedBefore(all, n, k, g.target)
          /\ g = Edge(n, k, g.target)
  BY <1>2, <1>3
<1> QED
  BY <1>4

LEMMA ReturnsIs ==
  ASSUME NEW all \in Seq(FileEntry), NEW n \in FirstEntries(all), NEW k, NEW id
  PROVE  Returns(all, n, k, id) <=> Writes(all, all[n].name, Inverses[k], id)
<1>1. FirstIn(all, all[n].name) = all[n]
  BY FirstsAre
<1> QED
  BY <1>1 DEF Returns, Writes

LEMMA InversesAre ==
  /\ DOMAIN Inverses \in SUBSET Nat
  /\ \A k \in DOMAIN Inverses : \A j \in Nat : j \in 1..(k - 1) <=> j \in DOMAIN Inverses /\ j < k
<1>1. DOMAIN Inverses = 1..Len(Inverses) /\ Len(Inverses) \in Nat
  BY CompilationAssumption
<1> QED
  BY <1>1

\* Entry x has written ULID id, by inverse k and by no earlier one of its name.
Way(all, x, k, id) ==
  /\ Writes(all, x, Inverses[k], id)
  /\ \A j \in 1..(k - 1) : Inverses[j].inverse = Inverses[k].inverse => ~Writes(all, x, Inverses[j], id)

\* With one entry for each ULID, an entry was gone through before only by an
\* earlier inverse.
LEMMA BeforeIs ==
  ASSUME NEW all \in Seq(FileEntry), UniqueIds(all), NEW n \in FirstEntries(all), NEW k \in DOMAIN Inverses,
         NEW id
  PROVE  Returns(all, n, k, id) /\ ~ReturnedBefore(all, n, k, id) <=> Way(all, all[n].name, k, id)
<1> SUFFICES ASSUME Returns(all, n, k, id)
             PROVE  ReturnedBefore(all, n, k, id) <=>
                      \E j \in 1..(k - 1) : /\ Inverses[j].inverse = Inverses[k].inverse
                                            /\ Writes(all, all[n].name, Inverses[j], id)
  BY ReturnsIs DEF Way
<1>1. ASSUME ReturnedBefore(all, n, k, id)
      PROVE  \E j \in 1..(k - 1) : /\ Inverses[j].inverse = Inverses[k].inverse
                                   /\ Writes(all, all[n].name, Inverses[j], id)
  <2>1. PICK m \in FirstEntries(all), j \in DOMAIN Inverses :
          /\ m < n \/ (m = n /\ j < k)
          /\ all[m].id = all[n].id /\ Inverses[j].inverse = Inverses[k].inverse
          /\ Returns(all, m, j, id)
    BY <1>1 DEF ReturnedBefore
  <2>2. /\ m \in DOMAIN all /\ all[m].name \in NamesOf(all) /\ all[m] = FirstIn(all, all[m].name)
        /\ n \in DOMAIN all /\ all[n].name \in NamesOf(all) /\ all[n] = FirstIn(all, all[n].name)
    BY FirstsAre
  <2>3. all[n].id # NoId
    BY DEF Returns
  <2>4. all[m].name = all[n].name
    BY <2>1, <2>2, <2>3 DEF UniqueIds
  <2>5. ~(m < n)
    BY <2>2, <2>4 DEF FirstEntries
  <2>6. m = n /\ j < k
    BY <2>1, <2>5
  <2>7. j \in 1..(k - 1)
    BY <2>6, InversesAre
  <2> QED
    BY <2>1, <2>6, <2>7, ReturnsIs
<1>2. ASSUME NEW j \in 1..(k - 1), Inverses[j].inverse = Inverses[k].inverse,
             Writes(all, all[n].name, Inverses[j], id)
      PROVE  ReturnedBefore(all, n, k, id)
  <2>1. j \in DOMAIN Inverses /\ j < k
    BY InversesAre
  <2>2. Returns(all, n, j, id)
    BY <1>2, ReturnsIs
  <2> QED
    BY <1>2, <2>1, <2>2 DEF ReturnedBefore
<1> QED
  BY <1>1, <1>2

LEMMA GeneratedIs ==
  ASSUME NEW all \in Seq(FileEntry), UniqueIds(all), NEW g
  PROVE  g \in Generated(all) <=>
           \E x \in NamesOf(all), k \in DOMAIN Inverses :
             Way(all, x, k, g.target) /\ g = Gen(all, x, Inverses[k], g.target)
<1> DEFINE Edge(n, k) == [target |-> g.target, inverse |-> Inverses[k].inverse, attr |-> Inverses[k].attr,
                          source |-> all[n].id]
<1>1. g \in Generated(all) <=>
        \E n \in FirstEntries(all), k \in DOMAIN Inverses : Way(all, all[n].name, k, g.target) /\ g = Edge(n, k)
  <2>1. g \in Generated(all) <=>
          \E n \in FirstEntries(all), k \in DOMAIN Inverses :
            Returns(all, n, k, g.target) /\ ~ReturnedBefore(all, n, k, g.target) /\ g = Edge(n, k)
    BY GeneratedAre
  <2>2. \A n \in FirstEntries(all), k \in DOMAIN Inverses :
          Returns(all, n, k, g.target) /\ ~ReturnedBefore(all, n, k, g.target) <=> Way(all, all[n].name, k, g.target)
    BY BeforeIs
  <2> HIDE DEF Edge
  <2> QED
    BY <2>1, <2>2
<1>2. \A n \in FirstEntries(all), k \in DOMAIN Inverses : Edge(n, k) = Gen(all, all[n].name, Inverses[k], g.target)
  BY FirstsAre DEF Gen
<1>3. \A n \in FirstEntries(all) : all[n].name \in NamesOf(all)
  BY FirstsAre
<1>4. \A x \in NamesOf(all) : \E n \in FirstEntries(all) : all[n].name = x
  BY FirstsAre
<1> HIDE DEF Edge
<1> QED
  BY <1>1, <1>2, <1>3, <1>4

LEMMA GraphEntries ==
  ASSUME NEW all \in Seq(FileEntry)
  PROVE  /\ DOMAIN Graph(all).entries = NamesOf(all)
         /\ \A x \in NamesOf(all) : Graph(all).entries[x] = Merged(all, FirstIn(all, x))
<1> DEFINE Pick(x) == CHOOSE n \in FirstEntries(all) : all[n].name = x
<1>1. Graph(all).entries = [x \in {all[n].name : n \in FirstEntries(all)} |-> Merged(all, all[Pick(x)])]
  BY DEF Graph
<1>2. {all[n].name : n \in FirstEntries(all)} = NamesOf(all)
  <2>1. ASSUME NEW x \in NamesOf(all) PROVE x \in {all[n].name : n \in FirstEntries(all)}
    BY FirstsAre
  <2> QED
    BY <2>1, FirstsAre
<1>3. ASSUME NEW x \in NamesOf(all) PROVE all[Pick(x)] = FirstIn(all, x)
  <2>1. \E n \in FirstEntries(all) : all[n].name = x
    BY FirstsAre
  <2>2. Pick(x) \in FirstEntries(all) /\ all[Pick(x)].name = x
    BY <2>1
  <2> HIDE DEF Pick
  <2> QED
    BY <2>2, FirstsAre
<1> HIDE DEF Pick
<1> QED
  BY <1>1, <1>2, <1>3

LEMMA MergedIs ==
  ASSUME NEW all, NEW e \in FileEntry
  PROVE  /\ [Merged(all, e) EXCEPT !.attrs = e.attrs] = e /\ Merged(all, e).state = e.state
         /\ \A a \in Attributes : Merged(all, e).attrs[a] = e.attrs[a] \cup Returned(all, e, a)
<1> DEFINE attrs == [a \in DOMAIN e.attrs |-> e.attrs[a] \cup Returned(all, e, a)]
<1>1. Merged(all, e) = [e EXCEPT !.attrs = attrs]
  BY DEF Merged
<1>2. DOMAIN e.attrs = Attributes
  BY DEF FileEntry
<1>3. \A a \in Attributes : attrs[a] = e.attrs[a] \cup Returned(all, e, a)
  BY <1>2
<1> HIDE DEF attrs
<1>4. Merged(all, e).attrs = attrs /\ Merged(all, e).state = e.state
  BY <1>1 DEF FileEntry
<1>5. [Merged(all, e) EXCEPT !.attrs = e.attrs] = e
  <2>1. e = [k \in DOMAIN e |-> e[k]] /\ "attrs" \in DOMAIN e
    BY DEF FileEntry
  <2>2. [Merged(all, e) EXCEPT !.attrs = e.attrs] = [k \in DOMAIN e |-> e[k]]
    BY <1>1, <2>1
  <2> QED
    BY <2>1, <2>2
<1> QED
  BY <1>3, <1>4, <1>5

AnswersIn(all, x, y, s) ==
  /\ NoId \notin {FirstIn(all, x).id, FirstIn(all, y).id}
  /\ FirstIn(all, y).id \in FirstIn(all, x).attrs[s.attr]
  /\ FirstIn(all, y).type = s.category /\ s.source \in {AnyType, FirstIn(all, x).type}

\* With one entry for each ULID, what is generated answers what is written.
LEMMA WritesIs ==
  ASSUME NEW all \in Seq(FileEntry), UniqueIds(all), NEW x \in NamesOf(all), NEW s, NEW id
  PROVE  Writes(all, x, s, id) <=>
           \E y \in NamesOf(all) : FirstIn(all, y).id = id /\ AnswersIn(all, x, y, s)
<1>1. ASSUME Writes(all, x, s, id)
      PROVE  \E y \in NamesOf(all) : FirstIn(all, y).id = id /\ AnswersIn(all, x, y, s)
  <2>1. id # NoId
    BY <1>1, HasIdIs DEF Writes
  <2>2. PICK y \in NamesOf(all) : ById(all, id) = FirstIn(all, y) /\ FirstIn(all, y).id = id
    BY <1>1, ByIdIs DEF Writes
  <2> QED
    BY <1>1, <2>1, <2>2 DEF Writes, AnswersIn
<1>2. ASSUME NEW y \in NamesOf(all), FirstIn(all, y).id = id, AnswersIn(all, x, y, s)
      PROVE  Writes(all, x, s, id)
  <2>1. HasId(all, id) /\ ById(all, id) = FirstIn(all, y)
    BY <1>2, ByIdUnique DEF AnswersIn
  <2> QED
    BY <1>2, <2>1 DEF Writes, AnswersIn
<1> QED
  BY <1>1, <1>2

LEMMA WritesTo ==
  ASSUME NEW all \in Seq(FileEntry), UniqueIds(all), NEW x \in NamesOf(all), NEW y \in NamesOf(all), NEW s
  PROVE  Writes(all, x, s, FirstIn(all, y).id) <=> AnswersIn(all, x, y, s)
<1>1. ASSUME Writes(all, x, s, FirstIn(all, y).id)
      PROVE  AnswersIn(all, x, y, s)
  <2>1. PICK z \in NamesOf(all) : FirstIn(all, z).id = FirstIn(all, y).id /\ AnswersIn(all, x, z, s)
    BY <1>1, WritesIs
  <2>2. z = y
    BY <2>1 DEF UniqueIds, AnswersIn
  <2> QED
    BY <2>1, <2>2
<1> QED
  BY <1>1, WritesIs

WayIn(all, x, y, k) ==
  /\ AnswersIn(all, x, y, Inverses[k])
  /\ \A j \in 1..(k - 1) : Inverses[j].inverse = Inverses[k].inverse => ~AnswersIn(all, x, y, Inverses[j])

LEMMA WayIs ==
  ASSUME NEW all \in Seq(FileEntry), UniqueIds(all), NEW x \in NamesOf(all), NEW y \in NamesOf(all), NEW k
  PROVE  Way(all, x, k, FirstIn(all, y).id) <=> WayIn(all, x, y, k)
<1>1. \A j : Writes(all, x, Inverses[j], FirstIn(all, y).id) <=> AnswersIn(all, x, y, Inverses[j])
  BY WritesTo
<1> QED
  BY <1>1 DEF Way, WayIn

LEMMA ReturnedIs ==
  ASSUME NEW all \in Seq(FileEntry), UniqueIds(all), NEW y \in NamesOf(all), NEW a
  PROVE  Returned(all, FirstIn(all, y), a) =
           {FirstIn(all, x).id : x \in {z \in NamesOf(all) :
              \E k \in DOMAIN Inverses : Inverses[k].inverse = a /\ AnswersIn(all, z, y, Inverses[k])}}
<1> DEFINE e == FirstIn(all, y)
           Right == {FirstIn(all, x).id : x \in {z \in NamesOf(all) :
                       \E k \in DOMAIN Inverses : Inverses[k].inverse = a /\ AnswersIn(all, z, y, Inverses[k])}}
<1>1. ASSUME NEW i \in Returned(all, e, a) PROVE i \in Right
  <2>1. PICK g \in Generated(all) : e.id # NoId /\ g.target = e.id /\ g.inverse = a /\ i = g.source
    BY DEF Returned
  <2>2. PICK x \in NamesOf(all), k \in DOMAIN Inverses :
          Way(all, x, k, g.target) /\ g = Gen(all, x, Inverses[k], g.target)
    BY GeneratedIs
  <2>3. g.target = e.id /\ Inverses[k].inverse = a /\ i = FirstIn(all, x).id
    BY <2>1, <2>2 DEF Gen
  <2>4. AnswersIn(all, x, y, Inverses[k])
    BY <2>2, <2>3, WayIs DEF WayIn
  <2> QED
    BY <2>3, <2>4
<1>2. ASSUME NEW x \in NamesOf(all), NEW k \in DOMAIN Inverses, Inverses[k].inverse = a,
             AnswersIn(all, x, y, Inverses[k])
      PROVE  FirstIn(all, x).id \in Returned(all, e, a)
  <2> DEFINE S == {j \in DOMAIN Inverses : Inverses[j].inverse = a /\ AnswersIn(all, x, y, Inverses[j])}
  <2>1. S \in SUBSET Nat /\ S # {}
    BY <1>2, InversesAre
  <2>2. PICK j \in S : \A i \in S : j <= i
    <3> HIDE DEF S
    <3> QED
      BY <2>1, LeastOf
  <2>3. /\ j \in DOMAIN Inverses /\ Inverses[j].inverse = a /\ AnswersIn(all, x, y, Inverses[j])
        /\ \A i \in 1..(j - 1) : i \notin S /\ i \in DOMAIN Inverses
    BY <2>2, InversesAre
  <2>4. WayIn(all, x, y, j)
    BY <2>3 DEF WayIn
  <2>5. Way(all, x, j, e.id)
    BY <2>4, WayIs
  <2>6. e.id # NoId
    BY <1>2 DEF AnswersIn
  <2>7. /\ Gen(all, x, Inverses[j], e.id).target = e.id /\ Gen(all, x, Inverses[j], e.id).inverse = a
        /\ Gen(all, x, Inverses[j], e.id).source = FirstIn(all, x).id
    BY <2>3 DEF Gen
  <2>8. Gen(all, x, Inverses[j], e.id) \in Generated(all)
    BY <2>3, <2>5, <2>7, GeneratedIs
  <2> QED
    BY <2>6, <2>7, <2>8 DEF Returned
<1> QED
  BY <1>1, <1>2

LEMMA LinksBack ==
  ASSUME NEW all \in Seq(FileEntry), UniqueIds(all), NEW l
  PROVE  l \in GeneratedLinks(all) <=>
           \E x \in NamesOf(all), y \in NamesOf(all), k \in DOMAIN Inverses :
             Inverses[k].attr \in LinkAttrs /\ WayIn(all, x, y, k) /\ l = Link(y, x, Inverses[k].attr, TRUE)
<1> DEFINE To(g) == Link(ById(all, g.target).name, ById(all, g.source).name, g.attr, TRUE)
<1>1. l \in GeneratedLinks(all) <=> \E g \in Generated(all) : g.attr \in LinkAttrs /\ l = To(g)
  BY DEF GeneratedLinks
<1>2. ASSUME NEW x \in NamesOf(all), NEW y \in NamesOf(all), NEW s, AnswersIn(all, x, y, s)
      PROVE  To(Gen(all, x, s, FirstIn(all, y).id)) = Link(y, x, s.attr, TRUE)
  <2>1. /\ ById(all, FirstIn(all, x).id) = FirstIn(all, x)
        /\ ById(all, FirstIn(all, y).id) = FirstIn(all, y)
    BY <1>2, ByIdUnique DEF AnswersIn
  <2>2. FirstIn(all, x).name = x /\ FirstIn(all, y).name = y
    BY FirstsAre
  <2>3. /\ Gen(all, x, s, FirstIn(all, y).id).target = FirstIn(all, y).id
        /\ Gen(all, x, s, FirstIn(all, y).id).source = FirstIn(all, x).id
        /\ Gen(all, x, s, FirstIn(all, y).id).attr = s.attr
    BY DEF Gen
  <2> QED
    BY <2>1, <2>2, <2>3
<1> HIDE DEF To
<1>3. ASSUME l \in GeneratedLinks(all)
      PROVE  \E x \in NamesOf(all), y \in NamesOf(all), k \in DOMAIN Inverses :
               Inverses[k].attr \in LinkAttrs /\ WayIn(all, x, y, k) /\ l = Link(y, x, Inverses[k].attr, TRUE)
  <2>1. PICK g \in Generated(all) : g.attr \in LinkAttrs /\ l = To(g)
    BY <1>1, <1>3
  <2>2. PICK x \in NamesOf(all), k \in DOMAIN Inverses :
          Way(all, x, k, g.target) /\ g = Gen(all, x, Inverses[k], g.target)
    BY GeneratedIs
  <2>3. Writes(all, x, Inverses[k], g.target)
    BY <2>2 DEF Way
  <2>4. PICK y \in NamesOf(all) : FirstIn(all, y).id = g.target /\ AnswersIn(all, x, y, Inverses[k])
    BY <2>3, WritesIs
  <2>5. WayIn(all, x, y, k)
    BY <2>2, <2>4, WayIs
  <2>6. Inverses[k].attr \in LinkAttrs
    BY <2>1, <2>2 DEF Gen
  <2>7. l = Link(y, x, Inverses[k].attr, TRUE)
    <3>1. To(Gen(all, x, Inverses[k], FirstIn(all, y).id)) = Link(y, x, Inverses[k].attr, TRUE)
      BY <1>2, <2>4
    <3>2. g = Gen(all, x, Inverses[k], FirstIn(all, y).id)
      BY <2>2, <2>4
    <3> QED
      BY <2>1, <3>1, <3>2
  <2> QED
    BY <2>5, <2>6, <2>7
<1>4. ASSUME NEW x \in NamesOf(all), NEW y \in NamesOf(all), NEW k \in DOMAIN Inverses,
             Inverses[k].attr \in LinkAttrs, WayIn(all, x, y, k), l = Link(y, x, Inverses[k].attr, TRUE)
      PROVE  l \in GeneratedLinks(all)
  <2> DEFINE g == Gen(all, x, Inverses[k], FirstIn(all, y).id)
  <2>1. Way(all, x, k, FirstIn(all, y).id)
    BY <1>4, WayIs
  <2>2. g.attr = Inverses[k].attr /\ g.target = FirstIn(all, y).id
    BY DEF Gen
  <2>3. g \in Generated(all)
    BY <2>1, <2>2, GeneratedIs
  <2>4. l = To(g)
    BY <1>2, <1>4 DEF WayIn
  <2> HIDE DEF g
  <2> QED
    BY <1>1, <1>4, <2>2, <2>3, <2>4
<1> QED
  BY <1>3, <1>4

LEMMA ReportedIs ==
  ASSUME NEW all
  PROVE  /\ \A f : <<"MSL-E000", f>> \in Graph(all).reported <=> f \in PathSet /\ found[f] = NoText
         /\ \A x, y, s : <<"MSL-T013", x, y, s>> \in Graph(all).reported <=>
              \E l \in Graph(all).links :
                /\ l.from = x /\ l.to = y /\ y \in DOMAIN Graph(all).entries
                /\ s = TargetState(Graph(all).entries[y]) /\ s # "active"
<1> DEFINE ents == Graph(all).entries
           links == Graph(all).links
           unread == {<<"MSL-E000", f>> : f \in {g \in PathSet : found[g] = NoText}}
<1>1. Graph(all).reported = AtInactive(ents, links) \cup Disagreeing(all) \cup unread
  BY DEF Graph
<1>2. ASSUME NEW t \in Disagreeing(all) PROVE t[1] = "MSL-L005"
  <2> DEFINE Unlike(n) == {h \in Generated(all) :
               /\ h.target = all[n].id /\ all[n].attrs[h.inverse] # {}
               /\ all[n].attrs[h.inverse] # Returned(all, all[n], h.inverse)}
             Reports(n) == {<<"MSL-L005", all[n].name, g.inverse>> : g \in Unlike(n)}
  <2>1. Disagreeing(all) = UNION {Reports(n) : n \in FirstEntries(all)}
    BY DEF Disagreeing
  <2>2. PICK n \in FirstEntries(all) : t \in Reports(n)
    <3> HIDE DEF Reports
    <3> QED
      BY <1>2, <2>1
  <2>3. PICK g \in Unlike(n) : t = <<"MSL-L005", all[n].name, g.inverse>>
    BY <2>2
  <2> QED
    BY <2>3
<1>3. ASSUME NEW t \in AtInactive(ents, links)
      PROVE  t[1] = "MSL-T013"
  BY DEF AtInactive
<1>4. \A t \in unread : t[1] = "MSL-E000"
  OBVIOUS
<1>5. ASSUME NEW f
      PROVE  <<"MSL-E000", f>> \in Graph(all).reported <=> f \in PathSet /\ found[f] = NoText
  <2>1. <<"MSL-E000", f>>[1] = "MSL-E000"
    OBVIOUS
  <2>2. <<"MSL-E000", f>> \in unread <=> f \in PathSet /\ found[f] = NoText
    OBVIOUS
  <2> HIDE DEF unread, ents, links
  <2> QED
    BY <1>1, <1>2, <1>3, <2>1, <2>2
<1>6. ASSUME NEW x, NEW y, NEW s
      PROVE  <<"MSL-T013", x, y, s>> \in Graph(all).reported <=>
               \E l \in links : /\ l.from = x /\ l.to = y /\ y \in DOMAIN ents
                                /\ s = TargetState(ents[y]) /\ s # "active"
  <2>1. <<"MSL-T013", x, y, s>>[1] = "MSL-T013"
    OBVIOUS
  <2> HIDE DEF unread, ents, links
  <2>2. <<"MSL-T013", x, y, s>> \in AtInactive(ents, links) <=>
          \E l \in links : /\ l.from = x /\ l.to = y /\ y \in DOMAIN ents
                           /\ s = TargetState(ents[y]) /\ s # "active"
    BY DEF AtInactive
  <2> QED
    BY <1>1, <1>2, <1>4, <2>1, <2>2
<1> QED
  BY <1>5, <1>6

LEMMA BackLinksAre ==
  ASSUME NEW l
  PROVE  l \in BackLinks <=>
           \E x \in Compiled, y \in Compiled, k \in DOMAIN Inverses :
             Inverses[k].attr \in LinkAttrs /\ WayBack(x, y, k) /\ l = Link(y, x, Inverses[k].attr, TRUE)
<1> DEFINE To(x, y, k) == Link(y, x, Inverses[k].attr, TRUE)
           Ks(x, y) == {j \in DOMAIN Inverses : Inverses[j].attr \in LinkAttrs /\ WayBack(x, y, j)}
           Back(x, y) == {To(x, y, k) : k \in Ks(x, y)}
<1>1. BackLinks = UNION {Back(x, y) : x \in Compiled, y \in Compiled}
  BY DEF BackLinks
<1>2. ASSUME NEW x, NEW y
      PROVE  l \in Back(x, y) <=> \E k \in DOMAIN Inverses :
               Inverses[k].attr \in LinkAttrs /\ WayBack(x, y, k) /\ l = Link(y, x, Inverses[k].attr, TRUE)
  <2>1. \A k : k \in Ks(x, y) <=> k \in DOMAIN Inverses /\ Inverses[k].attr \in LinkAttrs /\ WayBack(x, y, k)
    OBVIOUS
  <2>2. \A k : To(x, y, k) = Link(y, x, Inverses[k].attr, TRUE)
    OBVIOUS
  <2> HIDE DEF Ks, To
  <2>3. l \in Back(x, y) <=> \E k \in Ks(x, y) : l = To(x, y, k)
    OBVIOUS
  <2> HIDE DEF Back
  <2> QED
    BY <2>1, <2>2, <2>3, Zenon
<1> HIDE DEF Back
<1>3. l \in BackLinks <=> \E x \in Compiled, y \in Compiled : l \in Back(x, y)
  BY <1>1
<1> QED
  BY <1>2, <1>3

\* The graph of the files that were read is that of their entries.
LEMMA GraphIs ==
  ASSUME AllRead, graph = Graph(AllFound)
  PROVE  FirstCounts /\ InversesAgree /\ InactiveReported /\ UnreadReported
<1> DEFINE all == AllFound
<1>1. all \in Seq(FileEntry) /\ NamesOf(all) = AllNames /\ \A x \in AllNames : FirstIn(all, x) = SourceOf(x)
  BY AllFoundIs
<1>2. Compiled = AllNames
  BY <1>1, GraphEntries DEF Compiled
<1>3. \A x \in AllNames : SourceOf(x) \in FileEntry /\ graph.entries[x] = Merged(all, SourceOf(x))
  BY <1>1, GraphEntries, FirstsAre
<1>4. UniqueIds(all) <=> OneEntryEach
  BY <1>1, <1>2 DEF UniqueIds, OneEntryEach
<1>5. \A x, y \in AllNames, k \in DOMAIN Inverses :
        /\ AnswersIn(all, x, y, Inverses[k]) <=> Answers(x, y, Inverses[k])
        /\ WayIn(all, x, y, k) <=> WayBack(x, y, k)
  <2>1. \A x, y \in AllNames : \A s : AnswersIn(all, x, y, s) <=> Answers(x, y, s)
    BY <1>1 DEF AnswersIn, Answers
  <2> QED
    BY <2>1 DEF WayIn, WayBack
<1> HIDE DEF all
<1>6. FirstCounts
  <2>1. Compiled = NamesIn(Delivered) \cup UNION {NamesIn(found[f]) : f \in PathSet}
    BY <1>2 DEF AllNames
  <2>2. \A x \in Compiled : [graph.entries[x] EXCEPT !.attrs = SourceOf(x).attrs] = SourceOf(x)
    BY <1>2, <1>3, MergedIs
  <2> QED
    BY <2>1, <2>2 DEF FirstCounts
<1>7. ASSUME OneEntryEach, NEW y \in AllNames, NEW a
      PROVE  Returned(all, SourceOf(y), a) = Returning(y, a)
  <2>1. Returned(all, FirstIn(all, y), a) =
          {FirstIn(all, x).id : x \in {z \in NamesOf(all) :
             \E k \in DOMAIN Inverses : Inverses[k].inverse = a /\ AnswersIn(all, z, y, Inverses[k])}}
    BY <1>1, <1>4, <1>7, ReturnedIs
  <2>2. {z \in NamesOf(all) :
           \E k \in DOMAIN Inverses : Inverses[k].inverse = a /\ AnswersIn(all, z, y, Inverses[k])} =
        {z \in Compiled : \E k \in DOMAIN Inverses : Inverses[k].inverse = a /\ Answers(z, y, Inverses[k])}
    BY <1>1, <1>2, <1>5
  <2>3. \A z \in Compiled : FirstIn(all, z).id = SourceOf(z).id
    BY <1>1, <1>2
  <2> QED
    BY <1>1, <2>1, <2>2, <2>3 DEF Returning
<1>8. \A y \in AllNames, a \in Attributes :
        graph.entries[y].attrs[a] = SourceOf(y).attrs[a] \cup Returned(all, SourceOf(y), a)
  BY <1>3, MergedIs
<1>9. graph.links = AuthoredLinks(all) \cup GeneratedLinks(all)
  BY DEF Graph, all
<1>10. ASSUME OneEntryEach PROVE {l \in graph.links : l.generated} = BackLinks
  <2>1. \A l \in AuthoredLinks(all) : ~l.generated
    <3> DEFINE Of(n, a) == {Link(all[n].name, v, a, FALSE) : v \in all[n].attrs[a]}
    <3>1. AuthoredLinks(all) = UNION {Of(n, a) : n \in FirstEntries(all), a \in LinkAttrs}
      BY DEF AuthoredLinks
    <3>2. \A n, a : \A l \in Of(n, a) : ~l.generated
      BY DEF Link
    <3> HIDE DEF Of
    <3> QED
      BY <3>1, <3>2
  <2>2. ASSUME NEW l \in GeneratedLinks(all) PROVE l \in BackLinks /\ l.generated
    <3>1. PICK x \in NamesOf(all), y \in NamesOf(all), k \in DOMAIN Inverses :
            Inverses[k].attr \in LinkAttrs /\ WayIn(all, x, y, k) /\ l = Link(y, x, Inverses[k].attr, TRUE)
      BY <1>1, <1>4, <1>10, LinksBack DEF Link
    <3>2. x \in Compiled /\ y \in Compiled /\ WayBack(x, y, k)
      BY <1>1, <1>2, <1>5, <3>1
    <3>3. l.generated
      BY <3>1 DEF Link
    <3> QED
      BY <3>1, <3>2, <3>3, BackLinksAre
  <2>3. ASSUME NEW l \in BackLinks PROVE l \in GeneratedLinks(all)
    <3>1. PICK x \in Compiled, y \in Compiled, k \in DOMAIN Inverses :
            Inverses[k].attr \in LinkAttrs /\ WayBack(x, y, k) /\ l = Link(y, x, Inverses[k].attr, TRUE)
      BY BackLinksAre
    <3>2. x \in NamesOf(all) /\ y \in NamesOf(all) /\ WayIn(all, x, y, k)
      BY <1>1, <1>2, <1>5, <3>1
    <3> QED
      BY <1>1, <1>4, <1>10, <3>1, <3>2, LinksBack
  <2> QED
    BY <1>9, <2>1, <2>2, <2>3
<1>11. InversesAgree
  BY <1>2, <1>7, <1>8, <1>10 DEF InversesAgree
<1>12. InactiveReported
  <2> SUFFICES ASSUME NEW l \in graph.links, l.to \in Compiled
               PROVE  LET reported == \E s \in {"draft", "retired"} : <<"MSL-T013", l.from, l.to, s>> \in graph.reported
                          inactive == SourceOf(l.to).state # "active" \/ SourceOf(l.to).attrs["Superseded-by"] # {}
                          superseded == Returning(l.to, "Superseded-by") # {}
                      IN  /\ inactive => reported
                          /\ OneEntryEach => (reported <=> inactive \/ superseded)
    BY Zenon DEF InactiveReported
  <2> DEFINE e == SourceOf(l.to)
             state == TargetState(graph.entries[l.to])
             returned == Returned(all, e, "Superseded-by")
  <2>1. \A s : <<"MSL-T013", l.from, l.to, s>> \in graph.reported <=> s = state /\ s # "active"
    BY ReportedIs DEF Compiled
  <2>2. e \in FileEntry /\ "Superseded-by" \in Attributes
    BY <1>2, <1>3 DEF Attributes
  <2>3. /\ graph.entries[l.to].attrs["Superseded-by"] = e.attrs["Superseded-by"] \cup returned
        /\ graph.entries[l.to].state = e.state
    BY <1>2, <1>3, <1>8, <2>2, MergedIs
  <2>4. e.state \in {"active", "draft", "retired"}
    BY <2>2 DEF FileEntry
  <2>5. state = IF e.attrs["Superseded-by"] # {} \/ returned # {} THEN "retired" ELSE e.state
    BY <2>3 DEF TargetState
  <2>6. OneEntryEach => returned = Returning(l.to, "Superseded-by")
    BY <1>2, <1>7
  <2> HIDE DEF state, e, returned
  <2> QED
    BY <2>1, <2>4, <2>5, <2>6 DEF e
<1>13. UnreadReported
  <2>1. \A f : <<"MSL-E000", f>> \in Graph(AllFound).reported <=> f \in PathSet /\ found[f] = NoText
    BY ReportedIs, Zenon
  <2>2. \A f \in PathSet : <<"MSL-E000", f>> \in graph.reported <=> found[f] = NoText
    BY <2>1, Zenon
  <2> QED
    BY <2>2, Zenon DEF UnreadReported
<1> QED
  BY <1>6, <1>11, <1>12, <1>13

\* Those without a slot are in the queue, once each.
QueueHolds ==
  /\ NoRepeat(waiting) /\ Left(waiting) = {f \in PathSet : at[f] = "waiting"}
  /\ SlotsHold

FilesAreRead == \A f \in PathSet : at[f] \in {"parsing", "done"} => found[f] \in Contents

GraphIsMade ==
  outcome = "done" => (\A f \in PathSet : at[f] = "done") /\ graph = Graph(AllFound)

CompileInv == CompileTypeOK /\ QueueHolds /\ FilesAreRead /\ GraphIsMade

LEMMA PathsAreFinite == IsFiniteSet(PathSet) /\ IsFiniteSet(InWork) /\ Cardinality(InWork) \in Nat
<1>1. DOMAIN Paths = 1..Len(Paths) /\ Len(Paths) \in Nat /\ Paths \in [1..Len(Paths) -> PathSet]
  BY CompilationAssumption DEF PathSet
<1>2. IsFiniteSet(1..Len(Paths))
  BY <1>1, FS_Interval
<1>3. Paths \in Surjection(1..Len(Paths), PathSet)
  BY <1>1 DEF Surjection, PathSet
<1>4. IsFiniteSet(PathSet)
  BY <1>2, <1>3, FS_Surjection
<1>5. InWork \in SUBSET PathSet
  BY DEF InWork
<1>6. IsFiniteSet(InWork)
  BY <1>4, <1>5, FS_Subset
<1> QED
  BY <1>4, <1>6, FS_CardinalityType

LEMMA EndFileKeeps ==
  ASSUME CompileTypeOK, QueueHolds, NEW f \in PathSet, f \in InWork, EndFile(f)
  PROVE  /\ at' \in [PathSet -> {"waiting", "reading", "parsing", "done"}]
         /\ waiting' \in Seq(PathSet) /\ free' \in 0..Slots
         /\ QueueHolds'
         /\ at'[f] = "done"
         /\ \A g \in PathSet : g # f /\ at'[g] \in {"parsing", "done"} => at[g] = at'[g]
<1>1. IsFiniteSet(InWork) /\ Cardinality(InWork) \in Nat
  BY PathsAreFinite
<1>2. /\ at \in [PathSet -> {"waiting", "reading", "parsing", "done"}] /\ at[f] # "waiting"
      /\ waiting \in Seq(PathSet) /\ free \in 0..Slots /\ Slots \in Nat
      /\ NoRepeat(waiting) /\ Left(waiting) = {g \in PathSet : at[g] = "waiting"}
      /\ Cardinality(InWork) + free = Slots /\ (waiting # <<>> => free = 0)
  BY CompilationAssumption DEF CompileTypeOK, QueueHolds, SlotsHold, InWork
<1>3. IsFiniteSet(InWork \ {f}) /\ Cardinality(InWork \ {f}) = Cardinality(InWork) - 1
  BY <1>1, FS_RemoveElement
<1>4. Cardinality(InWork \ {f}) \in Nat
  BY <1>3, FS_CardinalityType
<1>5. CASE waiting = <<>>
  <2>1. at' = [at EXCEPT ![f] = "done"] /\ free' = free + 1 /\ waiting' = waiting
    BY <1>5 DEF EndFile
  <2>2. InWork' = InWork \ {f}
    BY <1>2, <2>1 DEF InWork
  <2>3. {g \in PathSet : at'[g] = "waiting"} = {g \in PathSet : at[g] = "waiting"}
    BY <1>2, <2>1
  <2>4. SlotsHold'
    BY <1>1, <1>2, <1>3, <1>5, <2>1, <2>2 DEF SlotsHold
  <2>5. QueueHolds'
    BY <1>2, <2>1, <2>3, <2>4 DEF QueueHolds
  <2>6. free' \in 0..Slots
    BY <1>1, <1>2, <1>3, <1>4, <2>1
  <2>7. /\ at' \in [PathSet -> {"waiting", "reading", "parsing", "done"}] /\ at'[f] = "done"
        /\ \A g \in PathSet : g # f => at'[g] = at[g]
    BY <1>2, <2>1
  <2> QED
    BY <1>2, <2>1, <2>5, <2>6, <2>7
<1>6. CASE waiting # <<>>
  <2> DEFINE h == Head(waiting)
  <2>1. at' = [at EXCEPT ![f] = "done", ![h] = "reading"] /\ free' = free /\ waiting' = Tail(waiting)
    BY <1>6 DEF EndFile
  <2>2. /\ h \in PathSet /\ h \in Left(waiting) /\ Tail(waiting) \in Seq(PathSet)
        /\ NoRepeat(Tail(waiting)) /\ Left(Tail(waiting)) = Left(waiting) \ {h}
    BY <1>2, <1>6, HeadLeaves
  <2> HIDE DEF h
  <2>3. at[h] = "waiting" /\ h # f /\ h \notin InWork
    BY <1>2, <2>2 DEF InWork
  <2>4. at' \in [PathSet -> {"waiting", "reading", "parsing", "done"}] /\ at'[f] = "done" /\ at'[h] = "reading"
    BY <1>2, <2>1, <2>2, <2>3
  <2>5. \A g \in PathSet : g \notin {f, h} => at'[g] = at[g]
    BY <1>2, <2>1
  <2>6. InWork' = (InWork \ {f}) \cup {h}
    BY <2>2, <2>3, <2>4, <2>5 DEF InWork
  <2>7. Cardinality(InWork') = Cardinality(InWork)
    <3>1. h \notin InWork \ {f}
      BY <2>3
    <3>2. Cardinality((InWork \ {f}) \cup {h}) = Cardinality(InWork \ {f}) + 1
      BY <1>3, <3>1, FS_AddElement
    <3> QED
      BY <1>1, <1>3, <2>6, <3>2
  <2>8. Left(waiting') = {g \in PathSet : at'[g] = "waiting"}
    BY <1>2, <2>1, <2>2, <2>4, <2>5
  <2>9. SlotsHold'
    BY <1>2, <1>6, <2>1, <2>7 DEF SlotsHold
  <2>10. QueueHolds'
    BY <2>1, <2>2, <2>8, <2>9 DEF QueueHolds
  <2> QED
    BY <1>2, <2>1, <2>2, <2>4, <2>5, <2>10
<1> QED
  BY <1>5, <1>6

LEMMA CompileStarts == CompileInit => CompileInv
<1> SUFFICES ASSUME CompileInit PROVE CompileInv
  OBVIOUS
<1> DEFINE L == Len(Paths)
           k == IF L < Slots THEN L ELSE Slots
<1>1. /\ DOMAIN Paths = 1..L /\ L \in Nat /\ Slots \in Nat \ {0} /\ Paths \in Seq(PathSet)
      /\ \A m, n \in 1..L : Paths[m] = Paths[n] => m = n
  BY CompilationAssumption
<1>2. /\ k \in Nat /\ k <= L /\ k <= Slots /\ (k = L \/ k = Slots)
      /\ \A n \in 1..L : n <= Slots <=> n \in 1..k
  BY <1>1
<1>3. /\ at = [f \in PathSet |->
                 IF \E n \in DOMAIN Paths : n <= Slots /\ Paths[n] = f THEN "reading" ELSE "waiting"]
      /\ waiting = SubSeq(Paths, Slots + 1, L) /\ free = Slots - k
  BY <1>1 DEF CompileInit
<1> HIDE DEF k, L
<1>4. /\ waiting \in Seq(PathSet) /\ Len(waiting) = L - k
      /\ \A i \in 1..(L - k) : waiting[i] = Paths[Slots + i] /\ Slots + i \in 1..L
  <2>1. \A i \in (Slots + 1)..L : Paths[i] \in PathSet
    BY <1>1 DEF PathSet
  <2>2. /\ waiting \in Seq(PathSet) /\ Len(waiting) = (IF Slots + 1 <= L THEN L - (Slots + 1) + 1 ELSE 0)
        /\ \A i \in 1..(L - (Slots + 1) + 1) : waiting[i] = Paths[(Slots + 1) + i - 1]
    BY <1>1, <1>3, <2>1, SubSeqProperties DEF L
  <2>3. L - k = (IF Slots + 1 <= L THEN L - (Slots + 1) + 1 ELSE 0)
    BY <1>1, <1>2
  <2>4. ASSUME NEW i \in 1..(L - k) PROVE waiting[i] = Paths[Slots + i] /\ Slots + i \in 1..L
    <3>1. i \in 1..(L - (Slots + 1) + 1) /\ (Slots + 1) + i - 1 = Slots + i /\ Slots + i \in 1..L
      BY <1>1, <1>2, <2>3
    <3> QED
      BY <2>2, <3>1
  <2> QED
    BY <2>2, <2>3, <2>4
<1>5. NoRepeat(waiting)
  <2>1. ASSUME NEW i \in 1..Len(waiting), NEW j \in 1..Len(waiting), waiting[i] = waiting[j] PROVE i = j
    <3>1. Slots + i = Slots + j
      BY <1>1, <1>4, <2>1
    <3> QED
      BY <1>1, <1>2, <1>4, <3>1
  <2> QED
    BY <2>1 DEF NoRepeat
<1>6. \A n \in 1..L : at[Paths[n]] = (IF n \in 1..k THEN "reading" ELSE "waiting")
  <2>1. ASSUME NEW n \in 1..L
        PROVE  (\E m \in DOMAIN Paths : m <= Slots /\ Paths[m] = Paths[n]) <=> n \in 1..k
    BY <1>1, <1>2
  <2>2. \A n \in 1..L : Paths[n] \in PathSet
    BY <1>1 DEF PathSet
  <2> QED
    BY <1>3, <2>1, <2>2
<1>7. \A f \in PathSet : \E n \in 1..L : f = Paths[n]
  BY <1>1 DEF PathSet
<1>8. Left(waiting) = {f \in PathSet : at[f] = "waiting"}
  <2>1. ASSUME NEW f \in PathSet, at[f] = "waiting" PROVE f \in Left(waiting)
    <3>1. PICK n \in 1..L : f = Paths[n]
      BY <1>7
    <3>2. n \notin 1..k
      BY <1>6, <2>1, <3>1
    <3>3. n - Slots \in 1..(L - k) /\ Slots + (n - Slots) = n
      BY <1>1, <1>2, <3>2
    <3>4. waiting[n - Slots] = f
      BY <1>4, <3>1, <3>3
    <3> QED
      BY <1>4, <3>3, <3>4 DEF Left
  <2>2. ASSUME NEW f \in Left(waiting) PROVE f \in PathSet /\ at[f] = "waiting"
    <3>1. PICK i \in 1..(L - k) : f = waiting[i]
      BY <1>4 DEF Left
    <3>2. f = Paths[Slots + i] /\ Slots + i \in 1..L
      BY <1>4, <3>1
    <3>3. Slots + i \notin 1..k
      BY <1>1, <1>2, <3>1
    <3> QED
      BY <1>1, <1>6, <3>2, <3>3 DEF PathSet
  <2> QED
    BY <2>1, <2>2
<1>9. Cardinality(InWork) = k
  <2> DEFINE g == [n \in 1..k |-> Paths[n]]
  <2>1. \A n \in 1..k : n \in 1..L /\ Paths[n] \in InWork
    BY <1>1, <1>2, <1>6 DEF InWork, PathSet
  <2>2. \A f \in InWork : \E n \in 1..k : Paths[n] = f
    BY <1>6, <1>7 DEF InWork
  <2>3. g \in Surjection(1..k, InWork)
    BY <2>1, <2>2 DEF Surjection
  <2>4. g \in Injection(1..k, InWork)
    BY <1>1, <2>1 DEF Injection, IsInjective
  <2>5. IsFiniteSet(1..k) /\ Cardinality(1..k) = k
    BY <1>2, FS_Interval
  <2> HIDE DEF g
  <2> QED
    BY <2>3, <2>4, <2>5, FS_Surjection
<1>10. SlotsHold
  <2>1. waiting # <<>> => L - k # 0
    BY <1>4
  <2> QED
    <3>1. waiting # <<>> => k = Slots
      BY <1>1, <1>2, <2>1
    <3> QED
      BY <1>1, <1>2, <1>3, <1>9, <3>1 DEF SlotsHold
<1>11. CompileTypeOK
  <2>1. at \in [PathSet -> {"waiting", "reading", "parsing", "done"}]
    BY <1>3
  <2>2. free \in 0..Slots
    BY <1>1, <1>2, <1>3
  <2>3. disk \in [PathSet -> Contents] /\ found \in [PathSet -> Contents \cup {Unread}]
    BY DEF CompileInit
  <2>4. changes \in 0..MaxChanges /\ outcome \in {"running", "failed", "done"}
    BY CompilationAssumption DEF CompileInit
  <2>5. DOMAIN graph = {"entries", "links", "reported"}
    BY DEF CompileInit
  <2> QED
    BY <1>4, <2>1, <2>2, <2>3, <2>4, <2>5 DEF CompileTypeOK
<1>12. FilesAreRead /\ GraphIsMade
  BY <1>3 DEF FilesAreRead, GraphIsMade, CompileInit
<1> QED
  BY <1>5, <1>8, <1>10, <1>11, <1>12 DEF CompileInv, QueueHolds

LEMMA CompileKeeps == CompileInv /\ [CompileNext]_compileVars => CompileInv'
<1> SUFFICES ASSUME CompileInv, [CompileNext]_compileVars PROVE CompileInv'
  OBVIOUS
<1> USE DEF CompileInv
<1>1. ASSUME UNCHANGED <<at, waiting, free, found, outcome, graph>>
      PROVE  /\ QueueHolds' /\ FilesAreRead' /\ GraphIsMade'
             /\ at' = at /\ waiting' = waiting /\ free' = free /\ found' = found
             /\ outcome' = outcome /\ graph' = graph
  <2>1. QueueHolds'
    BY <1>1 DEF QueueHolds, SlotsHold, InWork
  <2>2. FilesAreRead'
    BY <1>1 DEF FilesAreRead
  <2>3. AllFound' = AllFound
    BY <1>1, SMT DEF AllFound
  <2>4. Graph(AllFound)' = Graph(AllFound)
    BY <1>1, <2>3, SMT DEF Graph
  <2>5. GraphIsMade'
    BY <1>1, <2>4 DEF GraphIsMade
  <2> QED
    BY <1>1, <2>1, <2>2, <2>5
<1>2. ASSUME NEW f \in PathSet, ChangeFile(f) PROVE CompileInv'
  <2>1. UNCHANGED <<at, waiting, free, found, outcome, graph>>
    BY <1>2 DEF ChangeFile
  <2>2. disk' \in [PathSet -> Contents] /\ changes' \in 0..MaxChanges
    BY <1>2, CompilationAssumption DEF ChangeFile, CompileTypeOK
  <2>3. CompileTypeOK'
    BY <1>1, <2>1, <2>2 DEF CompileTypeOK
  <2> QED
    BY <1>1, <2>1, <2>3
<1>3. ASSUME NEW f \in PathSet, ReadFile(f) PROVE CompileInv'
  <2>1. /\ at[f] = "reading" /\ f \in InWork /\ outcome # "done"
        /\ found' = [found EXCEPT ![f] = disk[f]] /\ disk[f] \in Contents
        /\ disk' = disk /\ outcome' = outcome /\ graph' = graph /\ changes' = changes
    BY <1>3 DEF ReadFile, InWork, GraphIsMade, CompileTypeOK
  <2>2. found' \in [PathSet -> Contents \cup {Unread}] /\ found'[f] \in Contents
        /\ \A g \in PathSet : g # f => found'[g] = found[g]
    BY <2>1 DEF CompileTypeOK
  <2>3. /\ at' \in [PathSet -> {"waiting", "reading", "parsing", "done"}]
        /\ waiting' \in Seq(PathSet) /\ free' \in 0..Slots /\ QueueHolds'
        /\ \A g \in PathSet : g # f /\ at'[g] \in {"parsing", "done"} => at[g] = at'[g]
    <3>1. CASE disk[f] = NoText
      BY <1>3, <2>1, <3>1, EndFileKeeps DEF ReadFile
    <3>2. CASE disk[f] # NoText
      <4>1. at' = [at EXCEPT ![f] = "parsing"] /\ waiting' = waiting /\ free' = free
        BY <1>3, <3>2 DEF ReadFile
      <4>2. InWork' = InWork
        BY <2>1, <4>1 DEF InWork, CompileTypeOK
      <4>3. {g \in PathSet : at'[g] = "waiting"} = {g \in PathSet : at[g] = "waiting"}
        BY <2>1, <4>1 DEF CompileTypeOK
      <4>4. QueueHolds'
        BY <4>1, <4>2, <4>3 DEF QueueHolds, SlotsHold
      <4> QED
        BY <4>1, <4>4 DEF CompileTypeOK
    <3> QED
      BY <3>1, <3>2
  <2>4. CompileTypeOK'
    BY <2>1, <2>2, <2>3 DEF CompileTypeOK
  <2>5. FilesAreRead'
    BY <2>2, <2>3 DEF FilesAreRead
  <2>6. GraphIsMade'
    BY <2>1 DEF GraphIsMade
  <2> QED
    BY <2>3, <2>4, <2>5, <2>6
<1>4. ASSUME NEW f \in PathSet, at[f] = "parsing", EndFile(f), outcome' \in {outcome, "failed"},
             UNCHANGED <<disk, found, graph, changes>>
      PROVE  CompileInv'
  <2>1. f \in InWork /\ outcome # "done" /\ found[f] \in Contents
    BY <1>4 DEF InWork, GraphIsMade, FilesAreRead
  <2>2. /\ at' \in [PathSet -> {"waiting", "reading", "parsing", "done"}]
        /\ waiting' \in Seq(PathSet) /\ free' \in 0..Slots /\ QueueHolds'
        /\ \A g \in PathSet : g # f /\ at'[g] \in {"parsing", "done"} => at[g] = at'[g]
    BY <1>4, <2>1, EndFileKeeps
  <2>3. CompileTypeOK'
    BY <1>4, <2>2 DEF CompileTypeOK
  <2>4. FilesAreRead'
    BY <1>4, <2>1, <2>2 DEF FilesAreRead
  <2>5. GraphIsMade'
    BY <1>4, <2>1 DEF GraphIsMade
  <2> QED
    BY <2>2, <2>3, <2>4, <2>5
<1>5. ASSUME NEW f \in PathSet, ParseFile(f) \/ ParseThrows(f) PROVE CompileInv'
  BY <1>4, <1>5 DEF ParseFile, ParseThrows
<1>6. ASSUME BuildGraph PROVE CompileInv'
  <2>1. /\ \A f \in PathSet : at[f] = "done"
        /\ outcome' = "done" /\ graph' = Graph(AllFound)
        /\ UNCHANGED <<disk, at, waiting, free, found, changes>>
    BY <1>6 DEF BuildGraph
  <2>2. QueueHolds' /\ FilesAreRead'
    BY <2>1 DEF QueueHolds, SlotsHold, InWork, FilesAreRead
  <2>3. Graph(AllFound)' = Graph(AllFound)
    <3>1. AllFound' = AllFound
      BY <2>1, SMT DEF AllFound
    <3> QED
      BY <2>1, <3>1, SMT DEF Graph
  <2>4. GraphIsMade'
    BY <2>1, <2>3 DEF GraphIsMade
  <2>5. DOMAIN Graph(AllFound) = {"entries", "links", "reported"}
    BY DEF Graph
  <2>6. CompileTypeOK'
    BY <2>1, <2>5 DEF CompileTypeOK
  <2> QED
    BY <2>2, <2>4, <2>6
<1>7. ASSUME UNCHANGED compileVars PROVE CompileInv'
  <2>1. UNCHANGED <<at, waiting, free, found, outcome, graph>> /\ disk' = disk /\ changes' = changes
    BY <1>7 DEF compileVars
  <2>2. CompileTypeOK'
    BY <1>1, <2>1 DEF CompileTypeOK
  <2> QED
    BY <1>1, <2>1, <2>2
<1> QED
  BY <1>2, <1>3, <1>5, <1>6, <1>7 DEF CompileNext

\* While a file waits, another is in work: the compilation goes on.
LEMMA CompileInvHolds == CompileInv => GraphIsOfSources
<1> SUFFICES ASSUME CompileInv PROVE GraphIsOfSources
  OBVIOUS
<1>1. SlotsHold
  BY DEF CompileInv, QueueHolds
<1>2. ASSUME InWork = {} PROVE \A f \in PathSet : at[f] = "done"
  <2>1. free = Slots /\ Slots # 0
    BY <1>1, <1>2, FS_EmptySet, CompilationAssumption DEF SlotsHold, CompileInv, CompileTypeOK
  <2>2. waiting = <<>>
    BY <1>1, <2>1 DEF SlotsHold
  <2>3. Left(waiting) = {}
    BY <2>2 DEF Left
  <2>4. \A f \in PathSet : at[f] # "waiting"
    BY <2>3 DEF CompileInv, QueueHolds
  <2> QED
    BY <1>2, <2>4 DEF InWork, CompileInv, CompileTypeOK
<1>3. ASSUME outcome = "done" PROVE FirstCounts /\ InversesAgree /\ InactiveReported /\ UnreadReported
  <2>1. AllRead /\ graph = Graph(AllFound)
    BY <1>3 DEF CompileInv, GraphIsMade, FilesAreRead, AllRead
  <2> QED
    BY <2>1, GraphIs
<1> QED
  BY <1>1, <1>2, <1>3 DEF GraphIsOfSources

\* The compilation goes on until all files are done, and its graph is that of the
\* entries as they were read: the first of a display ID counts, inverses and the
\* links back are those that the entries call for, and links to entries that are
\* not active and files that could not be read are reported (core/compiler/mod.ts).
THEOREM GraphIsFaithful == CompileSpec => []GraphIsOfSources
<1>1. CompileSpec => []CompileInv
  BY CompileStarts, CompileKeeps, PTL DEF CompileSpec
<1> QED
  BY <1>1, CompileInvHolds, PTL
===============================================================================
