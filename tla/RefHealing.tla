------------------------------ MODULE RefHealing ------------------------------
(***************************************************************************)
(* Trace references across renames: `markspec fmt` stamps identities and   *)
(* rewrites references (packages/markspec/cli/commands/fmt.ts and          *)
(* packages/markspec/core/refs/mod.ts), `markspec lock` records what they  *)
(* point at (packages/markspec/core/lock/resolve.ts), and two gates of     *)
(* `markspec check` compare the files with both                            *)
(* (packages/markspec/core/gates/mod.ts).                                  *)
(*                                                                         *)
(* Every file holds one entry with at most one reference.  An entry is its *)
(* own ULID, which its file shows once it is stamped.  Display IDs are     *)
(* unique: a repeated one is an error of the validator.                    *)
(***************************************************************************)
EXTENDS Naturals, FiniteSets, Functions

CONSTANTS
  Sources,    \* the files of the project
  Referrers,  \* those whose entry may have a reference
  Names,      \* display IDs
  Blank,      \* no reference
  MaxEntries, \* bound on the entries ever written
  MaxEdits,   \* bound on the edits of the author
  MaxFmts,    \* bound on the fmt commands
  MaxLocks    \* bound on the lock commands

ASSUME RefHealingAssumption ==
  /\ Referrers \subseteq Sources /\ IsFiniteSet(Sources)
  /\ Blank \notin Names
  /\ MaxEntries \in Nat /\ MaxEdits \in Nat /\ MaxFmts \in Nat /\ MaxLocks \in Nat
  /\ Cardinality(Sources) <= MaxEntries             \* room for the first ones
  /\ (Names \cup {Blank}) \cap (0..MaxEntries) = {} \* no display ID is a ULID

VARIABLES
  corpus,   \* file -> its entry
  written,  \* the entries written so far
  ledger,   \* [[edge]] of markspec.lock
  locked,   \* the edges that edges-hash stands for
  fmt,      \* the fmt command under way
  settled,  \* what ran last, with no edit since: "edit", "fmt" or "lock" (history)
  edits, fmts, locks  \* so far

healCounters == <<edits, fmts, locks>>
healVars == <<corpus, written, ledger, locked, fmt, settled, healCounters>>

Ulids == 1..MaxEntries
Tokens == Names \cup Ulids
NoUlid == 0

AuthoredEntry == [ulid : Ulids, name : Names, stamped : BOOLEAN, ref : Tokens \cup {Blank}]
RefIndexRow == [name : Names, ulid : Ulids]
LockEdge == [source : Ulids, token : Tokens, target : Ulids \cup {NoUlid}]

\* whole: every file is to be formatted; calm: nobody else has changed a file or
\* the lockfile since the command began.
NoFmt == [at |-> "idle", index |-> {}, ledger |-> {}, todo |-> {}, whole |-> FALSE, calm |-> FALSE]

CorpusTypeOK == DOMAIN corpus \subseteq Sources /\ corpus \in [DOMAIN corpus -> AuthoredEntry]

HealTypeOK ==
  /\ CorpusTypeOK
  /\ written \in 0..MaxEntries
  /\ ledger \subseteq LockEdge
  /\ locked \subseteq [source : Names, target : Tokens]
  /\ fmt \in [at : {"idle", "ledger", "files"}, index : SUBSET RefIndexRow,
              ledger : SUBSET LockEdge, todo : SUBSET Sources, whole : BOOLEAN, calm : BOOLEAN]
  /\ settled \in {"edit", "fmt", "lock"}
  /\ edits \in 0..MaxEdits /\ fmts \in 0..MaxFmts /\ locks \in 0..MaxLocks

-------------------------------------------------------------------------------
Authored == Range(corpus)
Referring == {e \in Authored : e.ref # Blank}

\* extractEdgeQuads: the edges as written.
EdgeQuads == {[source |-> e.name, target |-> e.ref] : e \in Referring}

\* The entry that a token resolves to: byDisplayId ?? byId.
Resolved(token) == {e \in Authored : e.name = token \/ (e.stamped /\ e.ulid = token)}

\* extractEdgeLedger: a source without a ULID has no row, a target without one no target.
EdgeLedger ==
  {[source |-> e.ulid, token |-> e.ref,
    target |-> IF \E t \in Resolved(e.ref) : t.stamped
               THEN (CHOOSE t \in Resolved(e.ref) : TRUE).ulid ELSE NoUlid] :
   e \in {x \in Referring : x.stamped}}

\* buildRefIndex: entries without a ULID are skipped.
BuildRefIndex == {[name |-> e.name, ulid |-> e.ulid] : e \in {x \in Authored : x.stamped}}

\* A mutant of CanonicalTarget: the ledger comes first.
CanonicalTargetLedgerFirst(e, index, rows) ==
  {r \in index :
     \/ r.ulid = e.ref
     \/ \E row \in rows : row.source = e.ulid /\ row.token = e.ref /\ row.target = r.ulid}

\* Rules 1 to 3 of rewriteToken: a ULID, or a name the index does not have whose
\* edge the ledger knows.
CanonicalTarget(e, index, rows) ==
  {r \in index :
     \/ r.ulid = e.ref
     \/ /\ ~\E x \in index : x.name = e.ref
        /\ \E row \in rows : row.source = e.ulid /\ row.token = e.ref /\ row.target = r.ulid}

\* canonicalizeRefs
Canonical(e, index, rows) ==
  LET target == CanonicalTarget(e, index, rows) IN
  IF target = {} THEN e ELSE [e EXCEPT !.ref = (CHOOSE r \in target : TRUE).name]

\* format, of which only the stamping of an identity shows here
Stamped(e) == [e EXCEPT !.stamped = TRUE]

-------------------------------------------------------------------------------
\* The author.  A reference is written as a display ID or as the ULID of an entry.
Writable(s) ==
  {Blank} \cup {t \in Names \cup {e.ulid : e \in {x \in Authored : x.stamped}} : s \in Referrers}
Free == Names \ {e.name : e \in Authored}

Edited ==
  /\ edits < MaxEdits
  /\ edits' = edits + 1
  /\ settled' = "edit"
  /\ fmt' = [fmt EXCEPT !.calm = FALSE]
  /\ UNCHANGED <<ledger, locked, fmts, locks>>

WriteEntry(s, name, ref) ==
  /\ s \notin DOMAIN corpus /\ written < MaxEntries
  /\ written' = written + 1
  /\ corpus' = [x \in DOMAIN corpus \cup {s} |-> IF x # s THEN corpus[x] ELSE
                 [ulid |-> written + 1, name |-> name, stamped |-> FALSE, ref |-> ref]]
  /\ Edited

RenameEntry(s, name) ==
  /\ s \in DOMAIN corpus
  /\ corpus' = [corpus EXCEPT ![s].name = name]
  /\ UNCHANGED written /\ Edited

Refer(s, ref) ==
  /\ s \in DOMAIN corpus /\ ref # corpus[s].ref
  /\ corpus' = [corpus EXCEPT ![s].ref = ref]
  /\ UNCHANGED written /\ Edited

DeleteEntry(s) ==
  /\ s \in DOMAIN corpus
  /\ corpus' = Restrict(corpus, DOMAIN corpus \ {s})
  /\ UNCHANGED written /\ Edited

-------------------------------------------------------------------------------
(***************************************************************************)
(* fmt: the index of the whole project, then the ledger, then one file     *)
(* after the other, each read, formatted, canonicalised and written.  The  *)
(* files are those of the project, or the ones the command names.          *)
(***************************************************************************)
StartFmt(files) ==
  /\ fmt.at = "idle" /\ fmts < MaxFmts
  /\ fmts' = fmts + 1
  /\ fmt' = [at |-> "ledger", index |-> BuildRefIndex, ledger |-> {}, todo |-> files,
             whole |-> files = DOMAIN corpus, calm |-> TRUE]
  /\ UNCHANGED <<corpus, written, ledger, locked, settled, edits, locks>>

ReadLedger ==
  /\ fmt.at = "ledger"
  /\ fmt' = [fmt EXCEPT !.at = "files", !.ledger = ledger]
  /\ UNCHANGED <<corpus, written, ledger, locked, settled, healCounters>>

Formatted(s) == Canonical(Stamped(corpus[s]), fmt.index, fmt.ledger)

\* A mutant of FmtFile: a file of which only a reference was rewritten is not written.
FmtFileUnlessFormatted(s) ==
  /\ fmt.at = "files" /\ s \in fmt.todo
  /\ fmt' = [fmt EXCEPT !.todo = @ \ {s}]
  /\ corpus' = [x \in DOMAIN corpus |->
                 IF x = s /\ ~corpus[s].stamped THEN Formatted(s) ELSE corpus[x]]
  /\ settled' = IF corpus' # corpus THEN "edit" ELSE settled
  /\ UNCHANGED <<written, ledger, locked, healCounters>>

\* A file that is gone is reported and passed over.
FmtFile(s) ==
  /\ fmt.at = "files" /\ s \in fmt.todo
  /\ fmt' = [fmt EXCEPT !.todo = @ \ {s}]
  /\ corpus' = [x \in DOMAIN corpus |-> IF x = s THEN Formatted(s) ELSE corpus[x]]
  /\ settled' = IF corpus' # corpus THEN "edit" ELSE settled
  /\ UNCHANGED <<written, ledger, locked, healCounters>>

\* The command ends, or is killed.  It has settled the project when every file
\* was formatted and nobody interfered.
EndFmt ==
  /\ fmt.at # "idle"
  /\ fmt' = NoFmt
  /\ settled' = IF fmt.calm /\ fmt.whole /\ fmt.at = "files" /\ fmt.todo = {} /\ settled # "lock"
                THEN "fmt" ELSE settled
  /\ UNCHANGED <<corpus, written, ledger, locked, healCounters>>

\* lock: resolveUpstreams over the files of the project, then one write.
LockEdges ==
  /\ locks < MaxLocks
  /\ locks' = locks + 1
  /\ ledger' = EdgeLedger
  /\ locked' = EdgeQuads
  /\ settled' = IF settled = "edit" THEN "edit" ELSE "lock"
  /\ fmt' = [fmt EXCEPT !.calm = FALSE]
  /\ UNCHANGED <<corpus, written, edits, fmts>>

-------------------------------------------------------------------------------
\* A project that was formatted and locked before.
HealInit ==
  /\ \E files \in SUBSET Sources :
       \E name \in [files -> Names], ulid \in [files -> 1..Cardinality(files)],
          ref \in [files -> Names \cup {Blank}] :
         /\ IsInjective(name) /\ IsInjective(ulid)
         /\ \A s \in files \ Referrers : ref[s] = Blank
         /\ corpus = [s \in files |-> [ulid |-> ulid[s], name |-> name[s], stamped |-> TRUE, ref |-> ref[s]]]
  /\ written = Cardinality(DOMAIN corpus)
  /\ ledger = EdgeLedger /\ locked = EdgeQuads
  /\ fmt = NoFmt /\ settled = "edit"
  /\ edits = 0 /\ fmts = 0 /\ locks = 0

HealNext ==
  \/ \E s \in Sources :
       \/ \E name \in Free, ref \in Writable(s) : WriteEntry(s, name, ref)
       \/ \E name \in Free : RenameEntry(s, name)
       \/ \E ref \in Writable(s) : Refer(s, ref)
       \/ DeleteEntry(s)
       \/ FmtFile(s)
  \/ StartFmt(DOMAIN corpus) \/ \E s \in DOMAIN corpus : StartFmt({s})
  \/ ReadLedger
  \/ EndFmt
  \/ LockEdges

HealSpec == HealInit /\ [][HealNext]_healVars

-------------------------------------------------------------------------------
\* What the reference of a file points at, for a reader of the files and the lockfile.
LinkOf(s) ==
  LET e == corpus[s]
      renamed == {x \in Authored : x.stamped /\ e.stamped
                    /\ [source |-> e.ulid, token |-> e.ref, target |-> x.ulid] \in ledger}
      found == IF Resolved(e.ref) # {} THEN Resolved(e.ref) ELSE renamed
  IN {x.ulid : x \in found}

(***************************************************************************)
(* fmt never makes a reference point at another entry, nor at none: a      *)
(* reference to a renamed entry follows it, and one to an entry that has   *)
(* taken the name since stays.  Excused are a file or a lockfile that      *)
(* changes while fmt runs (it works on the index it began with) and a      *)
(* reference to an entry that had no ULID when it began: the index of fmt  *)
(* does not have it, and the ledger may know the token as an older name.   *)
(***************************************************************************)
KeepsLinks ==
  [][\A s \in DOMAIN corpus :
       /\ FmtFile(s) /\ fmt.calm
       /\ \A t \in Resolved(corpus[s].ref) : [name |-> t.name, ulid |-> t.ulid] \in fmt.index
       => LinkOf(s)' = LinkOf(s)]_healVars

\* fmtDriftGate: MSL-F010 and MSL-F011; lockfileDriftGate: MSL-L212.
FmtDrift == \E e \in Authored : Canonical(Stamped(e), BuildRefIndex, ledger) # e
LockDrift == EdgeQuads # locked

(***************************************************************************)
(* Once a whole fmt has run undisturbed, the format gate is silent and     *)
(* another fmt changes nothing; once a lock has run after it, so is the    *)
(* lockfile gate, and the new ledger gives fmt nothing new to heal.        *)
(***************************************************************************)
ChecksPass ==
  /\ settled # "edit" => ~FmtDrift
  /\ settled = "lock" => ~LockDrift
===============================================================================
