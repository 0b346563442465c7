---------------------------- MODULE WorkspaceIndex ----------------------------
(***************************************************************************)
(* The in-memory entry index of one project of the language server         *)
(* (packages/markspec/lsp/workspace.ts).  The index keeps two maps that    *)
(* every mutation must keep in step: the entries of each file, and the     *)
(* entry each display ID resolves to.  Two files may declare the same ID   *)
(* (the validator reports it, the index must survive it), and a mutation   *)
(* touches only the entries of the file it replaces.                       *)
(*                                                                         *)
(* An entry is known by the file that declares it and by the parse that    *)
(* produced it: a parse creates fresh entry objects, so an ID that still   *)
(* resolves to an object of an earlier parse shows stale text.  Entries    *)
(* of one file that repeat an ID are one member of its set of IDs: every   *)
(* lookup in workspace.ts finds the first of them.                         *)
(*                                                                         *)
(* The mutations are operators on an index value, so that a module that    *)
(* composes several of them in one step (corpus seeding) can do so.        *)
(***************************************************************************)
EXTENDS Naturals

CONSTANTS
  Files,      \* paths that can be in the index
  Ids,        \* display IDs
  NoEntry,    \* byDisplayId has no mapping for the ID
  MaxParses   \* bound on the parses of one behaviour

Entry == Files \X Nat

ASSUME MaxParsesAssumption == MaxParses \in Nat
ASSUME NoEntryAssumption == NoEntry \notin Entry

(***************************************************************************)
(* fileEntries  file -> the IDs its last parse declares                    *)
(* insertedAt   file -> the parse that put its key in the map, 0 when it   *)
(*              is untracked; a JavaScript Map keeps keys in that order    *)
(* parseOf      file -> the parse its entries come from                    *)
(* byDisplayId  ID -> the entry it resolves to                             *)
(* parses       the number of parses so far                                *)
(***************************************************************************)
Index == [fileEntries : [Files -> SUBSET Ids],
          insertedAt  : [Files -> Nat],
          parseOf     : [Files -> Nat],
          byDisplayId : [Ids -> Entry \cup {NoEntry}],
          parses      : Nat]

EmptyIndex == [fileEntries |-> [f \in Files |-> {}],
               insertedAt  |-> [f \in Files |-> 0],
               parseOf     |-> [f \in Files |-> 0],
               byDisplayId |-> [id \in Ids |-> NoEntry],
               parses      |-> 0]

Tracked(ix, f) == ix.insertedAt[f] # 0

\* The tracked files whose entries declare `id`.
Declarers(ix, id) == {f \in Files : id \in ix.fileEntries[f]}

\* The member of S a scan of the map meets first.
FirstOf(ix, S) ==
  CHOOSE f \in S : \A g \in S : ix.insertedAt[f] <= ix.insertedAt[g]

EntryOf(ix, f) == <<f, ix.parseOf[f]>>

\* byDisplayId.get(id)?.location.file === filePath
ResolvesTo(ix, id, f) ==
  ix.byDisplayId[id] # NoEntry /\ ix.byDisplayId[id][1] = f

(***************************************************************************)
(* What `id` resolves to once the old entries of f are withdrawn: an ID    *)
(* that resolved to f is taken over by the first other file that declares  *)
(* it, so a duplicate stays reachable.                                     *)
(***************************************************************************)
Withdrawn(ix, f, id) ==
  LET others == Declarers(ix, id) \ {f}
  IN  IF id \in ix.fileEntries[f] /\ ResolvesTo(ix, id, f)
        THEN IF others = {} THEN NoEntry ELSE EntryOf(ix, FirstOf(ix, others))
        ELSE ix.byDisplayId[id]

\* Mutant: an ID the file still declares keeps the entry object it has.
UpdateFileKeepingOld(ix, f, new) ==
  LET n == ix.parses + 1
  IN  [fileEntries |-> [ix.fileEntries EXCEPT ![f] = new],
       insertedAt  |-> [ix.insertedAt EXCEPT
                          ![f] = IF Tracked(ix, f) THEN @ ELSE n],
       parseOf     |-> [ix.parseOf EXCEPT ![f] = n],
       byDisplayId |-> [id \in Ids |->
                          IF id \in new /\ ResolvesTo(ix, id, f) THEN ix.byDisplayId[id]
                          ELSE IF id \in new /\ Withdrawn(ix, f, id) = NoEntry THEN <<f, n>>
                          ELSE Withdrawn(ix, f, id)],
       parses      |-> n]

\* Mutant: a new entry takes its ID from any other file.
UpdateFileLastWins(ix, f, new) ==
  LET n == ix.parses + 1
  IN  [fileEntries |-> [ix.fileEntries EXCEPT ![f] = new],
       insertedAt  |-> [ix.insertedAt EXCEPT
                          ![f] = IF Tracked(ix, f) THEN @ ELSE n],
       parseOf     |-> [ix.parseOf EXCEPT ![f] = n],
       byDisplayId |-> [id \in Ids |->
                          IF id \in new THEN <<f, n>> ELSE Withdrawn(ix, f, id)],
       parses      |-> n]

(***************************************************************************)
(* Replace the entries of f by those of a new parse.  A new entry takes    *)
(* its ID only when nothing else holds it.                                 *)
(***************************************************************************)
UpdateFile(ix, f, new) ==
  LET n == ix.parses + 1
  IN  [fileEntries |-> [ix.fileEntries EXCEPT ![f] = new],
       insertedAt  |-> [ix.insertedAt EXCEPT
                          ![f] = IF Tracked(ix, f) THEN @ ELSE n],
       parseOf     |-> [ix.parseOf EXCEPT ![f] = n],
       byDisplayId |-> [id \in Ids |->
                          IF Withdrawn(ix, f, id) = NoEntry /\ id \in new
                            THEN <<f, n>>
                            ELSE Withdrawn(ix, f, id)],
       parses      |-> n]

(***************************************************************************)
(* Forget f and its entries; nothing happens when f is untracked.          *)
(***************************************************************************)
RemoveFile(ix, f) ==
  [ix EXCEPT !.fileEntries[f] = {},
             !.insertedAt[f]  = 0,
             !.byDisplayId    = [id \in Ids |-> Withdrawn(ix, f, id)]]

-------------------------------------------------------------------------------
(***************************************************************************)
(* An ID resolves exactly when some tracked file declares it: go to        *)
(* definition, hover and completion never lose an entry because the file   *)
(* that held its ID was edited or closed.                                  *)
(***************************************************************************)
Complete(ix) ==
  \A id \in Ids : ix.byDisplayId[id] # NoEntry <=> Declarers(ix, id) # {}

(***************************************************************************)
(* What an ID resolves to is an entry of the current parse of a tracked    *)
(* file that declares it, never an object of an earlier parse.             *)
(***************************************************************************)
Current(ix) ==
  \A id \in Ids : ix.byDisplayId[id] # NoEntry =>
    \E f \in Declarers(ix, id) :
      Tracked(ix, f) /\ ix.byDisplayId[id] = EntryOf(ix, f)
=============================================================================
