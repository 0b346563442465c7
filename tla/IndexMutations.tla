---------------------------- MODULE IndexMutations ----------------------------
(***************************************************************************)
(* The index under any sequence of the two mutations the language server   *)
(* makes: a file is parsed (again), or leaves the index.                   *)
(***************************************************************************)
EXTENDS WorkspaceIndex

VARIABLE workspaceIndex

TypeOK == workspaceIndex \in Index

Init == workspaceIndex = EmptyIndex

\* parseAndUpdateFile, once the parse is done.
Parse(f, new) ==
  /\ workspaceIndex.parses < MaxParses
  /\ workspaceIndex' = UpdateFile(workspaceIndex, f, new)

Forget(f) ==
  /\ Tracked(workspaceIndex, f)
  /\ workspaceIndex' = RemoveFile(workspaceIndex, f)

Next ==
  \E f \in Files :
    \/ \E new \in SUBSET Ids : Parse(f, new)
    \/ Forget(f)

Spec == Init /\ [][Next]_workspaceIndex

-------------------------------------------------------------------------------
\* See Complete: an ID resolves exactly when some tracked file declares it.
IndexComplete == Complete(workspaceIndex)

\* See Current: an ID never resolves to an entry object of an earlier parse.
NoStaleEntry == Current(workspaceIndex)

(***************************************************************************)
(* A change to one file never takes an ID away from another: while the     *)
(* file an ID resolves to is neither parsed again nor removed, the ID      *)
(* keeps resolving to the same entry (the first entry wins).               *)
(***************************************************************************)
FirstEntryWins ==
  [][\A id \in Ids, f \in Files :
       /\ ResolvesTo(workspaceIndex, id, f)
       /\ workspaceIndex'.parseOf[f] = workspaceIndex.parseOf[f]
       /\ Tracked(workspaceIndex', f)
       => workspaceIndex'.byDisplayId[id] = workspaceIndex.byDisplayId[id]]_workspaceIndex
=============================================================================
