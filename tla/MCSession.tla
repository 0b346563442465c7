------------------------------- MODULE MCSession -------------------------------
(***************************************************************************)
(* The numbers of a language-server session and the workspace of an MCP    *)
(* session, side by side: `part` is the one that runs, the other rests in  *)
(* one of its initial states.                                              *)
(***************************************************************************)
EXTENDS IdReservations, McpWorkspace

CONSTANTS a, b, c, d1, d2, p1

VARIABLE part

sessionVars == <<part, vars, workspaceVars>>

\* Two documents of one project.
MCDocs == {d1, d2}
MCProjectOf == [d \in MCDocs |-> p1]

\* Two start folders; the first holds the project a and the project b in it.
MCWithin == [r \in {a, b, c} |-> IF r = b THEN {a} ELSE {}]
MCCandidates == <<{a, b}, {c}>>

MCInit ==
  /\ part \in {"numbers", "workspace"}
  /\ part = "numbers" \/ (part # "numbers" /\ text = [d \in Docs |-> {}])
  /\ part = "workspace" \/ (part # "workspace" /\ present = {})
  /\ Init /\ WorkspaceInit

MCNext ==
  \/ part = "numbers" /\ Next /\ UNCHANGED <<part, workspaceVars>>
  \/ part = "workspace" /\ WorkspaceNext /\ UNCHANGED <<part, vars>>

\* The fairness of WorkspaceFairSpec.
MCSpec ==
  /\ MCInit /\ [][MCNext]_sessionVars
  /\ WF_sessionVars((NextCandidate \/ Apply \/ Install) /\ UNCHANGED <<part, vars>>)
  /\ \A r \in Roots :
       /\ WF_sessionVars(Scan(r) /\ UNCHANGED <<part, vars>>)
       /\ WF_sessionVars(OpenProject(r) /\ UNCHANGED <<part, vars>>)
  /\ \A k \in Callers : WF_sessionVars(Loaded(k) /\ UNCHANGED <<part, vars>>)
===============================================================================
