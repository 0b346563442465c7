------------------------------- MODULE MCProject -------------------------------
(***************************************************************************)
(* Three machines of the language server, side by side: the corpora of a   *)
(* project, the diagnostics of its files, and the registry of the          *)
(* projects.  `part` is the one that runs, the others rest in one of their *)
(* initial states.                                                         *)
(*                                                                         *)
(* The corpora: one delivered file, one upstream file, one file of the     *)
(* project; the two corpora share the ID i1.  The registry: a document in  *)
(* a directory below the workspace (MCProjectRegistry).                    *)
(***************************************************************************)
EXTENDS ProjectContext, Diagnostics, MCProjectRegistry

CONSTANTS d1, u1, o1, i1, i2, pm, pa, pd

VARIABLE part

projectVars == <<part, contextVars, diagVars, vars>>

MCFiles == {d1, u1, o1}
MCDelivered == {d1}
MCUpstream == {u1}
MCOwn == {o1}
MCCorpusIds == [f \in {d1, u1} |-> IF f = d1 THEN {i1} ELSE {i1, i2}]

\* pa refers to what pm declares; pd can be delivered.
MCTextsOf ==
  [x \in {pm, pa, pd} |-> IF x = pm THEN {"declares", "broken"} ELSE {"refers"}]

Rest(machine, rests) == part = machine \/ (part # machine /\ rests)

MCInit ==
  /\ part \in {"corpora", "diagnostics", "registry"}
  /\ Rest("corpora", diskProfile = {} /\ diskLock = {})
  /\ Rest("diagnostics", saved = [x \in Paths |-> IF x \in Deliverable THEN "refers" ELSE NotSaved])
  /\ ContextInit /\ DiagInit /\ Init
  /\ Rest("registry", configured = {})

MCNext ==
  \/ part = "corpora" /\ ContextNext /\ UNCHANGED <<part, diagVars, vars>>
  \/ part = "diagnostics" /\ DiagNext /\ UNCHANGED <<part, contextVars, vars>>
  \/ part = "registry" /\ Next /\ UNCHANGED <<part, contextVars, diagVars>>

MCSpec == MCInit /\ [][MCNext]_projectVars
===============================================================================
