-------------------------------- MODULE MCDesk --------------------------------
(***************************************************************************)
(* The desk server and the two flows of MarkDesk side by side: `part` is   *)
(* the one that runs, the others rest in one of their initial states.      *)
(***************************************************************************)
EXTENDS DeskProposals, OpenProduct, PromptFlow

CONSTANTS a, b, c

VARIABLE part

deskVars == <<part, serverVars, vars, promptVars>>

\* The formatter is not idempotent, and refuses what it made of its own output.
MCFormattedAs == [p \in {a, b, c} |-> IF p = a THEN b ELSE IF p = b THEN c ELSE Refused]

\* A text the file may hold at first, for the parts that do not look at it.
AnyText == CHOOSE t \in Text : t.body # Gone

MCInit ==
  /\ part \in {"server", "open", "prompt"}
  /\ part = "server" \/ (part # "server" /\ disk = AnyText)
  /\ ServerInit /\ Init /\ PromptInit

MCNext ==
  \/ part = "server" /\ ServerNext /\ UNCHANGED <<part, vars, promptVars>>
  \/ part = "open" /\ Next /\ UNCHANGED <<part, serverVars, promptVars>>
  \/ part = "prompt" /\ PromptNext /\ UNCHANGED <<part, serverVars, vars>>

\* The fairness of ServerFairSpec and of PromptFairSpec.
MCSpec ==
  /\ MCInit /\ [][MCNext]_deskVars
  /\ \A h \in Handlers : WF_deskVars(Serve(h) /\ UNCHANGED <<part, vars, promptVars>>)
  /\ \A r \in 1..MaxRuns :
       WF_deskVars((\E f \in flows : f.run = r /\ Advance(f))
                     /\ UNCHANGED <<part, serverVars, vars>>)
===============================================================================
