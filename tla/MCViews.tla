------------------------------- MODULE MCViews --------------------------------
(***************************************************************************)
(* Two views of files that change behind them, side by side: the index of  *)
(* the language server that follows a buffer, and the panes of MarkDesk    *)
(* that follow the disk.  `part` is the one that runs, the other rests in  *)
(* one of its initial states.                                              *)
(***************************************************************************)
EXTENDS MCDocumentSync, DeskPanes

CONSTANTS e1, e2, md, rs

VARIABLE part

viewVars == <<part, vars, panesVars>>

\* Two entries of one document, one of a document and one of a source file,
\* and one from outside the product and one that is not there.
MCPlacements ==
  {[e \in {e1, e2} |-> md], [e \in {e1, e2} |-> IF e = e1 THEN md ELSE rs],
   [e \in {e1, e2} |-> IF e = e1 THEN Elsewhere ELSE Gone]}

MCInit ==
  /\ part \in {"buffer", "panes"}
  /\ Init /\ PanesInit
  /\ part = "panes" => document = CHOOSE k \in Kinds : TRUE
  /\ part = "buffer" => Disk.place = [e \in Ids |-> md]

MCNext ==
  \/ part = "buffer" /\ Next /\ UNCHANGED <<part, panesVars>>
  \/ part = "panes" /\ PanesNext /\ UNCHANGED <<part, vars>>

MCSpec == MCInit /\ [][MCNext]_viewVars
================================================================================
