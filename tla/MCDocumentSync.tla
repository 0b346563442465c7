---------------------------- MODULE MCDocumentSync ----------------------------
\* The documents the runs follow.
EXTENDS DocumentSync

\* Every kind of document while the registry does anything, and a Markdown
\* document of the workspace while no project is rebuilt.
AllKinds ==
  [source : BOOLEAN, inWorkspace : BOOLEAN, onDisk : BOOLEAN,
   tasks : {{"rebuild", "reload", "create"}}]
    \cup
  [source : {FALSE}, inWorkspace : {TRUE}, onDisk : BOOLEAN,
   tasks : {{"reload", "create"}}]

SourceInWorkspace ==
  [source : {TRUE}, inWorkspace : {TRUE}, onDisk : {TRUE}, tasks : {{}}]
=============================================================================
