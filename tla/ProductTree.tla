------------------------------ MODULE ProductTree ------------------------------
(***************************************************************************)
(* The roots of the product tree of the desk server (buildProductTree and  *)
(* sourceCycleRoots in packages/markspec/desk/api.ts): the entries with no *)
(* parent, and of each link cycle with no parent outside it the entry with *)
(* the lowest display ID.  The cycles are found by Tarjan's pass, with a   *)
(* stack of frames in place of recursion.                                  *)
(*                                                                         *)
(* IDs are numbers in the order of display IDs.  Titles, types and the     *)
(* kind of a link are left out; the kind orders the children of an entry,  *)
(* so the model visits them in any order.                                  *)
(***************************************************************************)
EXTENDS Integers, SequencesExt

CONSTANTS DisplayIds, MaxLinks

ASSUME TreeAssumption == IsFiniteSet(DisplayIds) /\ DisplayIds \subseteq Nat \ {0} /\ MaxLinks \in Nat

VARIABLES
  entries,    \* IDs of the entries
  links,      \* the refinement and verification links, from child to parent
  frames,     \* the walk: entries with the children not yet looked at
  number, low, \* of the entries met, by order of meeting; 0 before
  stack,      \* entries met whose cycle is not known
  component   \* of an entry: its cycle, by its first entry met; 0 before

treeVars == <<entries, links, frames, number, low, stack, component>>

\* A link to an entry that is not there, or from an entry to itself, is no edge.
Edges == {l \in links : l[1] \in entries /\ l[2] \in entries /\ l[1] # l[2]}

ChildrenOf(p) == {c \in entries : <<c, p>> \in Edges}

TreeInit ==
  /\ entries \in SUBSET DisplayIds
  /\ links \in {l \in SUBSET (DisplayIds \X DisplayIds) : Cardinality(l) <= MaxLinks}
  /\ frames = <<>> /\ stack = <<>>
  /\ number = [i \in DisplayIds |-> 0] /\ low = number /\ component = number

-------------------------------------------------------------------------------
Top == Last(frames)

Met == {i \in entries : number[i] # 0}

\* An entry is met: a frame for it, the next number, and the stack.
Meet(i, below) ==
  LET n == Cardinality(Met) + 1
  IN  /\ frames' = Append(below, [id |-> i, todo |-> ChildrenOf(i)])
      /\ number' = [number EXCEPT ![i] = n]
      /\ low' = [low EXCEPT ![i] = n]
      /\ stack' = Append(stack, i)
      /\ UNCHANGED <<entries, links, component>>

\* The next entry that was not met.
NextEntry ==
  /\ frames = <<>> /\ Met # entries
  /\ Meet(Min(entries \ Met), frames)

Looked(child) == Append(Front(frames), [Top EXCEPT !.todo = @ \ {child}])

\* A child met for the first time.
Descend(child) ==
  /\ number[child] = 0
  /\ Meet(child, Looked(child))

\* A mutant of Seen: a child of a closed cycle counts too.
SeenAnywhere(child) ==
  /\ number[child] # 0
  /\ frames' = Looked(child)
  /\ low' = [low EXCEPT ![Top.id] = Min({@, number[child]})]
  /\ UNCHANGED <<entries, links, number, stack, component>>

\* A child met before; it counts while its cycle is open.
Seen(child) ==
  /\ number[child] # 0
  /\ frames' = Looked(child)
  /\ low' = IF Contains(stack, child) THEN [low EXCEPT ![Top.id] = Min({@, number[child]})] ELSE low
  /\ UNCHANGED <<entries, links, number, stack, component>>

Look ==
  /\ frames # <<>>
  /\ \E child \in Top.todo : Descend(child) \/ Seen(child)

\* The frame ends; the entry that nothing below leads out of closes its cycle.
Leave ==
  /\ frames # <<>> /\ Top.todo = {}
  /\ frames' = Front(frames)
  /\ low' = IF Len(frames) = 1 THEN low
            ELSE [low EXCEPT ![frames[Len(frames) - 1].id] = Min({@, low[Top.id]})]
  /\ IF low[Top.id] = number[Top.id]
       THEN LET at == CHOOSE k \in 1..Len(stack) : stack[k] = Top.id
                group == {stack[k] : k \in at..Len(stack)}
            IN  /\ stack' = SubSeq(stack, 1, at - 1)
                /\ component' = [i \in DisplayIds |-> IF i \in group THEN Top.id ELSE component[i]]
       ELSE UNCHANGED <<stack, component>>
  /\ UNCHANGED <<entries, links, number>>

TreeNext == NextEntry \/ Look \/ Leave

TreeSpec == TreeInit /\ [][TreeNext]_treeVars /\ WF_treeVars(TreeNext)

-------------------------------------------------------------------------------
WalkIsDone == frames = <<>> /\ Met = entries

Group(i) == {j \in entries : component[j] = component[i]}

SourceCycleRoots ==
  {Min(Group(i)) : i \in {j \in entries :
     /\ Cardinality(Group(j)) > 1
     /\ ~\E e \in Edges : component[e[1]] = component[j] /\ component[e[2]] # component[j]}}

Roots == {i \in entries : ~\E e \in Edges : e[1] = i} \cup SourceCycleRoots

(***************************************************************************)
(* The reference: an entry and those above it are the smallest set with    *)
(* that entry and with the parents of its members.                         *)
(***************************************************************************)
Ancestors(i) ==
  {j \in entries : \A S \in SUBSET entries :
     i \in S /\ (\A e \in Edges : e[1] \in S => e[2] \in S) => j \in S}

(***************************************************************************)
(* The roots are the entries that every entry above them has above it      *)
(* too, the lowest of them where several are above each other.  So every   *)
(* entry is below a root, as the comment of buildProductTree says, and no  *)
(* root is below another.                                                  *)
(***************************************************************************)
RootsAreLowest ==
  WalkIsDone => Roots = {i \in entries : \A j \in Ancestors(i) : i \in Ancestors(j) /\ i <= j}
=============================================================================
