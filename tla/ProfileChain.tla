------------------------------ MODULE ProfileChain ------------------------------
(***************************************************************************)
(* A chain of profiles: the walk up the `extends:` pointers (loadChain in  *)
(* packages/markspec/core/profile/chain.ts), the merge of its tiers        *)
(* (merge.ts), and what the validator makes of the merged profile for one  *)
(* entry (core/validator/types.ts, attributes.ts, traceability.ts).        *)
(*                                                                         *)
(* One type and one attribute name are followed; the attribute may be      *)
(* declared for every entry, for the type, or as a link of the type.  The  *)
(* value types are an enum and a list of IDs.  Colours, labels, documents, *)
(* lexicons and descriptions, which no check of an entry reads, are left   *)
(* out, as are normalization and the entries of an upstream.               *)
(***************************************************************************)
EXTENDS Integers, SequencesExt

CONSTANTS
  Specs,       \* specifiers, by their canonical key
  Leaf,        \* the specifier of .markspec.yaml
  Builtin,     \* the bundled default profile
  Manifests,   \* what a profile may declare: universal attribute and type
  MaxDepth,    \* MAX_CHAIN_DEPTH
  Values,      \* of the attribute
  TargetOf,    \* value that is an ID -> type and shape of the entry it names
  TypeNames, Shapes, Patterns,
  CoreTypes,   \* what a type may extend
  None

\* An upper bound of N; any other that no set of values exceeds is the same.
Unbounded == Cardinality(Values)
Cardinalities == Nat \X (0..Unbounded)

\* What a profile declares of the attribute and the type.
AttributeDecl ==
  [type : {"enum", "id-list"}, card : Cardinalities, values : SUBSET Values, required : BOOLEAN]
LinkRule ==
  [target : SUBSET (TypeNames \cup Shapes), card : Cardinalities \cup {None}, required : BOOLEAN]
TypeDecl == [extends : CoreTypes, pattern : Patterns \cup {None}, enforcement : 0..2,
             required : BOOLEAN, attr : AttributeDecl \cup {None}, rule : LinkRule \cup {None}]
Profile == [attr : AttributeDecl \cup {None}, type : TypeDecl \cup {None}]

ASSUME ProfileAssumption ==
  /\ Manifests \subseteq Profile /\ IsFiniteSet(Values)
  /\ None \notin AttributeDecl \cup LinkRule \cup TypeDecl
  /\ Leaf \in Specs /\ Builtin \notin Specs
  /\ None \notin Specs \cup {Builtin} \cup Patterns
  /\ MaxDepth \in Nat \ {0}
  /\ DOMAIN TargetOf \subseteq Values

VARIABLES
  cursor,   \* the specifier to read next, or None
  tiers,    \* [spec, manifest] of the tiers read, the leaf first
  chain     \* "walking", "merged", or "null" when the load failed

profileVars == <<cursor, tiers, chain>>

-------------------------------------------------------------------------------
(***************************************************************************)
(* Tightening.                                                             *)
(***************************************************************************)
\* A mutant of CardTightens: the upper bound is not looked at.
CardTightensBelow(p, c) == c[1] >= p[1]

CardTightens(p, c) == c[1] >= p[1] /\ c[2] <= p[2]

AttrTightens(p, c) ==
  /\ c.type = p.type
  /\ CardTightens(p.card, c.card)
  /\ p.required => c.required
  /\ p.type = "enum" => c.values \subseteq p.values

\* A type name is covered by any shape.
CoveredBy(target, targets) ==
  \/ target \in targets
  \/ target \in TypeNames /\ targets \cap Shapes # {}

RuleCard(r) == IF r.card = None THEN <<0, Unbounded>> ELSE r.card

RuleTightens(p, c) ==
  /\ \A t \in c.target : CoveredBy(t, p.target)
  /\ c.card # None => CardTightens(RuleCard(p), c.card)
  /\ p.required => c.required

TypeTightens(p, c) ==
  /\ c.extends = p.extends
  /\ c.pattern # None => p.pattern \in {None, c.pattern}
  /\ c.enforcement >= p.enforcement

\* The merge of two declarations, either of which may be missing.
Fold(p, c, tightens(_, _), merged(_, _)) ==
  IF c = None THEN p ELSE IF p = None THEN c ELSE IF tightens(p, c) THEN merged(p, c) ELSE p

UnionAttr(p, c) ==
  Fold(p, c, AttrTightens, LAMBDA q, d : [d EXCEPT !.required = q.required \/ d.required])

UnionRule(p, c) ==
  Fold(p, c, RuleTightens, LAMBDA q, d :
    [d EXCEPT !.card = IF d.card = None THEN q.card ELSE d.card,
              !.required = q.required \/ d.required])

UnionType(p, c) ==
  Fold(p, c, TypeTightens, LAMBDA q, d :
    [extends |-> q.extends,
     pattern |-> IF q.pattern = None THEN d.pattern ELSE q.pattern,
     enforcement |-> d.enforcement,
     required |-> q.required \/ d.required,
     attr |-> UnionAttr(q.attr, d.attr),
     rule |-> UnionRule(q.rule, d.rule)])

FoldTier(base, m) == [attr |-> UnionAttr(base.attr, m.attr), type |-> UnionType(base.type, m.type)]

\* A PROFILE-MERGE diagnostic.
Relaxes(base, m) ==
  LET breaks(p, c, tightens(_, _)) == p # None /\ c # None /\ ~tightens(p, c)
  IN  \/ breaks(base.attr, m.attr, AttrTightens)
      \/ breaks(base.type, m.type, TypeTightens)
      \/ /\ base.type # None /\ m.type # None
         /\ \/ breaks(base.type.attr, m.type.attr, AttrTightens)
            \/ breaks(base.type.rule, m.type.rule, RuleTightens)

\* mergeChain: the effective profile of tiers in order from the root.
Effective(ms) == FoldLeft(FoldTier, Head(ms), Tail(ms))

AnyRelaxes(ms) == \E k \in 2..Len(ms) : Relaxes(Effective(SubSeq(ms, 1, k - 1)), ms[k])

-------------------------------------------------------------------------------
(***************************************************************************)
(* The load.                                                               *)
(***************************************************************************)
ProfileInit == cursor = Leaf /\ tiers = <<>> /\ chain = "walking"

Visited == {tiers[i].spec : i \in 1..Len(tiers)}

Null == chain' = "null" /\ UNCHANGED <<cursor, tiers>>

Cycle == cursor \in Visited /\ Null

TooDeep == cursor \notin Visited /\ Len(tiers) >= MaxDepth /\ Null

Readable == cursor # None /\ cursor \notin Visited /\ Len(tiers) < MaxDepth

\* No manifest there, or one that does not parse.
Unreadable == Readable /\ Null

\* A tier without `extends:` gets the bundled default above it, but for itself.
ReadTier(m, parent) ==
  /\ Readable
  /\ cursor = Builtin => parent = None
  /\ tiers' = Append(tiers, [spec |-> cursor, manifest |-> m])
  /\ \/ cursor' = parent
     \/ parent = None /\ cursor # Builtin /\ cursor' = Builtin
  /\ UNCHANGED chain

RootFirst == [i \in 1..Len(tiers) |-> Reverse(tiers)[i].manifest]

Merge ==
  /\ cursor = None
  /\ chain' = IF AnyRelaxes(RootFirst) THEN "null" ELSE "merged"
  /\ UNCHANGED <<cursor, tiers>>

ProfileNext ==
  /\ chain = "walking"
  /\ \/ Cycle \/ TooDeep \/ Unreadable \/ Merge
     \/ \E m \in Manifests, parent \in Specs \cup {Builtin, None} : ReadTier(m, parent)

ProfileSpec == ProfileInit /\ [][ProfileNext]_profileVars

-------------------------------------------------------------------------------
(***************************************************************************)
(* The checks of an entry of the type, by the values of the attribute and  *)
(* the patterns its display ID fits.                                       *)
(***************************************************************************)
EntryInput == [values : SUBSET Values, fits : SUBSET Patterns]

\* Where effectiveScope takes the declaration from: the inner scope wins.
ScopeOf(p) ==
  IF p.type.attr # None THEN "type"
  ELSE IF p.attr # None THEN "universal"
  ELSE IF p.type.rule # None THEN "link" ELSE "none"

LinkAttr == [type |-> "id-list", card |-> <<0, Unbounded>>, values |-> {}, required |-> FALSE]

Declared(p) ==
  CASE ScopeOf(p) = "type" -> p.type.attr
    [] ScopeOf(p) = "universal" -> p.attr
    [] ScopeOf(p) = "link" -> LinkAttr
    [] OTHER -> None

Outside(values, card) == values # {} /\ Cardinality(values) \notin card[1]..card[2]

ValidValues(d) == IF d.type = "enum" THEN d.values ELSE DOMAIN TargetOf

BadAttribute(e, p) ==
  LET d == Declared(p)
  IN  d # None /\ (Outside(e.values, d.card) \/ ~(e.values \subseteq ValidValues(d)))

BadLink(e, r) == r # None /\ ((r.required /\ e.values = {}) \/ Outside(e.values, RuleCard(r)))

BadTarget(e, r) ==
  r # None /\ \E v \in e.values \cap DOMAIN TargetOf :
    {TargetOf[v].type, TargetOf[v].shape} \cap r.target = {}

\* The errors of the stages 2 to 4; warnings are left out.
ErrorsOf(e, p) ==
  {code \in {"pattern", "required", "attribute", "link", "target"} :
     CASE code = "pattern" -> /\ p.type.enforcement = 2 /\ p.type.pattern # None
                              /\ p.type.pattern \notin e.fits
       [] code = "required" -> p.type.required /\ e.values = {}
       [] code = "attribute" -> BadAttribute(e, p)
       [] code = "link" -> BadLink(e, p.type.rule)
       [] code = "target" -> BadTarget(e, p.type.rule)}

(***************************************************************************)
(* The two ways a chain that loads does relax an ancestor: a declaration   *)
(* in an inner scope replaces the ancestor's, which is in an outer one,    *)
(* unchecked; and a type name is taken to narrow any shape.                *)
(***************************************************************************)
Excused(ancestor, leaf) ==
  (IF ScopeOf(ancestor) # ScopeOf(leaf) THEN {"attribute"} ELSE {}) \cup
  (IF ancestor.type.rule # None /\ ancestor.type.rule.target \cap Shapes # {}
     THEN {"target"} ELSE {})

-------------------------------------------------------------------------------
(***************************************************************************)
(* A child profile may tighten its ancestors, never relax them: an entry   *)
(* that is free of errors under the chain is free of them under every      *)
(* ancestor that declares its type, but for the two ways above.            *)
(***************************************************************************)
NeverRelaxed ==
  chain = "merged" =>
    LET leafFirst == [i \in 1..Len(tiers) |-> tiers[i].manifest]
        ancestry == Reverse(leafFirst)
        leaf == Effective(RootFirst)
    IN  \A k \in 1..Len(ancestry) :
          LET ancestor == Effective(SubSeq(ancestry, 1, k))
          IN  ancestor.type # None =>
                \A e \in EntryInput : ErrorsOf(e, leaf) = {} =>
                  ErrorsOf(e, ancestor) \subseteq Excused(ancestor, leaf)
=============================================================================
