-------------------------------- MODULE MCCore --------------------------------
(***************************************************************************)
(* Seven machines of the core that share nothing, side by side: `part` is    *)
(* the one that runs, the others rest in one of their initial states.      *)
(***************************************************************************)
EXTENDS IndexMutations, ProductTree, ProjectDiscovery, ProfileChain, UpstreamLock, RefHealing, Compilation

CONSTANTS d1, d2, d3, d4, s1, s2, s3, n1, n2, n3

VARIABLE part

vars == <<part, workspaceIndex, treeVars, dirVars, profileVars, lockVars, healVars, compileVars>>

-------------------------------------------------------------------------------
\* A chain of four directories.
MCPath == [x \in {d1, d2, d3, d4} |->
  CASE x = d1 -> <<d1>> [] x = d2 -> <<d1, d2>> [] x = d3 -> <<d1, d2, d3>>
    [] OTHER -> <<d1, d2, d3, d4>>]

\* The files to compile, what each may hold, and what the profile delivers: an
\* entry of u1 that u2 supersedes by its ULID, entries that share a display ID or
\* a ULID, and links to drafts and to retired entries.
MCPaths == <<s1, s2, s3>>

MCEntry(name, id, type, state, supersedes, satisfies) ==
  [name |-> name, id |-> id, type |-> type, state |-> state,
   attrs |-> [x \in {"Supersedes", "Superseded-by", "Traces", "Traced-by", "Satisfies"} |->
     CASE x = "Supersedes" -> supersedes [] x = "Satisfies" -> satisfies [] OTHER -> {}]]

MCSuperseded == MCEntry("A", "u1", "req", "active", {}, {})

MCDelivered == <<MCEntry("D", "u9", "req", "draft", {}, {})>>

MCContents ==
  {NoText, <<>>, <<MCSuperseded>>,
   <<[MCEntry("B", "u2", "req", "active", {"u1"}, {"D", "u1"}) EXCEPT !.attrs["Traces"] = {"u1"}]>>,
   <<MCEntry("B", "u2", "req", "active", {"A"}, {"D", "A", "u9"}), MCSuperseded>>,
   <<[MCEntry("A", "u3", "req", "active", {}, {"D"}) EXCEPT !.attrs["Superseded-by"] = {"u4"}]>>,
   <<MCEntry("C", "u1", "test", "retired", {"u1"}, {"A", "u9"})>>,
   <<MCEntry("D", "u2", "req", "active", {"u3"}, {}),
     MCEntry("E", NoId, "req", "active", {"u1"}, {"B", "C"})>>}

\* Two attributes share the inverse Traced-by.
MCInverses ==
  <<[attr |-> "Supersedes", inverse |-> "Superseded-by", category |-> "req", source |-> AnyType],
    [attr |-> "Traces", inverse |-> "Traced-by", category |-> "req", source |-> AnyType],
    [attr |-> "Satisfies", inverse |-> "Traced-by", category |-> "req", source |-> "req"]>>

(***************************************************************************)
(* What a profile may declare: an attribute that lists IDs or is an enum   *)
(* of one or two values, a rule for the targets of a link, a display-ID    *)
(* pattern; each with the settings that may be tightened or relaxed.       *)
(***************************************************************************)
MCValues == {"i1", "i2", "w"}
MCTargetOf == [v \in {"i1", "i2"} |->
  IF v = "i1" THEN [type |-> "u", shape |-> "Authored"] ELSE [type |-> "v", shape |-> "Reference"]]

List(card) == [type |-> "id-list", card |-> card, values |-> {}, required |-> FALSE]
Enum(values) == [type |-> "enum", card |-> <<0, 1>>, values |-> values, required |-> FALSE]

MCAttrs ==
  {List(<<0, 1>>), List(<<0, 3>>), List(<<2, 2>>), Enum({"i1"}), Enum({"i1", "w"}),
   [Enum({"i1"}) EXCEPT !.required = TRUE]}

MCRule(target, card, required) == [target |-> target, card |-> card, required |-> required]

MCRules ==
  {MCRule(t, None, FALSE) : t \in {{"u"}, {"u", "v"}, {"Authored"}}} \cup
  {MCRule({"u", "v"}, card, r) : card \in {<<0, 1>>, <<2, 2>>}, r \in BOOLEAN}

Bare == [extends |-> "req", pattern |-> None, enforcement |-> 0, required |-> FALSE,
         attr |-> None, rule |-> None]

MCTypes ==
  {Bare, [Bare EXCEPT !.attr = List(<<0, 3>>), !.rule = MCRule({"u", "v"}, None, FALSE)],
   [Bare EXCEPT !.pattern = "Q"], [Bare EXCEPT !.required = TRUE],
   [Bare EXCEPT !.extends = "test", !.rule = MCRule({"u"}, None, FALSE)]} \cup
  {[Bare EXCEPT !.attr = x] : x \in MCAttrs} \cup {[Bare EXCEPT !.rule = x] : x \in MCRules} \cup
  {[Bare EXCEPT !.pattern = p, !.enforcement = e] : p \in {None, "P"}, e \in {0, 2}}

MCManifests ==
  {[attr |-> None, type |-> t] : t \in MCTypes} \cup
  {[attr |-> x, type |-> t] : x \in {List(<<0, 3>>), Enum({"i1", "w"}), None}, t \in {None, Bare}}

\* Display IDs are interchangeable, and so are ULIDs: the project that RefHealing
\* starts with has these.
MCNameOf == [s \in {s1, s2, s3} |-> CASE s = s1 -> n1 [] s = s2 -> n2 [] OTHER -> n3]
MCUlidsInOrder ==
  \A r \in {<<s1, s2>>, <<s2, s3>>, <<s1, s3>>} :
    {r[1], r[2]} \subseteq DOMAIN corpus => corpus[r[1]].ulid < corpus[r[2]].ulid

-------------------------------------------------------------------------------
Rest(machine, rests) == part = machine \/ (part # machine /\ rests)

MCInit ==
  /\ part \in {"index", "tree", "dirs", "profile", "lock", "heal", "compile"}
  /\ Rest("tree", entries = {} /\ links = {})
  /\ Rest("dirs", projectYaml = {} /\ markspecYaml = {})
  /\ Rest("lock", references = {} /\ dependencies = {} /\ lockfile = {})
  /\ Rest("heal", corpus = <<>>)
  /\ Rest("compile", disk = [f \in PathSet |-> NoText])
  /\ HealInit
  /\ \A s \in DOMAIN corpus : corpus[s].name = MCNameOf[s]
  /\ MCUlidsInOrder
  /\ Init /\ TreeInit /\ DirInit /\ ProfileInit /\ LockInit /\ CompileInit

MCNext ==
  \/ part = "index" /\ Next
       /\ UNCHANGED <<part, treeVars, dirVars, profileVars, lockVars, healVars, compileVars>>
  \/ part = "tree" /\ TreeNext
       /\ UNCHANGED <<part, workspaceIndex, dirVars, profileVars, lockVars, healVars, compileVars>>
  \/ part = "dirs" /\ DirNext
       /\ UNCHANGED <<part, workspaceIndex, treeVars, profileVars, lockVars, healVars, compileVars>>
  \/ part = "profile" /\ ProfileNext
       /\ UNCHANGED <<part, workspaceIndex, treeVars, dirVars, lockVars, healVars, compileVars>>
  \/ part = "lock" /\ LockNext
       /\ UNCHANGED <<part, workspaceIndex, treeVars, dirVars, profileVars, healVars, compileVars>>
  \/ part = "heal" /\ HealNext
       /\ UNCHANGED <<part, workspaceIndex, treeVars, dirVars, profileVars, lockVars, compileVars>>
  \/ part = "compile" /\ CompileNext
       /\ UNCHANGED <<part, workspaceIndex, treeVars, dirVars, profileVars, lockVars, healVars>>

MCSpec == MCInit /\ [][MCNext]_vars
===============================================================================
