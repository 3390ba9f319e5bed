--------------------------- MODULE ManifestLoader ---------------------------
(***************************************************************************)
(* ManifestCfg::build and ManifestCfg::lint of src/src/manifest.rs: the    *)
(* checks in the order the code makes them, each with its early return,    *)
(* then the cycle search (CycleDetection, extended: its steps are this     *)
(* module's while the search runs), then the conversion to the             *)
(* DependencyManifest an engine is built with.                             *)
(*                                                                         *)
(* Labels, the cell name and the JSON syntax are left out: they take part  *)
(* in no check.                                                            *)
(***************************************************************************)
EXTENDS CycleDetection, Grouping, FiniteSets

CONSTANTS Configs,      \* ManifestCfg values that may be loaded
          MaxSaneWcet,  \* MAX_SANE_WCET_NS
          TightBudget   \* TIGHT_BUDGET_NS of lint

ASSUME BudgetAssumption == MaxSaneWcet \in Nat /\ TightBudget \in Nat
ASSUME ConfigsAssumption ==
    \A c \in Configs :
        /\ c.trip_node \in Node
        /\ DOMAIN c.nodes \subseteq Nat
        /\ \A k \in DOMAIN c.nodes : c.nodes[k].id \in Node
        /\ c.edges \in Seq([from : Node, to : Node, wcet : Nat])

VARIABLES cfg,       \* the manifest file
          outcome,   \* "loading", "searching", "accepted" or the error
          warnings   \* what lint returned

vars == <<cfg, outcome, warnings, adj, dfsVars>>

\* Forward adjacency, children in declaration order.
Adj == LET froms(n) == {k \in DOMAIN cfg.edges : cfg.edges[k].from = n}
           tos      == [k \in DOMAIN cfg.edges |-> cfg.edges[k].to]
       IN  [n \in {cfg.edges[k].from : k \in DOMAIN cfg.edges} |->
               Grouped(tos, froms(n))]

Ids(c) == {c.nodes[k].id : k \in DOMAIN c.nodes}

\* The matcher the node table holds for a declared id.
MatcherOf(c, n) == c.nodes[CHOOSE k \in DOMAIN c.nodes : c.nodes[k].id = n].matcher

-----------------------------------------------------------------------------
(* build(): the first failing check decides the error.                     *)

DuplicateNode(c) ==
    \E j, k \in DOMAIN c.nodes : j < k /\ c.nodes[j].id = c.nodes[k].id

\* Mutant: a zero budget passes.
EdgeErrorLenient(c, e) ==
    IF e.from \notin Ids(c) \/ e.to \notin Ids(c) THEN "DanglingNode"
    ELSE IF e.wcet > MaxSaneWcet THEN "BadBudget"
    ELSE "none"

\* The first bad edge, and for that edge the first failing check.
EdgeError(c, e) ==
    IF e.from \notin Ids(c) \/ e.to \notin Ids(c) THEN "DanglingNode"
    ELSE IF e.wcet = 0 \/ e.wcet > MaxSaneWcet THEN "BadBudget"
    ELSE "none"

FirstEdgeError(c) ==
    LET bad == {k \in DOMAIN c.edges : EdgeError(c, c.edges[k]) # "none"}
    IN  IF bad = {} THEN "none"
        ELSE EdgeError(c, c.edges[CHOOSE k \in bad : \A j \in bad : k <= j])

FirstError(c) ==
    IF c.nodes = << >> THEN "Empty"
    ELSE IF DuplicateNode(c) THEN "DuplicateNode"
    ELSE IF c.trip_node \notin Ids(c) THEN "TripNodeUndeclared"
    ELSE IF MatcherOf(c, c.trip_node).kind # "profinet" THEN "TripNodeNotInterlock"
    ELSE FirstEdgeError(c)

Reject ==
    /\ outcome = "loading" /\ FirstError(cfg) # "none"
    /\ outcome' = FirstError(cfg)
    /\ UNCHANGED <<cfg, warnings, adj, dfsVars>>

Search ==
    /\ outcome = "loading" /\ FirstError(cfg) = "none"
    /\ outcome' = "searching"
    /\ adj' = Adj
    /\ todo' = All'
    /\ UNCHANGED <<cfg, warnings, color, stack, verdict, culprit>>

DetectCycle ==
    /\ outcome = "searching"
    /\ DfsStep
    /\ UNCHANGED <<cfg, outcome, warnings, adj>>

RejectCycle ==
    /\ outcome = "searching" /\ verdict = "cycle"
    /\ outcome' = "DependencyCycle"
    /\ UNCHANGED <<cfg, warnings, adj, dfsVars>>

Accept ==
    /\ outcome = "searching" /\ verdict = "acyclic"
    /\ outcome' = "accepted"
    /\ UNCHANGED <<cfg, warnings, adj, dfsVars>>

-----------------------------------------------------------------------------
(* lint(): called after a successful build.                                *)

EdgesOf(c) == {c.edges[k] : k \in DOMAIN c.edges}

\* Mutant: the outgoing edges of the trip node are looked at.
LintForward(c) ==
    IF \E e \in EdgesOf(c) : e.from = c.trip_node
    THEN {} ELSE {[kind |-> "TripNodeUnreachable", node |-> c.trip_node]}

LintWarnings(c) ==
    (IF \E e \in EdgesOf(c) : e.to = c.trip_node
       THEN {} ELSE {[kind |-> "TripNodeUnreachable", node |-> c.trip_node]})
    \cup {[kind |-> "OrphanNode", node |-> n] :
             n \in {m \in Ids(c) : \A e \in EdgesOf(c) : e.from # m /\ e.to # m}}
    \cup {[kind |-> "SuspiciouslyTightBudget", edge |-> e] :
             e \in {d \in EdgesOf(c) : d.wcet < TightBudget}}

Lint ==
    /\ outcome = "accepted"
    /\ warnings' = LintWarnings(cfg)
    /\ outcome' = "linted"
    /\ UNCHANGED <<cfg, adj, dfsVars>>

Init == /\ cfg \in Configs
        /\ outcome = "loading"
        /\ warnings = {}
        /\ adj = << >>
        /\ DfsStart

Next == Reject \/ Search \/ DetectCycle \/ RejectCycle \/ Accept \/ Lint

\* build() and lint() are plain calls: they run to their return.
Spec == Init /\ [][Next]_vars /\ WF_vars(Next)

-----------------------------------------------------------------------------
(* Properties.                                                             *)

Errors == {"Empty", "DuplicateNode", "TripNodeUndeclared",
           "TripNodeNotInterlock", "DanglingNode", "BadBudget",
           "DependencyCycle"}

Built == outcome \in {"accepted", "linted"}

\* Declarative validity: the bullet list of manifest.rs's module comment.  No
\* cycle: of any set of nodes, one has no dependency into the set.
Valid(c) ==
    /\ c.nodes # << >>
    /\ \A j, k \in DOMAIN c.nodes : c.nodes[j].id = c.nodes[k].id => j = k
    /\ \E k \in DOMAIN c.nodes : /\ c.nodes[k].id = c.trip_node
                                 /\ c.nodes[k].matcher.kind = "profinet"
    /\ \A e \in EdgesOf(c) : /\ {e.from, e.to} \subseteq Ids(c)
                             /\ e.wcet \in 1 .. MaxSaneWcet
    /\ \A S \in (SUBSET Node) \ {{}} :
          \E n \in S : \A e \in EdgesOf(c) : e.from = n => e.to \notin S

\* "Validation is fail-CLOSED": a manifest is built exactly if it is valid, for
\* every order of start nodes; an invalid one ends in an error.
BuildIffValid ==
    /\ Built => Valid(cfg)
    /\ outcome \in Errors => ~Valid(cfg)

\* Loading ends in a verdict.
LoadingEnds == <>(outcome = "linted" \/ outcome \in Errors)

\* A manifest that lint does not call unreachable can attribute its trips to
\* something else than the trip node: the indegree test alone would be fooled
\* by a self loop, which build must have rejected.
LintSeesDeadTrip ==
    outcome = "linted"
        => ([kind |-> "TripNodeUnreachable", node |-> cfg.trip_node] \notin warnings
              <=> \E e \in EdgesOf(cfg) : /\ e.to = cfg.trip_node
                                          /\ e.from # cfg.trip_node)
=============================================================================
