----------------------------- MODULE ToolRouting -----------------------------
(***************************************************************************)
(* How the tools of a model decision are selected.  Each sandbox registers *)
(* the tools of its role, and brings the one vector index of the process   *)
(* in line with them.  A selection takes the eligible tools by the facts   *)
(* of the runtime, reserves the ones that are always offered and one front *)
(* door for each family, ranks the others by semantic retrieval for the    *)
(* query and the hints (reciprocal ranks, with weights) and fills what is  *)
(* left of the limit.                                                      *)
(*                                                                         *)
(* Tools are numbered in the order of their names.  The similarity of a    *)
(* query to the tools is one of Orders, and so is a reranker's opinion.    *)
(* Spec describes each tool; Registries are the tool lists of the roles,   *)
(* in the order of registration; Facts are the resources a Run may have.   *)
(* The embedding service fails where Failing is TRUE.                      *)
(***************************************************************************)
EXTENDS Integers, Sequences, FiniteSetsExt, SequencesExt

CONSTANTS
    Executions, Tools, Routing, Registries, Facts, Orders,
    Limit,         \* top_k of the selection
    FetchLimit,    \* candidates taken from one retrieval
    K,             \* the constant of the reciprocal ranks
    MaxHints, Retriever, Reranker, Failing,
    None

RoutingAssumption ==
    /\ Tools \subseteq Nat /\ Limit \in Nat /\ FetchLimit \in Nat \ {0} /\ K \in Nat
    /\ MaxHints \in Nat /\ {Retriever, Reranker, Failing} \subseteq BOOLEAN

VARIABLES
    index,  \* the vector index: [model, docs], docs giving the definition of each indexed tool
    ex      \* each Execution: [pc, reg, facts, queries, searched, raw, tools, cause]

vars == <<index, ex>>

-----------------------------------------------------------------------------
(* Eligibility: requirements are read in order, and the resources that are *)
(* compatible so far are narrowed by each.                                 *)

Narrowed(t, facts) ==
    LET ofScope == {r \in facts : r.scope = Routing[t].scope}
        directed == IF Routing[t].directions = {} THEN ofScope
                    ELSE {r \in ofScope : r.direction \in Routing[t].directions}
        typed == IF Routing[t].extensions = {} THEN directed
                 ELSE {r \in directed : r.extension \in Routing[t].extensions}
    IN /\ Routing[t].directions # {} => directed # {}
       /\ Routing[t].extensions # {} => typed # {}

Evaluate(t, facts) == Routing[t].exposure # "internal" /\ Narrowed(t, facts)

Eligible(e) == SelectSeq(ex[e].reg, LAMBDA t : Evaluate(t, ex[e].facts))

-----------------------------------------------------------------------------
(* The reserved tools.                                                     *)

Always(seq) == SelectSeq(seq, LAMBDA t : Routing[t].exposure = "always")
Doors(seq) == SelectSeq(seq, LAMBDA t : Routing[t].exposure = "front_door")

\* The higher priority first, then the name.
Before(a, b) ==
    \/ Routing[a].priority > Routing[b].priority
    \/ Routing[a].priority = Routing[b].priority /\ a < b

\* One tool for each family: met one by one, a tool takes the place of the one before it.
Families(seq) ==
    FoldLeft(LAMBDA kept, t :
                 LET rivals == {d \in kept : Routing[d].family = Routing[t].family}
                 IN IF \A d \in rivals : Before(t, d) THEN (kept \ rivals) \cup {t} ELSE kept,
             {}, Doors(seq))

FrontDoors(seq) ==
    SetToSortSeq(Families(seq), LAMBDA a, b :
        \/ Routing[a].priority > Routing[b].priority
        \/ Routing[a].priority = Routing[b].priority /\ Routing[a].family < Routing[b].family)

Reserved(seq) == Always(seq) \o FrontDoors(seq)
Allowed(seq) == {t \in Range(seq) : Routing[t].exposure \in {"semantic", "front_door"}}

-----------------------------------------------------------------------------
(* The index.                                                              *)

Init ==
    /\ index \in [model : {None, "current", "former"}, docs : {<<>>} \cup [Tools -> {"old"}]]
    /\ (index.model = None) = (index.docs = <<>>)
    /\ ex \in [Executions -> [pc : {"none"}, reg : Registries, facts : SUBSET Facts, queries : {<<>>},
                              searched : {0}, raw : {<<>>}, tools : {<<>>}, cause : {None}]]

\* Every tool of the process has the definition "new".
Indexed(docs, names) == [t \in (DOMAIN docs) \cup names |-> IF t \in names THEN "new" ELSE docs[t]]

Upsert(docs, names) == {t \in names : t \notin DOMAIN docs \/ docs[t] # "new"}

\* Another model purges the index; otherwise the tools that this registry has not are deleted and its
\* new and changed ones embedded.  When the embedding fails, what came before it stays done.
Sync(names, ok) ==
    IF index.model = "former"
    THEN IF ok THEN [model |-> "current", docs |-> Indexed(<<>>, names)] ELSE [model |-> None, docs |-> <<>>]
    ELSE LET kept == Restrict(index.docs, (DOMAIN index.docs) \cap names)
             upsert == Upsert(kept, names)
         IN IF ok /\ upsert # {} THEN [model |-> "current", docs |-> Indexed(kept, upsert)]
            ELSE [index EXCEPT !.docs = kept]

CreateSandbox(e) ==
    /\ ex[e].pc = "none"
    /\ IF ~Retriever THEN UNCHANGED index
       ELSE \E ok \in {TRUE, ~Failing} : index' = Sync(Range(ex[e].reg), ok)
    /\ ex' = [ex EXCEPT ![e].pc = "sandbox"]

-----------------------------------------------------------------------------
(* A selection.                                                            *)

Goes(e, r) == ex' = [ex EXCEPT ![e] = r @@ ex[e]]
Ranked(names, weight) == [r \in 1..Len(names) |-> [tool |-> names[r], rank |-> r, weight |-> weight]]

\* Without a retriever the allowed tools are ranked by name.
Begin(e) ==
    /\ ex[e].pc = "sandbox"
    /\ IF Retriever
       THEN \E n \in 0..MaxHints : \E queries \in [1..(1 + n) -> Orders] :
                Goes(e, [pc |-> "search", queries |-> queries])
       ELSE Goes(e, [pc |-> "merge", raw |-> Ranked(SetToSortSeq(Allowed(Eligible(e)), <), 5)])
    /\ UNCHANGED index

\* What the index holds of the allowed tools, the nearest first.
Hits(e, order) == SelectSeq(order, LAMBDA t : t \in DOMAIN index.docs /\ t \in Allowed(Eligible(e)))

Top(seq, n) == SubSeq(seq, 1, IF Len(seq) < n THEN Len(seq) ELSE n)

\* A reranker sorts twice as many; where it fails, or cannot tell them apart, the order stays.
Found(e, order, opinion) ==
    LET hits == Top(Hits(e, order), IF Reranker THEN 2 * FetchLimit ELSE FetchLimit)
    IN IF Len(hits) > FetchLimit /\ opinion # None
       THEN Top(SelectSeq(opinion, LAMBDA t : t \in Range(hits)), FetchLimit)
       ELSE Top(hits, FetchLimit)

\* The query has the weight 1, a hint 0.6: fifths.
Weight(e) == IF ex[e].searched = 0 THEN 5 ELSE 3

\* The next query is embedded and searched.
Retrieve(e) ==
    /\ ex[e].pc = "search"
    /\ \E opinion \in {None} \cup (IF Reranker THEN Orders ELSE {}) :
        Goes(e, [pc |-> IF Len(ex[e].queries) = ex[e].searched + 1 THEN "merge" ELSE "search",
                 searched |-> ex[e].searched + 1,
                 raw |-> ex[e].raw \o Ranked(Found(e, ex[e].queries[ex[e].searched + 1], opinion), Weight(e))])
    /\ UNCHANGED index

\* The embedding of a query fails: select_tools logs it and returns no tools.
RetrieveFails(e) ==
    /\ Failing /\ ex[e].pc = "search"
    /\ Goes(e, [pc |-> "offered", cause |-> "retrieval"])
    /\ UNCHANGED index

\* The sum of weight / (K + rank) over the retrievals that found it, on a common denominator.
Scale == FoldSet(LAMBDA r, p : (K + r) * p, 1,
                 1..Cardinality({t \in Tools : Routing[t].exposure \in {"semantic", "front_door"}}))

Score(raw, t) == FoldLeft(LAMBDA sum, c : IF c.tool = t THEN sum + c.weight * (Scale \div (K + c.rank)) ELSE sum, 0, raw)

Fused(raw) ==
    SetToSortSeq({c.tool : c \in Range(raw)}, LAMBDA a, b :
        Score(raw, a) > Score(raw, b) \/ (Score(raw, a) = Score(raw, b) /\ a < b))

Room(reserved) == Limit - Len(reserved)

\* More reserved tools than the limit are a configuration error.
Merge(e) ==
    LET reserved == Reserved(Eligible(e))
        others == SelectSeq(Fused(ex[e].raw), LAMBDA t : t \notin Range(reserved))
    IN /\ ex[e].pc = "merge"
       /\ IF Len(reserved) > Limit
          THEN Goes(e, [pc |-> "refused", cause |-> "configuration"])
          ELSE Goes(e, [pc |-> "offered", tools |-> reserved \o Top(others, Room(reserved))])
       /\ UNCHANGED index

-----------------------------------------------------------------------------
Next ==
    \E e \in Executions :
        \/ CreateSandbox(e) \/ Begin(e) \/ Retrieve(e) \/ RetrieveFails(e) \/ Merge(e)

Spec == Init /\ [][Next]_vars

-----------------------------------------------------------------------------
Chosen(e) == Range(ex[e].tools)
Merged(e) == ex[e].pc = "offered" /\ ex[e].cause = None

\* The index and the selections have the shape the code gives them; a selection searches its query
\* and its hints, no more.
TypeOK ==
    /\ index.model \in {None, "current", "former"} /\ DOMAIN index.docs \subseteq Tools
    /\ \A t \in DOMAIN index.docs : index.docs[t] \in {"old", "new"}
    /\ \A e \in Executions :
        /\ ex[e].pc \in {"none", "sandbox", "search", "merge", "offered", "refused"}
        /\ Chosen(e) \subseteq Tools /\ ex[e].searched \in 0..(1 + MaxHints)

\* A tool that reads files is offered when one resource of the Run meets all of its requirements:
\* its scope, one of its directions and one of its extensions.
OfferedCanRun ==
    \A e \in Executions : \A t \in Chosen(e) :
        LET fits == {r \in ex[e].facts : /\ r.scope = Routing[t].scope
                                         /\ Routing[t].directions # {} => r.direction \in Routing[t].directions
                                         /\ Routing[t].extensions # {} => r.extension \in Routing[t].extensions}
        IN (Routing[t].directions # {} \/ Routing[t].extensions # {}) => fits # {}

\* Nothing but the tools of the Execution's own registry is offered, each of them once, whatever
\* other Executions put into the index: a subagent never sees a tool that writes.
OfferedIsOwn ==
    \A e \in Executions : Chosen(e) \subseteq Range(ex[e].reg) /\ Len(ex[e].tools) = Cardinality(Chosen(e))

\* Each family that has an eligible front door has exactly one reserved, the one with the highest
\* priority and then the first name, in whatever order the tools were registered.
BestFrontDoor ==
    \A e \in Executions : Merged(e) =>
        \A t \in Range(Doors(Eligible(e))) :
            (\A d \in Range(Doors(Eligible(e))) : Routing[d].family = Routing[t].family => d = t \/ Before(t, d))
                <=> t \in Range(FrontDoors(Eligible(e)))

\* "Tool Retrieval selects a limited number of relevant tools", also without semantic retrieval: the
\* limit holds with the reserved tools in it, and none of these is left out.
WithinLimit ==
    \A e \in Executions : Merged(e) =>
        /\ Len(ex[e].tools) <= Limit
        /\ Range(Reserved(Eligible(e))) \subseteq Chosen(e)

\* What is left of the limit goes to the best ranked: a tool that every retrieval ranked above another
\* one is not left out for it.
BetterIsKept ==
    \A e \in Executions : Merged(e) =>
        \A a, b \in {c.tool : c \in Range(ex[e].raw)} :
            LET ranks(t, w) == {c.rank : c \in {c \in Range(ex[e].raw) : c.tool = t /\ c.weight = w}}
            IN (a # b /\ \A w \in {5, 3} : \A y \in ranks(b, w) : \E x \in ranks(a, w) : x < y)
                  => (b \in Chosen(e) => a \in Chosen(e) \/ b \in Range(Reserved(Eligible(e))))

\* An embedding in the index is of the tool's present definition once a sandbox that has the tool
\* brought it in line, whatever sandboxes of other roles did since.
IndexIsCurrent ==
    \A e \in Executions : ex[e].pc # "none" /\ Retriever /\ ~Failing =>
        \A t \in Range(ex[e].reg) \cap DOMAIN index.docs : index.docs[t] = "new"

\* What a route offers can run, is the agent's own, and is the best there is.
Safety ==
    /\ TypeOK
    /\ OfferedCanRun
    /\ OfferedIsOwn
    /\ BestFrontDoor
    /\ WithinLimit
    /\ BetterIsKept
    /\ IndexIsCurrent

=============================================================================
