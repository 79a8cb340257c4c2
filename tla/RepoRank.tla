------------------------------ MODULE RepoRank ------------------------------
(***************************************************************************)
(* What repomap.Builder computes from the analyses of the files: the       *)
(* dependency graph, the importance of each file, and the entries that fit *)
(* a token budget.  Files are numbered in the order of their paths; scores *)
(* are in thousandths, rounded down where the code has floats.             *)
(***************************************************************************)
EXTENDS Integers, Sequences, SequencesExt

CONSTANTS
    Files,      \* 1..n, in the order of their paths
    Contents,   \* what the analysis tells apart
    Imports,    \* file -> content -> the dependencies its source names
    TaskScore,  \* file -> content -> score of the task's terms in path and symbols
    Mentioned,  \* files a semantic result names
    Cost,       \* file -> estimated tokens of its entry
    TokenBudget,
    MaxEntries, \* 60
    Log1p       \* 1000 ln(1 + degree)

ASSUME FileAssumption == Files \subseteq Nat /\ IsFiniteSet(Files)
ASSUME CostAssumption ==
    /\ Cost \in [Files -> Nat \ {0}]
    /\ TokenBudget \in Nat /\ MaxEntries \in Nat
    /\ TaskScore \in [Files -> [Contents -> Nat]]
    /\ \A f \in Files, c \in Contents :
         \A raw \in Imports[f][c] : raw.first \in BOOLEAN /\ raw.paths \in Seq(Files)

\* The logarithms are at least 1000 ln 2.
ASSUME LogAssumption ==
    /\ Log1p \in [1..Cardinality(Files) -> Nat]
    /\ \A d \in DOMAIN Log1p : Log1p[d] >= 693

\* A dependency names candidate paths: the first that exists is meant (JS and
\* Python), or all of them, the files of a directory (Go).
Resolve(raw, nodes) ==
    LET found == {i \in DOMAIN raw.paths : raw.paths[i] \in DOMAIN nodes} IN
    IF raw.first
    THEN IF found = {} THEN {} ELSE {raw.paths[Min(found)]}
    ELSE {raw.paths[i] : i \in found}

Targets(f, nodes) ==
    UNION {Resolve(raw, nodes) : raw \in Imports[f][nodes[f]]} \ {f}

\* Both ends of every dependency, whatever order the nodes are visited in.
Near(nodes) ==
    LET targets == [f \in DOMAIN nodes |-> Targets(f, nodes)] IN
    [f \in DOMAIN nodes |->
        targets[f] \cup {g \in DOMAIN nodes : f \in targets[g]}]

Seed(f, nodes, changed, semantic) ==
    50 + (IF f \in changed THEN 12000 ELSE 0)
       + (IF semantic /\ f \in Mentioned THEN 8000 ELSE 0)
       + TaskScore[f][nodes[f]]

Iterations == 7

\* Mutant: importance stays where the task and the changes put it.
RankSeeds(nodes, changed, semantic) ==
    [f \in Files |-> IF f \in DOMAIN nodes
                     THEN (60 * Seed(f, nodes, changed, semantic)) \div 100 ELSE 0]

\* What a file has by itself: its seed, and the logarithm of its degree.
Own(seed, degree) ==
    (60 * seed) \div 100 + (IF degree = 0 THEN 0 ELSE (8 * Log1p[degree]) \div 100)

\* What a file gives to each of its neighbours in the next iteration.
Share(score, degree) == IF degree = 0 THEN 0 ELSE (32 * score) \div (100 * degree)

\* One iteration: what a file has by itself, and what its neighbours give it.
Iterate(last, seed, near) ==
    LET share == [g \in DOMAIN near |-> Share(last[g], Cardinality(near[g]))] IN
    [f \in DOMAIN near |->
        Own(seed[f], Cardinality(near[f])) + SumFunctionOnSet(share, near[f])]

Rank(nodes, changed, semantic) ==
    LET near == Near(nodes)
        seed == [f \in DOMAIN nodes |-> Seed(f, nodes, changed, semantic)]
        scores[i \in 0..Iterations] ==
            IF i = 0 THEN seed ELSE Iterate(scores[i - 1], seed, near)
    IN  [f \in Files |-> IF f \in DOMAIN nodes THEN scores[Iterations][f] ELSE 0]

\* By falling score, then path.
Before(score, f, g) == score[f] > score[g] \/ (score[f] = score[g] /\ f < g)

Ahead(f, nodes, score) == {g \in DOMAIN nodes : Before(score, g, f)}

Order(nodes, score) ==
    [k \in 1..Cardinality(DOMAIN nodes) |->
        CHOOSE f \in DOMAIN nodes :
            Cardinality(Ahead(f, nodes, score)) = k - 1]

\* An entry that does not fit is passed over.
Take(map, f) ==
    IF Len(map.entries) = MaxEntries \/ map.used + Cost[f] > TokenBudget
    THEN map
    ELSE [map EXCEPT !.entries = Append(@, f), !.used = @ + Cost[f]]

Select(nodes, score) ==
    LET n == Cardinality(DOMAIN nodes)
        order == Order(nodes, score)
        taken[k \in 0..n] ==
            IF k = 0 THEN [score |-> score, entries |-> <<>>, used |-> 0]
            ELSE Take(taken[k - 1], order[k])
    IN  taken[n]
=============================================================================
