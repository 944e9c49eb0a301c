------------------------------- MODULE Search -------------------------------
(***************************************************************************)
(* Registry.Search of internal/registry/registry.go: go through the tools  *)
(* in the order in which the map of servers happens to be iterated, score  *)
(* them, sort what was found with the insertion sort of sortSearchResults, *)
(* and cut it off at the limit handleSearch gives.  The registry is        *)
(* read-locked from the first step to the last.                            *)
(*                                                                         *)
(* Servers and tool names are numbers in the order of their strings.  A    *)
(* tool is a place in a server's list: nothing keeps a server from         *)
(* offering one name twice.  The query is what comparing it with the names *)
(* and descriptions yields.                                                *)
(***************************************************************************)
EXTENDS Naturals, Sequences

CONSTANTS
    Servers,    \* registered servers
    Names,      \* tool names
    Lists,      \* lists of tools a server may offer
    Limit       \* at most so many results; 0 is no limit

ASSUME OrderedNames == Servers \subseteq Nat /\ Names \subseteq Nat
ASSUME ListsAreLists == Lists \subseteq Seq(Names)
ASSUME LimitIsNat == Limit \in Nat

VARIABLES
    offered,    \* r.tools
    query,      \* browse: empty or "*"; name, server, text: where it occurs
    todo,       \* servers the loop has not come to
    at,         \* the tool it looks at, <<0, 0>> between two servers
    results,    \* what was found
    i, j,       \* indices of the sort
    pc

vars == <<offered, query, todo, at, results, i, j, pc>>

Between == <<0, 0>>

Queries == [browse : BOOLEAN,
            name : [Names -> {"equal", "prefix", "within", "no"}],
            server : [Servers -> BOOLEAN],
            text : [Names -> BOOLEAN]]

Tools == UNION {{s} \X DOMAIN offered[s] : s \in Servers}

NameOf(t) == offered[t[1]][t[2]]

\* The tiers: the first that applies.  A description goes with its name.
NameTier == [equal |-> 100, prefix |-> 90, within |-> 80, no |-> 0]

Score(t) ==
    IF query.browse THEN 50
    ELSE IF query.name[NameOf(t)] # "no" THEN NameTier[query.name[NameOf(t)]]
    ELSE IF query.server[t[1]] THEN 70
    ELSE IF query.text[NameOf(t)] THEN 50
    ELSE 0

Matching == {t \in Tools : Score(t) > 0}

Init ==
    /\ offered \in [Servers -> Lists]
    /\ query \in Queries
    /\ todo = Servers /\ at = Between
    /\ results = <<>>
    /\ i = 2 /\ j = 2
    /\ pc = "gather"

-----------------------------------------------------------------------------
(* The two loops that gather.                                              *)

NextServer(s) ==
    /\ pc = "gather" /\ at = Between /\ s \in todo
    /\ todo' = todo \ {s}
    /\ at' = <<s, 1>>
    /\ UNCHANGED <<offered, query, results, i, j, pc>>

\* Mutant: a tool is found by its name, and only once.
LookOnce ==
    /\ pc = "gather" /\ at \in Tools
    /\ results' = IF Score(at) > 0 /\ \A k \in DOMAIN results : NameOf(results[k]) # NameOf(at)
                     THEN Append(results, at) ELSE results
    /\ at' = <<at[1], at[2] + 1>>
    /\ UNCHANGED <<offered, query, todo, i, j, pc>>

Look ==
    /\ pc = "gather" /\ at \in Tools
    /\ results' = IF Score(at) > 0 THEN Append(results, at) ELSE results
    /\ at' = <<at[1], at[2] + 1>>
    /\ UNCHANGED <<offered, query, todo, i, j, pc>>

ServerDone ==
    /\ pc = "gather" /\ at # Between /\ at \notin Tools
    /\ at' = Between
    /\ UNCHANGED <<offered, query, todo, results, i, j, pc>>

GatherDone ==
    /\ pc = "gather" /\ at = Between /\ todo = {}
    /\ pc' = "sort"
    /\ UNCHANGED <<offered, query, todo, at, results, i, j>>

-----------------------------------------------------------------------------
(* The sort: results[1 .. i-1] is in order, results[j] moves to its place. *)

\* Mutant: the tools of a server are left in the order it lists them.
LessByServer(b, a) == Score(b) > Score(a) \/ (Score(b) = Score(a) /\ b[1] < a[1])

\* b has to come before a.
Less(b, a) ==
    \/ Score(b) > Score(a)
    \/ /\ Score(b) = Score(a)
       /\ b[1] < a[1] \/ (b[1] = a[1] /\ NameOf(b) < NameOf(a))

Swap ==
    /\ pc = "sort" /\ i <= Len(results) /\ j > 1
    /\ Less(results[j], results[j - 1])
    /\ results' = [results EXCEPT ![j - 1] = results[j], ![j] = results[j - 1]]
    /\ j' = j - 1
    /\ UNCHANGED <<offered, query, todo, at, i, pc>>

InPlace ==
    /\ pc = "sort" /\ i <= Len(results)
    /\ j > 1 => ~Less(results[j], results[j - 1])
    /\ i' = i + 1 /\ j' = i + 1
    /\ UNCHANGED <<offered, query, todo, at, results, pc>>

\* The end of the sort, and results[:limit].
Cut ==
    /\ pc = "sort" /\ i > Len(results)
    /\ results' = IF Limit > 0 /\ Len(results) > Limit THEN SubSeq(results, 1, Limit) ELSE results
    /\ pc' = "done"
    /\ UNCHANGED <<offered, query, todo, at, i, j>>

Next ==
    \/ \E s \in Servers : NextServer(s)
    \/ Look \/ ServerDone \/ GatherDone
    \/ Swap \/ InPlace \/ Cut

Spec == Init /\ [][Next]_vars

-----------------------------------------------------------------------------
\* The order of the answer.  It is total: of two tools with one name the
\* server's own order decides.
Before(t, u) ==
    \/ Score(t) > Score(u)
    \/ /\ Score(t) = Score(u)
       /\ \/ t[1] < u[1]
          \/ t[1] = u[1] /\ NameOf(t) < NameOf(u)
          \/ t[1] = u[1] /\ NameOf(t) = NameOf(u) /\ t[2] < u[2]

\* "sorted by relevance; at most limit results are returned", and "for
\* deterministic ordering": the answer is the best of what matches, best
\* first, nothing twice and nothing better left out.  Only one sequence is
\* that, so the order in which the map is iterated has no influence.
BestFirst ==
    pc = "done" =>
       /\ \A k, l \in DOMAIN results : k < l => Before(results[k], results[l])
       /\ \A k \in DOMAIN results : results[k] \in Matching
       /\ \A t \in Matching :
             \/ \E k \in DOMAIN results : results[k] = t
             \/ /\ Limit > 0 /\ Len(results) = Limit
                /\ \A k \in DOMAIN results : Before(results[k], t)

=============================================================================
