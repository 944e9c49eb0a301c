---------------------------- MODULE SearchProofs ----------------------------
(***************************************************************************)
(* BestFirst for every set of servers, every list of tools and every       *)
(* limit.  The order of the answer is total although the comparison of     *)
(* the sort is not: the sort is stable, and the tools of one server are    *)
(* found in the order of its list.                                         *)
(***************************************************************************)
EXTENDS Search, TLAPS

SameKey(t, u) == t[1] = u[1] /\ NameOf(t) = NameOf(u)

\* The loops have come past a tool.
Seen(t) == t[1] \notin todo /\ (at # Between /\ t[1] = at[1] => t[2] < at[2])

TypeInv ==
    /\ offered \in [Servers -> Seq(Names)] /\ query \in Queries
    /\ todo \subseteq Servers
    /\ at = Between \/ (at \in Servers \X (Nat \ {0}) /\ at[1] \notin todo)
    /\ results \in Seq(Tools)
    /\ i \in Nat /\ j \in 1 .. i
    /\ pc \in {"gather", "sort", "done"}

GatherInv ==
    pc = "gather" =>
       /\ i = 2 /\ j = 2
       /\ \A k \in DOMAIN results : results[k] \in Matching /\ Seen(results[k])
       /\ \A t \in Matching : Seen(t) => \E k \in DOMAIN results : results[k] = t
       /\ \A k, l \in DOMAIN results :
             k < l /\ results[k][1] = results[l][1] => results[k][2] < results[l][2]

Content ==
    /\ \A k \in DOMAIN results : results[k] \in Matching
    /\ \A t \in Matching : \E k \in DOMAIN results : results[k] = t

Stable ==
    \A k, l \in DOMAIN results :
       k < l /\ SameKey(results[k], results[l]) => results[k][2] < results[l][2]

\* What moves left, results[j], is all that may be out of order up to i.
Sorted ==
    \A k, l \in DOMAIN results :
       k < l /\ l <= i /\ l # j => Before(results[k], results[l])

\* While it sorts, everything that matches is there.
SortInv == pc = "sort" => Content /\ Stable /\ Sorted /\ (i > Len(results) => j = i)

Inv == TypeInv /\ GatherInv /\ SortInv /\ BestFirst

-----------------------------------------------------------------------------
(* The order.                                                              *)

LEMMA ToolType ==
    ASSUME TypeInv, NEW t \in Tools
    PROVE  /\ t[1] \in Servers /\ t[2] \in DOMAIN offered[t[1]] /\ t = <<t[1], t[2]>>
           /\ t[1] \in Nat /\ t[2] \in Nat /\ t[2] # 0
           /\ NameOf(t) \in Nat /\ Score(t) \in Nat
<1>1. t[1] \in Servers /\ t[2] \in DOMAIN offered[t[1]] /\ t = <<t[1], t[2]>>
    BY DEF Tools
<1>2. offered[t[1]] \in Seq(Names)
    BY <1>1 DEF TypeInv
<1>3. NameOf(t) \in Names
    BY <1>1, <1>2 DEF NameOf
<1>4. t[1] \in Nat /\ t[2] \in Nat /\ t[2] # 0 /\ NameOf(t) \in Nat
    BY <1>1, <1>2, <1>3, OrderedNames
<1>5. Score(t) \in Nat
    <2>1. query.name[NameOf(t)] \in {"equal", "prefix", "within", "no"}
        BY <1>3 DEF TypeInv, Queries
    <2>2. NameTier[query.name[NameOf(t)]] \in Nat
        BY <2>1 DEF NameTier
    <2> QED
        BY <2>2 DEF Score
<1> QED
    BY <1>1, <1>4, <1>5

\* Of two tools with different keys one comes before the other.
LEMMA LessTotal ==
    ASSUME TypeInv, NEW t \in Tools, NEW u \in Tools
    PROVE  /\ Less(t, u) => Before(t, u) /\ ~SameKey(t, u)
           /\ ~Less(t, u) => Before(u, t) \/ SameKey(t, u)
           /\ SameKey(t, u) => Score(t) = Score(u)
<1>0. /\ t[1] \in Nat /\ NameOf(t) \in Nat /\ Score(t) \in Nat
      /\ u[1] \in Nat /\ NameOf(u) \in Nat /\ Score(u) \in Nat
    BY ToolType
<1>1. SameKey(t, u) => Score(t) = Score(u)
    BY DEF SameKey, Score
<1> QED
    BY <1>0, <1>1 DEF Less, Before, SameKey

LEMMA BeforeTransitive ==
    ASSUME TypeInv, NEW t \in Tools, NEW u \in Tools, NEW v \in Tools,
           Before(t, u), Before(u, v)
    PROVE  Before(t, v)
<1>0. /\ t[1] \in Nat /\ t[2] \in Nat /\ NameOf(t) \in Nat /\ Score(t) \in Nat
      /\ u[1] \in Nat /\ u[2] \in Nat /\ NameOf(u) \in Nat /\ Score(u) \in Nat
      /\ v[1] \in Nat /\ v[2] \in Nat /\ NameOf(v) \in Nat /\ Score(v) \in Nat
    BY ToolType
<1> QED
    BY <1>0 DEF Before

LEMMA MatchingTools == Matching \subseteq Tools
BY DEF Matching

\* No step changes what is offered or asked.
LEMMA Rigid ==
    ASSUME [Next]_vars
    PROVE  /\ offered' = offered /\ query' = query
           /\ Tools' = Tools /\ Matching' = Matching
           /\ \A t, u : Before(t, u)' = Before(t, u) /\ SameKey(t, u)' = SameKey(t, u)
<1>1. offered' = offered /\ query' = query
    BY DEF Next, NextServer, Look, ServerDone, GatherDone, Swap, InPlace, Cut, vars
<1>2. Tools' = Tools
    BY <1>1 DEF Tools
<1>3. \A t : NameOf(t)' = NameOf(t) /\ Score(t)' = Score(t)
    BY <1>1 DEF NameOf, Score
<1> QED
    BY <1>1, <1>2, <1>3 DEF Matching, Before, SameKey

-----------------------------------------------------------------------------
(* The steps.                                                              *)

LEMMA InitInv == Init => Inv
<1> SUFFICES ASSUME Init PROVE Inv
    OBVIOUS
<1>1. TypeInv
    <2>1. offered \in [Servers -> Seq(Names)]
        BY ListsAreLists DEF Init
    <2> QED
        BY <2>1 DEF Init, TypeInv
<1>2. GatherInv
    <2>1. \A t \in Matching : ~Seen(t)
        BY DEF Init, Seen, Matching, Tools
    <2> QED
        BY <2>1 DEF Init, GatherInv
<1> QED
    BY <1>1, <1>2 DEF Init, Inv, SortInv, BestFirst

LEMMA TypeStep == TypeInv /\ [Next]_vars => TypeInv'
<1> SUFFICES ASSUME TypeInv, [Next]_vars PROVE TypeInv'
    OBVIOUS
<1>0. offered' = offered /\ query' = query /\ Tools' = Tools
    BY Rigid
<1>1. CASE \E s \in Servers : NextServer(s)
    BY <1>0, <1>1 DEF NextServer, TypeInv
<1>2. CASE Look
    <2>1. at[1] \in Servers /\ at[2] \in Nat \ {0} /\ at[1] \notin todo
        BY <1>2, ToolType DEF Look, TypeInv, Between
    <2>2. results' \in Seq(Tools)
        BY <1>2 DEF Look, TypeInv
    <2> QED
        BY <1>0, <1>2, <2>1, <2>2 DEF Look, TypeInv
<1>3. CASE ServerDone
    BY <1>0, <1>3 DEF ServerDone, TypeInv
<1>4. CASE GatherDone
    BY <1>0, <1>4 DEF GatherDone, TypeInv
<1>5. CASE Swap
    <2>1. j \in DOMAIN results /\ j - 1 \in DOMAIN results
        BY <1>5 DEF Swap, TypeInv
    <2>2. results' \in Seq(Tools)
        BY <1>5, <2>1 DEF Swap, TypeInv
    <2> QED
        BY <1>0, <1>5, <2>2 DEF Swap, TypeInv
<1>6. CASE InPlace
    BY <1>0, <1>6 DEF InPlace, TypeInv
<1>7. CASE Cut
    <2>1. results' \in Seq(Tools)
        BY <1>7, LimitIsNat DEF Cut, TypeInv
    <2> QED
        BY <1>0, <1>7, <2>1 DEF Cut, TypeInv
<1>8. CASE UNCHANGED vars
    BY <1>0, <1>8 DEF vars, TypeInv
<1> QED
    BY <1>1, <1>2, <1>3, <1>4, <1>5, <1>6, <1>7, <1>8 DEF Next

\* While they gather, the loops have found what they have seen, in the order
\* of the lists.
LEMMA GatherStep == TypeInv /\ GatherInv /\ [Next]_vars => GatherInv'
<1> SUFFICES ASSUME TypeInv, GatherInv, [Next]_vars, pc' = "gather" PROVE GatherInv'
    BY DEF GatherInv
<1>0. Tools' = Tools /\ Matching' = Matching
    BY Rigid
<1>1. CASE \E s \in Servers : NextServer(s)
    <2> PICK s \in Servers : NextServer(s)
        BY <1>1
    <2>1. \A t \in Tools : Seen(t)' <=> Seen(t)
        BY ToolType DEF NextServer, Seen, Between
    <2> QED
        BY <1>0, <2>1, MatchingTools DEF NextServer, GatherInv
<1>2. CASE Look
    <2>1. at \in Tools /\ at # Between /\ at' # Between /\ at'[1] = at[1] /\ at'[2] = at[2] + 1
          /\ at[1] \notin todo
        BY <1>2, ToolType DEF Look, TypeInv, Between
    <2>2. ASSUME NEW t \in Tools PROVE Seen(t)' <=> Seen(t) \/ t = at
        <3>1. t = <<t[1], t[2]>> /\ at = <<at[1], at[2]>> /\ t[2] \in Nat /\ at[2] \in Nat
            BY <2>1, ToolType
        <3>2. t[1] = at[1] => (t[2] < at[2] + 1 <=> t[2] < at[2] \/ t = at)
            BY <3>1
        <3>3. Seen(t)' <=> t[1] \notin todo /\ (t[1] = at[1] => t[2] < at[2] + 1)
            BY <1>2, <2>1 DEF Look, Seen
        <3>4. Seen(t) <=> t[1] \notin todo /\ (t[1] = at[1] => t[2] < at[2])
            BY <2>1 DEF Seen
        <3> QED
            BY <2>1, <3>2, <3>3, <3>4
    <2>3. CASE Score(at) > 0
        <3>1. results' = Append(results, at) /\ at \in Matching
            BY <1>2, <2>1, <2>3 DEF Look, Matching
        <3>2. /\ DOMAIN results' = 1 .. Len(results) + 1 /\ DOMAIN results = 1 .. Len(results)
              /\ \A k \in DOMAIN results : results'[k] = results[k]
              /\ results'[Len(results) + 1] = at /\ Len(results) \in Nat
            BY <2>1, <3>1 DEF TypeInv
        <3>3. ASSUME NEW k \in DOMAIN results'
              PROVE  results'[k] \in Matching' /\ Seen(results[k])'
            <4>1. results'[k] = IF k \in DOMAIN results THEN results[k] ELSE at
                BY <3>2
            <4>2. results'[k] \in Matching /\ (Seen(results'[k]) \/ results'[k] = at)
                BY <1>2, <3>1, <4>1 DEF Look, GatherInv
            <4> DEFINE u == results'[k]
            <4>3. u \in Tools /\ (Seen(u) \/ u = at)
                BY <4>2, MatchingTools
            <4>4. u[1] \notin todo' /\ (at' # Between /\ u[1] = at'[1] => u[2] < at'[2])
                <5> HIDE DEF u
                <5> QED
                    BY <2>2, <4>3 DEF Seen
            <4> QED
                BY <1>0, <4>2, <4>4 DEF Seen
        <3>4. ASSUME NEW t \in Matching', Seen(t)'
              PROVE  \E k \in DOMAIN results' : results'[k] = t
            BY <1>0, <1>2, <2>2, <3>2, <3>4, MatchingTools DEF Look, GatherInv
        <3>5. ASSUME NEW k \in DOMAIN results', NEW l \in DOMAIN results', k < l,
                     results'[k][1] = results'[l][1]
              PROVE  results'[k][2] < results'[l][2]
            <4>1. CASE l \in DOMAIN results
                BY <1>2, <3>2, <3>5, <4>1 DEF Look, GatherInv
            <4>2. CASE l = Len(results) + 1
                <5>1. k \in DOMAIN results /\ Seen(results[k])
                    BY <1>2, <3>2, <3>5, <4>2 DEF Look, GatherInv
                <5> QED
                    BY <2>1, <3>2, <3>5, <4>2, <5>1 DEF Seen
            <4> QED
                BY <3>2, <3>5, <4>1, <4>2
        <3> QED
            BY <1>2, <3>3, <3>4, <3>5 DEF Look, GatherInv
    <2>4. CASE ~(Score(at) > 0)
        <3>1. results' = results /\ at \notin Matching
            BY <1>2, <2>4 DEF Look, Matching
        <3> QED
            BY <1>0, <1>2, <2>2, <3>1, MatchingTools DEF Look, GatherInv
    <2> QED
        BY <2>3, <2>4
<1>3. CASE ServerDone
    <2>1. at[1] \in Servers /\ at[2] \in Nat /\ at[1] \notin todo /\ at # Between
          /\ at = <<at[1], at[2]>> /\ at[2] # 0
        BY <1>3 DEF ServerDone, TypeInv
    <2>2. ASSUME NEW t \in Tools, t[1] = at[1] PROVE t[2] < at[2]
        <3>1. offered[at[1]] \in Seq(Names)
            BY <2>1 DEF TypeInv
        <3>2. at[2] \notin DOMAIN offered[at[1]]
            BY <1>3, <2>1 DEF ServerDone, Tools
        <3> QED
            BY <2>1, <2>2, <3>1, <3>2, ToolType
    <2>3. \A t \in Tools : Seen(t)' <=> Seen(t)
        BY <1>3, <2>1, <2>2 DEF ServerDone, Seen
    <2> QED
        BY <1>0, <1>3, <2>3, MatchingTools DEF ServerDone, GatherInv
<1>4. CASE UNCHANGED vars
    BY <1>0, <1>4 DEF vars, GatherInv, Seen
<1> QED
    BY <1>1, <1>2, <1>3, <1>4 DEF Next, GatherDone, Swap, InPlace, Cut

\* The sort leaves alone what was found, moves no tool past another with its
\* key, and has results[1 .. i] in order but for the tool that moves.
LEMMA SortStep == TypeInv /\ GatherInv /\ SortInv /\ [Next]_vars => SortInv'
<1> SUFFICES ASSUME TypeInv, GatherInv, SortInv, [Next]_vars, pc' = "sort"
             PROVE  Content' /\ Stable' /\ Sorted' /\ (i' > Len(results') => j' = i')
    BY DEF SortInv
<1>0. /\ Tools' = Tools /\ Matching' = Matching
      /\ \A t, u : Before(t, u)' = Before(t, u) /\ SameKey(t, u)' = SameKey(t, u)
    BY Rigid
<1> DEFINE n == Len(results)
<1>a. n \in Nat /\ DOMAIN results = 1 .. n /\ i \in Nat /\ j \in Nat /\ 1 <= j /\ j <= i
      /\ \A k \in 1 .. n : results[k] \in Tools
    BY DEF TypeInv
<1>b. /\ Stable' <=> \A k, l \in DOMAIN results' :
                        k < l /\ SameKey(results'[k], results'[l]) => results'[k][2] < results'[l][2]
      /\ Sorted' <=> \A k, l \in DOMAIN results' :
                        k < l /\ l <= i' /\ l # j' => Before(results'[k], results'[l])
    <2>1. offered' = offered /\ query' = query
        BY Rigid
    <2>2. \A t : NameOf(t)' = NameOf(t) /\ Score(t)' = Score(t)
        BY <2>1 DEF NameOf, Score
    <2> QED
        BY <2>1, <2>2 DEF Stable, Sorted, SameKey, Before, NameOf, Score
<1>1. CASE GatherDone
    <2>1. \A t \in Matching : Seen(t)
        BY <1>1, MatchingTools, ToolType DEF GatherDone, Seen
    <2>2. Content'
        BY <1>0, <1>1, <2>1 DEF GatherDone, GatherInv, Content
    <2>3. Stable'
        BY <1>1, <1>b DEF GatherDone, GatherInv, SameKey
    <2>4. Sorted'
        BY <1>1, <1>a, <1>b DEF GatherDone, GatherInv
    <2> QED
        BY <1>1, <2>2, <2>3, <2>4 DEF GatherDone, GatherInv
<1>2. CASE Swap
    <2> DEFINE x == results[j]
               y == results[j - 1]
    <2>0. /\ j \in 1 .. n /\ j - 1 \in 1 .. n /\ i \in 1 .. n /\ i' = i /\ j' = j - 1
          /\ x \in Tools /\ y \in Tools /\ DOMAIN results' = 1 .. n
          /\ Content /\ Stable /\ Sorted
        BY <1>2, <1>a DEF Swap, SortInv
    <2>1. \A k \in 1 .. n : results'[k] = IF k = j THEN y ELSE IF k = j - 1 THEN x ELSE results[k]
        BY <1>2, <1>a, <2>0 DEF Swap
    <2>2. Before(x, y) /\ ~SameKey(x, y)
        BY <1>2, <2>0, LessTotal DEF Swap
    <2> HIDE DEF x, y, n
    <2>3. x = results[j] /\ y = results[j - 1]
        BY DEF x, y
    <2>4. Content'
        <3>1. \A k \in 1 .. n : results'[k] \in Matching
            BY <1>a, <2>0, <2>1, <2>3 DEF Content
        <3>2. ASSUME NEW t \in Matching PROVE \E k \in 1 .. n : results'[k] = t
            <4>1. PICK k \in 1 .. n : results[k] = t
                BY <1>a, <2>0 DEF Content
            <4>2. results'[j] = y /\ results'[j - 1] = x /\ (k \notin {j, j - 1} => results'[k] = t)
                BY <1>a, <2>0, <2>1, <4>1
            <4> QED
                BY <2>0, <2>3, <4>1, <4>2
        <3> QED
            BY <1>0, <2>0, <3>1, <3>2 DEF Content
    <2>5. ASSUME NEW k \in 1 .. n, NEW l \in 1 .. n, k < l, SameKey(results'[k], results'[l])
          PROVE  results'[k][2] < results'[l][2]
        <3> DEFINE From(m) == IF m = j THEN j - 1 ELSE IF m = j - 1 THEN j ELSE m
        <3>1. \A m \in 1 .. n : From(m) \in 1 .. n /\ results'[m] = results[From(m)]
            BY <1>a, <2>0, <2>1, <2>3
        <3>2. ~(k = j - 1 /\ l = j)
            BY <1>a, <2>0, <2>1, <2>2, <2>5
        <3>3. From(k) < From(l)
            BY <1>a, <2>0, <2>5, <3>2
        <3> HIDE DEF From
        <3> QED
            BY <1>a, <2>0, <2>5, <3>1, <3>3 DEF Stable
    <2>6. ASSUME NEW k \in 1 .. n, NEW l \in 1 .. n, k < l, l <= i, l # j - 1
          PROVE  Before(results'[k], results'[l])
        <3>1. CASE l = j /\ k = j - 1
            BY <1>a, <2>0, <2>1, <2>2, <3>1
        <3>2. CASE l = j /\ k # j - 1
            <4>1. k < j - 1 /\ results'[k] = results[k] /\ results'[l] = results[j - 1]
                BY <1>a, <2>0, <2>1, <2>3, <2>6, <3>2
            <4> QED
                BY <1>a, <2>0, <4>1 DEF Sorted
        <3>3. CASE l # j
            <4>1. results'[l] = results[l]
                BY <2>1, <2>6, <3>3
            <4>2. PICK m \in 1 .. n : m < l /\ results'[k] = results[m]
                <5>1. CASE k = j
                    BY <1>a, <2>0, <2>1, <2>3, <2>6, <5>1
                <5>2. CASE k = j - 1
                    BY <1>a, <2>0, <2>1, <2>3, <2>6, <3>3, <5>2
                <5>3. CASE k # j /\ k # j - 1
                    BY <2>1, <2>6, <5>3
                <5> QED
                    BY <5>1, <5>2, <5>3
            <4> QED
                BY <1>a, <2>0, <2>6, <3>3, <4>1, <4>2 DEF Sorted
        <3> QED
            BY <3>1, <3>2, <3>3
    <2>7. Len(results') = n
        BY <1>2 DEF Swap, TypeInv, n
    <2> QED
        BY <1>a, <1>b, <2>0, <2>4, <2>5, <2>6, <2>7
<1>3. CASE InPlace
    <2>0. /\ i \in 1 .. n /\ i' = i + 1 /\ j' = i + 1 /\ results' = results
          /\ j \in 1 .. n /\ (j > 1 => ~Less(results[j], results[j - 1]))
          /\ Content /\ Stable /\ Sorted
        BY <1>3, <1>a DEF InPlace, SortInv
    <2>1. ASSUME NEW k \in 1 .. n, k < j PROVE Before(results[k], results[j])
        <3>1. j - 1 \in 1 .. n /\ j - 1 < j /\ k <= j - 1 /\ j > 1
            BY <1>a, <2>0, <2>1
        <3>2. /\ results[j] \in Tools /\ results[j - 1] \in Tools /\ results[k] \in Tools
            BY <1>a, <2>0, <3>1
        <3>3. Before(results[j - 1], results[j])
            <4>1. CASE SameKey(results[j], results[j - 1])
                <5>1. SameKey(results[j - 1], results[j])
                    BY <4>1 DEF SameKey
                <5>2. results[j - 1][2] < results[j][2]
                    BY <1>a, <2>0, <3>1, <5>1 DEF Stable
                <5>3. Score(results[j - 1]) = Score(results[j])
                    BY <3>2, <4>1, LessTotal
                <5> QED
                    BY <5>1, <5>2, <5>3 DEF Before, SameKey
            <4>2. CASE ~SameKey(results[j], results[j - 1])
                BY <2>0, <3>1, <3>2, <4>2, LessTotal
            <4> QED
                BY <4>1, <4>2
        <3>4. CASE k = j - 1
            BY <3>3, <3>4
        <3>5. CASE k # j - 1
            <4>1. Before(results[k], results[j - 1])
                BY <1>a, <2>0, <3>1, <3>5 DEF Sorted
            <4> QED
                BY <3>2, <3>3, <4>1, BeforeTransitive
        <3> QED
            BY <3>4, <3>5
    <2>2. ASSUME NEW k \in 1 .. n, NEW l \in 1 .. n, k < l, l <= i + 1, l # i + 1
          PROVE  Before(results[k], results[l])
        <3>1. CASE l = j
            BY <2>1, <2>2, <3>1
        <3>2. CASE l # j
            BY <1>a, <2>0, <2>2, <3>2 DEF Sorted
        <3> QED
            BY <3>1, <3>2
    <2>3. Content'
        BY <1>0, <2>0 DEF Content
    <2>4. Stable'
        BY <1>b, <2>0 DEF Stable
    <2> QED
        BY <1>a, <1>b, <2>0, <2>2, <2>3, <2>4
<1>4. CASE UNCHANGED vars
    <2>1. Content /\ Stable /\ Sorted /\ (i > n => j = i) /\ UNCHANGED <<results, i, j>>
        BY <1>4 DEF SortInv, vars
    <2> QED
        BY <1>0, <1>b, <2>1 DEF Content, Stable, Sorted
<1> QED
    BY <1>1, <1>2, <1>3, <1>4 DEF Next, NextServer, Look, ServerDone, Cut

LEMMA AnswerStep == TypeInv /\ SortInv /\ BestFirst /\ [Next]_vars => BestFirst'
<1> SUFFICES ASSUME TypeInv, SortInv, BestFirst, [Next]_vars, pc' = "done" PROVE BestFirst'
    BY DEF BestFirst
<1>0. /\ offered' = offered /\ query' = query /\ Matching' = Matching
    BY Rigid
<1>c. \A t : NameOf(t)' = NameOf(t) /\ Score(t)' = Score(t)
    BY <1>0 DEF NameOf, Score
<1>1. CASE Cut
    <2> DEFINE n == Len(results)
               m == Len(results')
    <2>1. /\ n \in Nat /\ DOMAIN results = 1 .. n /\ i \in Nat /\ i > n /\ j = i
          /\ Content /\ Stable /\ Sorted
        BY <1>1 DEF Cut, TypeInv, SortInv
    <2>2. \A k, l \in 1 .. n : k < l => Before(results[k], results[l])
        BY <2>1 DEF Sorted
    <2>3. /\ m \in Nat /\ m <= n /\ DOMAIN results' = 1 .. m
          /\ \A k \in 1 .. m : results'[k] = results[k]
          /\ m < n => Limit > 0 /\ m = Limit
        <3>1. CASE Limit > 0 /\ n > Limit
            <4>1. results' = SubSeq(results, 1, Limit)
                BY <1>1, <3>1 DEF Cut
            <4> QED
                BY <2>1, <3>1, <4>1, LimitIsNat DEF TypeInv
        <3>2. CASE ~(Limit > 0 /\ n > Limit)
            BY <1>1, <2>1, <3>2 DEF Cut
        <3> QED
            BY <3>1, <3>2
    <2>4. \A k, l \in DOMAIN results' : k < l => Before(results'[k], results'[l])
        BY <2>1, <2>2, <2>3
    <2>5. \A k \in DOMAIN results' : results'[k] \in Matching
        BY <2>1, <2>3 DEF Content
    <2>6. ASSUME NEW t \in Matching
          PROVE  \/ \E k \in DOMAIN results' : results'[k] = t
                 \/ /\ Limit > 0 /\ m = Limit
                    /\ \A k \in DOMAIN results' : Before(results'[k], t)
        <3>1. PICK l \in 1 .. n : results[l] = t
            BY <2>1 DEF Content
        <3> QED
            BY <2>1, <2>2, <2>3, <3>1
    <2>7. (\A k, l \in DOMAIN results : k < l => Before(results[k], results[l]))'
        <3>1. (\A k, l \in DOMAIN results : k < l => Before(results[k], results[l]))' <=>
                 (\A k, l \in DOMAIN results' : k < l => Before(results'[k], results'[l]))
            BY <1>0, <1>c DEF Before, NameOf, Score
        <3> QED
            BY <2>4, <3>1
    <2>8. (\A t \in Matching :
              \/ \E k \in DOMAIN results : results[k] = t
              \/ /\ Limit > 0 /\ Len(results) = Limit
                 /\ \A k \in DOMAIN results : Before(results[k], t))'
        <3>1. ASSUME NEW t
              PROVE  (\A k \in DOMAIN results : Before(results[k], t))' <=>
                        \A k \in DOMAIN results' : Before(results'[k], t)
            BY <1>0, <1>c DEF Before, NameOf, Score
        <3> QED
            BY <1>0, <2>6, <3>1
    <2> QED
        BY <1>0, <2>5, <2>7, <2>8 DEF BestFirst
<1>2. CASE UNCHANGED vars
    <2>1. results' = results /\ pc' = pc
        BY <1>2 DEF vars
    <2>2. (\A k, l \in DOMAIN results : k < l => Before(results[k], results[l]))' <=>
             (\A k, l \in DOMAIN results : k < l => Before(results[k], results[l]))
        BY <1>0, <1>c, <2>1 DEF Before, NameOf, Score
    <2>3. ASSUME NEW t
          PROVE  (\A k \in DOMAIN results : Before(results[k], t))' <=>
                    \A k \in DOMAIN results : Before(results[k], t)
        BY <1>0, <1>c, <2>1 DEF Before, NameOf, Score
    <2> QED
        BY <1>0, <2>1, <2>2, <2>3 DEF BestFirst
<1> QED
    BY <1>1, <1>2 DEF Next, NextServer, Look, ServerDone, GatherDone, Swap, InPlace

\* Search returns the best of what matches, best first and nothing twice, for
\* any number of servers and tools, any limit, and in whichever order the map
\* of servers is iterated.
THEOREM BestFirstHolds == Spec => []BestFirst
<1>1. Inv /\ [Next]_vars => Inv'
    BY TypeStep, GatherStep, SortStep, AnswerStep DEF Inv
<1>2. Inv => BestFirst
    BY DEF Inv
<1> QED
    BY InitInv, <1>1, <1>2, PTL DEF Spec

=============================================================================
