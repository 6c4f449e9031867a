--------------------------- MODULE MutatorsProofs ---------------------------
(***************************************************************************)
(* The contract between MutateWalk and the mutators: whatever a registered *)
(* mutator offers for a node of the parsed file, its Reset brings back the *)
(* file.  MutateWalk assumes it of its parameter Mutator                   *)
(* (MutatorAssumption); here it is proved of the repository's mutators.    *)
(*                                                                         *)
(* The definitions over trees are recursive functions, so the proofs need  *)
(* induction on the depth of a tree: that the function exists, and what it *)
(* returns.                                                                *)
(***************************************************************************)
EXTENDS Mutators, InductionLemmas

-----------------------------------------------------------------------------
(* Trees.                                                                  *)

\* The trees whose children are in K.
Level(K) == [kind : STRING, id : Nat, attr : Seq(STRING), kids : Seq(K)]
Below(d) == IF d = 0 THEN {} ELSE TreesTo[d - 1]

LEMMA TreesToDef ==
    ASSUME MaxDepth \in Nat
    PROVE  \A d \in 0..MaxDepth : TreesTo[d] = Level(Below(d))
<1>. DEFINE Good(f, n) == f = [d \in 0..n |-> Level(IF d = 0 THEN {} ELSE f[d - 1])]
            S == {n \in 0..MaxDepth : \E f : Good(f, n)}
<1>1. 0 \in S
  <2>. DEFINE f == [d \in 0..0 |-> Level({})]
  <2>1. Good(f, 0)
    OBVIOUS
  <2>. HIDE DEF Good, f
  <2>. QED BY <2>1
<1>2. ASSUME NEW n \in 0..MaxDepth, n < MaxDepth, n \in S
      PROVE  n + 1 \in S
  <2>1. PICK f : Good(f, n)
    BY <1>2
  <2>. DEFINE g == [d \in 0..(n + 1) |-> Level(IF d = 0 THEN {} ELSE f[d - 1])]
  <2>2. \A d \in 0..n : g[d] = f[d]
    BY <2>1
  <2>3. \A d \in 0..(n + 1) : d # 0 => d - 1 \in 0..n
    BY <1>2
  <2>4. Good(g, n + 1)
    BY <2>2, <2>3
  <2>5. n + 1 \in 0..MaxDepth
    BY <1>2
  <2>. HIDE DEF Good, g
  <2>. QED BY <2>4, <2>5
<1>3. MaxDepth \in S
  <2>. HIDE DEF S
  <2>1. \A n \in 0..MaxDepth : n \in S
    BY <1>1, <1>2, Induction
  <2>. QED BY <2>1
<1>4. Good(TreesTo, MaxDepth)
  BY <1>3 DEF TreesTo, Level
<1>. QED BY <1>4 DEF Below

LEMMA BelowIncluded ==
    ASSUME MaxDepth \in Nat
    PROVE  \A d \in 0..MaxDepth : Below(d) \subseteq TreesTo[d]
<1>. DEFINE S == {d \in 0..MaxDepth : Below(d) \subseteq TreesTo[d]}
<1>1. 0 \in S
  BY DEF Below
<1>2. ASSUME NEW d \in 0..MaxDepth, d < MaxDepth, d \in S
      PROVE  d + 1 \in S
  <2>1. d + 1 \in 0..MaxDepth /\ Below(d + 1) = TreesTo[d]
    BY <1>2 DEF Below
  <2>2. TreesTo[d] = Level(Below(d)) /\ TreesTo[d + 1] = Level(TreesTo[d])
    BY <2>1, TreesToDef
  <2>3. Below(d) \subseteq TreesTo[d]
    BY <1>2
  <2>4. Level(Below(d)) \subseteq Level(TreesTo[d])
    BY <2>3 DEF Level
  <2>. QED BY <2>1, <2>2, <2>4
<1>. HIDE DEF S
<1>3. \A d \in 0..MaxDepth : d \in S
  BY <1>1, <1>2, Induction
<1>. QED BY <1>3 DEF S

LEMMA LevelsAreTrees ==
    ASSUME MaxDepth \in Nat
    PROVE  \A d \in 0..MaxDepth : TreesTo[d] \subseteq Trees
<1>. DEFINE S == {k \in 0..MaxDepth : TreesTo[MaxDepth - k] \subseteq Trees}
<1>1. 0 \in S
  BY DEF Trees
<1>2. ASSUME NEW k \in 0..MaxDepth, k < MaxDepth, k \in S
      PROVE  k + 1 \in S
  <2>. DEFINE d == MaxDepth - k
  <2>1. d \in 0..MaxDepth /\ d # 0 /\ MaxDepth - (k + 1) = d - 1
    BY <1>2
  <2>2. TreesTo[d - 1] \subseteq TreesTo[d]
    BY <2>1, BelowIncluded DEF Below
  <2>. QED BY <1>2, <2>1, <2>2
<1>3. \A k \in 0..MaxDepth : k \in S
  <2>. HIDE DEF S
  <2>. QED BY <1>1, <1>2, Induction
<1>4. ASSUME NEW d \in 0..MaxDepth PROVE TreesTo[d] \subseteq Trees
  <2>1. MaxDepth - d \in 0..MaxDepth /\ MaxDepth - (MaxDepth - d) = d
    OBVIOUS
  <2>. QED BY <1>3, <2>1
<1>. QED BY <1>4

\* The children of a tree are one level less deep, and trees.
LEMMA KidsBelow ==
    ASSUME MaxDepth \in Nat, NEW d \in 0..MaxDepth, NEW t \in TreesTo[d],
           NEW i \in DOMAIN t.kids
    PROVE  d # 0 /\ d - 1 \in 0..MaxDepth /\ t.kids[i] \in TreesTo[d - 1]
<1>1. t \in Level(Below(d))
  BY TreesToDef
<1>2. t.kids \in Seq(Below(d))
  BY <1>1 DEF Level
<1>3. t.kids[i] \in Below(d)
  BY <1>2
<1>. QED BY <1>3 DEF Below

\* Structural induction: a set that holds a tree whenever it holds the
\* children of the tree holds every tree.
LEMMA TreeInduction ==
    ASSUME MaxDepth \in Nat, NEW S,
           \A t \in Trees : (\A i \in DOMAIN t.kids : t.kids[i] \in S) => t \in S
    PROVE  Trees \subseteq S
<1>. DEFINE D == {d \in 0..MaxDepth : TreesTo[d] \subseteq S}
<1>1. 0 \in D
  <2>1. ASSUME NEW t \in TreesTo[0] PROVE t \in S
    BY KidsBelow, LevelsAreTrees
  <2>. QED BY <2>1
<1>2. ASSUME NEW d \in 0..MaxDepth, d < MaxDepth, d \in D
      PROVE  d + 1 \in D
  <2>1. d + 1 \in 0..MaxDepth /\ (d + 1) - 1 = d
    BY <1>2
  <2>2. ASSUME NEW t \in TreesTo[d + 1] PROVE t \in S
    <3>1. \A i \in DOMAIN t.kids : t.kids[i] \in TreesTo[d]
      BY <2>1, KidsBelow
    <3>2. t \in Trees
      BY <2>1, LevelsAreTrees
    <3>. QED BY <1>2, <3>1, <3>2
  <2>. QED BY <2>1, <2>2
<1>. HIDE DEF D
<1>3. \A d \in 0..MaxDepth : d \in D
  BY <1>1, <1>2, Induction
<1>. QED BY <1>3 DEF D, Trees

LEMMA TreeTypes ==
    ASSUME MaxDepth \in Nat, NEW t \in Trees
    PROVE  /\ t = Node(t.kind, t.id, t.attr, t.kids)
           /\ t.kids \in Seq(Trees)
<1>1. t \in Level(Below(MaxDepth))
  BY TreesToDef DEF Trees
<1>2. Below(MaxDepth) \subseteq Trees
  BY BelowIncluded DEF Trees
<1>3. t.kids \in Seq(Below(MaxDepth)) /\ t = Node(t.kind, t.id, t.attr, t.kids)
  BY <1>1 DEF Level, Node
<1>. QED BY <1>2, <1>3

-----------------------------------------------------------------------------
(* The recursive functions over trees exist.                               *)

LEMMA NodesInDef ==
    ASSUME MaxDepth \in Nat
    PROVE  \A t \in Trees : NodesIn[t] = {t} \cup UNION {NodesIn[t.kids[i]] : i \in DOMAIN t.kids}
<1>. DEFINE Body(f, t) == {t} \cup UNION {f[t.kids[i]] : i \in DOMAIN t.kids}
            Good(f, d) == f = [t \in TreesTo[d] |-> Body(f, t)]
            S == {d \in 0..MaxDepth : \E f : Good(f, d)}
<1>1. ASSUME NEW f, NEW g, NEW t,
             \A i \in DOMAIN t.kids : f[t.kids[i]] = g[t.kids[i]]
      PROVE  Body(f, t) = Body(g, t)
  BY <1>1
<1>. HIDE DEF Body
<1>2. 0 \in S
  <2>. DEFINE f == [t \in TreesTo[0] |-> Body(<<>>, t)]
  <2>1. ASSUME NEW t \in TreesTo[0] PROVE Body(<<>>, t) = Body(f, t)
    <3>. HIDE DEF f
    <3>. QED BY KidsBelow, <1>1
  <2>2. Good(f, 0)
    BY <2>1
  <2>. HIDE DEF Good, f
  <2>. QED BY <2>2
<1>3. ASSUME NEW d \in 0..MaxDepth, d < MaxDepth, d \in S
      PROVE  d + 1 \in S
  <2>1. PICK f : Good(f, d)
    BY <1>3
  <2>. DEFINE g == [t \in TreesTo[d + 1] |-> Body(f, t)]
  <2>2. d + 1 \in 0..MaxDepth /\ (d + 1) - 1 = d /\ TreesTo[d] \subseteq TreesTo[d + 1]
    BY <1>3, BelowIncluded DEF Below
  <2>3. \A t \in TreesTo[d] : f[t] = g[t]
    BY <2>1, <2>2
  <2>4. ASSUME NEW t \in TreesTo[d + 1] PROVE Body(f, t) = Body(g, t)
    <3>. HIDE DEF g, Good
    <3>1. \A i \in DOMAIN t.kids : t.kids[i] \in TreesTo[d]
      BY <2>2, KidsBelow
    <3>. QED BY <2>3, <3>1, <1>1
  <2>5. Good(g, d + 1)
    BY <2>4
  <2>. HIDE DEF Good, g
  <2>. QED BY <2>2, <2>5
<1>4. MaxDepth \in S
  <2>. HIDE DEF S
  <2>1. \A d \in 0..MaxDepth : d \in S
    BY <1>2, <1>3, Induction
  <2>. QED BY <2>1
<1>5. Good(NodesIn, MaxDepth)
  BY <1>4 DEF NodesIn, Trees, Body
<1>. QED BY <1>5 DEF Body, Trees

LEMMA ReplaceDef ==
    ASSUME MaxDepth \in Nat, NEW id, NEW new
    PROVE  \A t \in Trees :
             Replace(t, id, new) =
               IF t.id = id THEN new
               ELSE [t EXCEPT !.kids = [i \in DOMAIN t.kids |-> Replace(t.kids[i], id, new)]]
<1>. DEFINE Body(f, t) == IF t.id = id THEN new
                          ELSE [t EXCEPT !.kids = [i \in DOMAIN t.kids |-> f[t.kids[i]]]]
            Good(f, d) == f = [t \in TreesTo[d] |-> Body(f, t)]
            S == {d \in 0..MaxDepth : \E f : Good(f, d)}
<1>1. ASSUME NEW f, NEW g, NEW t,
             \A i \in DOMAIN t.kids : f[t.kids[i]] = g[t.kids[i]]
      PROVE  Body(f, t) = Body(g, t)
  BY <1>1
<1>. HIDE DEF Body
<1>2. 0 \in S
  <2>. DEFINE f == [t \in TreesTo[0] |-> Body(<<>>, t)]
  <2>1. ASSUME NEW t \in TreesTo[0] PROVE Body(<<>>, t) = Body(f, t)
    <3>. HIDE DEF f
    <3>. QED BY KidsBelow, <1>1
  <2>2. Good(f, 0)
    BY <2>1
  <2>. HIDE DEF Good, f
  <2>. QED BY <2>2
<1>3. ASSUME NEW d \in 0..MaxDepth, d < MaxDepth, d \in S
      PROVE  d + 1 \in S
  <2>1. PICK f : Good(f, d)
    BY <1>3
  <2>. DEFINE g == [t \in TreesTo[d + 1] |-> Body(f, t)]
  <2>2. d + 1 \in 0..MaxDepth /\ (d + 1) - 1 = d /\ TreesTo[d] \subseteq TreesTo[d + 1]
    BY <1>3, BelowIncluded DEF Below
  <2>3. \A t \in TreesTo[d] : f[t] = g[t]
    BY <2>1, <2>2
  <2>4. ASSUME NEW t \in TreesTo[d + 1] PROVE Body(f, t) = Body(g, t)
    <3>. HIDE DEF g, Good
    <3>1. \A i \in DOMAIN t.kids : t.kids[i] \in TreesTo[d]
      BY <2>2, KidsBelow
    <3>. QED BY <2>3, <3>1, <1>1
  <2>5. Good(g, d + 1)
    BY <2>4
  <2>. HIDE DEF Good, g
  <2>. QED BY <2>2, <2>5
<1>4. MaxDepth \in S
  <2>. HIDE DEF S
  <2>1. \A d \in 0..MaxDepth : d \in S
    BY <1>2, <1>3, Induction
  <2>. QED BY <2>1
<1>. DEFINE Replaced == CHOOSE f : Good(f, MaxDepth)
<1>5. \A t : Replace(t, id, new) = Replaced[t]
  BY DEF Replace, Trees, Body
<1>6. Good(Replaced, MaxDepth)
  <2>. HIDE DEF Good
  <2>. QED BY <1>4
<1>7. ASSUME NEW t \in Trees PROVE Replace(t, id, new) = Body(Replaced, t)
  <2>. HIDE DEF Replaced
  <2>. QED BY <1>5, <1>6 DEF Trees
<1>8. ASSUME NEW t \in Trees
      PROVE  [i \in DOMAIN t.kids |-> Replace(t.kids[i], id, new)]
                = [i \in DOMAIN t.kids |-> Replaced[t.kids[i]]]
  <2>. HIDE DEF Replaced
  <2>. QED BY <1>5
<1>. HIDE DEF Replaced
<1>. QED BY <1>7, <1>8 DEF Body

\* One step of IsErrorHandlingCode, with f for the else branch.
ErrorBlock(f, n) ==
    IF n.kind = "If" /\ n.kids[1].kind = "Binary" /\ isConditionalErrorHandling(n.kids[1])
    THEN CASE Name(n.kids[1]) = "!=" -> n.kids[2]
           [] Name(n.kids[1]) = "==" /\ Len(n.kids) = 3 ->
                 IF n.kids[3].kind = "If" THEN f[n.kids[3]] ELSE n.kids[3]
           [] OTHER -> Nil
    ELSE Nil

LEMMA IsErrorHandlingCodeDef ==
    ASSUME MaxDepth \in Nat
    PROVE  \A n \in Trees : IsErrorHandlingCode[n] = ErrorBlock(IsErrorHandlingCode, n)
<1>. DEFINE Body(f, t) == ErrorBlock(f, t)
            Good(f, d) == f = [t \in TreesTo[d] |-> Body(f, t)]
            S == {d \in 0..MaxDepth : \E f : Good(f, d)}
<1>1. ASSUME NEW f, NEW g, NEW t \in Trees,
             \A i \in DOMAIN t.kids : f[t.kids[i]] = g[t.kids[i]]
      PROVE  Body(f, t) = Body(g, t)
  <2>1. Len(t.kids) = 3 => 3 \in DOMAIN t.kids
    BY TreeTypes
  <2>. QED BY <1>1, <2>1 DEF ErrorBlock
<1>. HIDE DEF Body
<1>2. 0 \in S
  <2>. DEFINE f == [t \in TreesTo[0] |-> Body(<<>>, t)]
  <2>1. ASSUME NEW t \in TreesTo[0] PROVE Body(<<>>, t) = Body(f, t)
    <3>. HIDE DEF f
    <3>. QED BY KidsBelow, LevelsAreTrees, <1>1
  <2>2. Good(f, 0)
    BY <2>1
  <2>. HIDE DEF Good, f
  <2>. QED BY <2>2
<1>3. ASSUME NEW d \in 0..MaxDepth, d < MaxDepth, d \in S
      PROVE  d + 1 \in S
  <2>1. PICK f : Good(f, d)
    BY <1>3
  <2>. DEFINE g == [t \in TreesTo[d + 1] |-> Body(f, t)]
  <2>2. d + 1 \in 0..MaxDepth /\ (d + 1) - 1 = d /\ TreesTo[d] \subseteq TreesTo[d + 1]
    BY <1>3, BelowIncluded DEF Below
  <2>3. \A t \in TreesTo[d] : f[t] = g[t]
    BY <2>1, <2>2
  <2>4. ASSUME NEW t \in TreesTo[d + 1] PROVE Body(f, t) = Body(g, t)
    <3>. HIDE DEF g, Good
    <3>1. \A i \in DOMAIN t.kids : t.kids[i] \in TreesTo[d]
      BY <2>2, KidsBelow
    <3>2. t \in Trees
      BY <2>2, LevelsAreTrees
    <3>. QED BY <2>3, <3>1, <3>2, <1>1
  <2>5. Good(g, d + 1)
    BY <2>4
  <2>. HIDE DEF Good, g
  <2>. QED BY <2>2, <2>5
<1>4. MaxDepth \in S
  <2>. HIDE DEF S
  <2>1. \A d \in 0..MaxDepth : d \in S
    BY <1>2, <1>3, Induction
  <2>. QED BY <2>1
<1>5. Good(IsErrorHandlingCode, MaxDepth)
  BY <1>4 DEF IsErrorHandlingCode, ErrorBlock, Trees, Body
<1>. QED BY <1>5 DEF Body, Trees

-----------------------------------------------------------------------------
(* What the functions return.                                              *)

LEMMA NodesInTrees ==
    ASSUME MaxDepth \in Nat
    PROVE  \A t \in Trees :
             /\ t \in NodesIn[t] /\ NodesIn[t] \subseteq Trees
             /\ \A i \in DOMAIN t.kids : NodesIn[t.kids[i]] \subseteq NodesIn[t]
             /\ \A u \in NodesIn[t] : NodesIn[u] \subseteq NodesIn[t]
<1>. DEFINE P(t) == /\ NodesIn[t] \subseteq Trees
                    /\ \A u \in NodesIn[t] : NodesIn[u] \subseteq NodesIn[t]
            S == {t \in Trees : P(t)}
<1>1. \A t \in Trees :
        /\ t \in NodesIn[t]
        /\ \A i \in DOMAIN t.kids : NodesIn[t.kids[i]] \subseteq NodesIn[t]
  BY NodesInDef
<1>2. ASSUME NEW t \in Trees, \A i \in DOMAIN t.kids : t.kids[i] \in S
      PROVE  P(t)
  <2>1. NodesIn[t] \subseteq Trees
    BY <1>2, NodesInDef
  <2>2. ASSUME NEW u \in NodesIn[t] PROVE NodesIn[u] \subseteq NodesIn[t]
    <3>1. CASE u = t
      BY <3>1
    <3>2. CASE \E i \in DOMAIN t.kids : u \in NodesIn[t.kids[i]]
      BY <3>2, <1>1, <1>2
    <3>. QED BY <3>1, <3>2, <2>2, NodesInDef
  <2>. QED BY <2>1, <2>2
<1>3. Trees \subseteq S
  <2>. HIDE DEF P
  <2>1. \A t \in Trees : (\A i \in DOMAIN t.kids : t.kids[i] \in S) => t \in S
    BY <1>2
  <2>. HIDE DEF S
  <2>. QED BY <2>1, TreeInduction
<1>. QED BY <1>1, <1>3

\* Writing a node back where it already is changes nothing.
LEMMA WriteBack ==
    ASSUME MaxDepth \in Nat, NEW x, NEW t \in Trees,
           \A v \in NodesIn[t] : v.id = x.id => v = x
    PROVE  Replace(t, x.id, x) = t
<1>. DEFINE Only(u) == \A v \in NodesIn[u] : v.id = x.id => v = x
            S == {u \in Trees : Only(u) => Replace(u, x.id, x) = u}
<1>1. ASSUME NEW u \in Trees, \A i \in DOMAIN u.kids : u.kids[i] \in S, Only(u)
      PROVE  Replace(u, x.id, x) = u
  <2>1. CASE u.id = x.id
    BY <2>1, <1>1, ReplaceDef, NodesInTrees
  <2>2. CASE u.id # x.id
    <3>1. ASSUME NEW i \in DOMAIN u.kids PROVE Replace(u.kids[i], x.id, x) = u.kids[i]
      BY <1>1, NodesInTrees
    <3>2. Replace(u, x.id, x) =
            [u EXCEPT !.kids = [i \in DOMAIN u.kids |-> Replace(u.kids[i], x.id, x)]]
      BY <2>2, ReplaceDef
    <3>3. [i \in DOMAIN u.kids |-> Replace(u.kids[i], x.id, x)] = u.kids
      <4>1. u.kids = [i \in DOMAIN u.kids |-> u.kids[i]]
        BY TreeTypes
      <4>. QED BY <3>1, <4>1
    <3>4. [u EXCEPT !.kids = u.kids] = u
      BY TreeTypes DEF Node
    <3>. QED BY <3>2, <3>3, <3>4
  <2>. QED BY <2>1, <2>2
<1>2. Trees \subseteq S
  <2>. HIDE DEF Only
  <2>1. \A u \in Trees : (\A i \in DOMAIN u.kids : u.kids[i] \in S) => u \in S
    BY <1>1
  <2>. HIDE DEF S
  <2>. QED BY <2>1, TreeInduction
<1>. QED BY <1>2

IfsHaveBranches(t) == \A u \in NodesIn[t] : u.kind = "If" => Len(u.kids) \in 2..3

\* The error handling block of an if statement is one of its nodes.
LEMMA ErrorBlockInTree ==
    ASSUME MaxDepth \in Nat, NEW t \in Trees, IfsHaveBranches(t)
    PROVE  IsErrorHandlingCode[t] \in NodesIn[t] \cup {Nil}
<1>. DEFINE S == {u \in Trees : IfsHaveBranches(u) => IsErrorHandlingCode[u] \in NodesIn[u] \cup {Nil}}
<1>1. ASSUME NEW u \in Trees, \A i \in DOMAIN u.kids : u.kids[i] \in S, IfsHaveBranches(u)
      PROVE  IsErrorHandlingCode[u] \in NodesIn[u] \cup {Nil}
  <2>1. IsErrorHandlingCode[u] = ErrorBlock(IsErrorHandlingCode, u)
    BY IsErrorHandlingCodeDef
  <2>2. CASE u.kind = "If"
    <3>1. 2 \in DOMAIN u.kids /\ (Len(u.kids) = 3 => 3 \in DOMAIN u.kids)
      BY <1>1, <2>2, NodesInTrees, TreeTypes DEF IfsHaveBranches
    <3>2. ASSUME NEW i \in DOMAIN u.kids
          PROVE  /\ u.kids[i] \in NodesIn[u]
                 /\ IsErrorHandlingCode[u.kids[i]] \in NodesIn[u] \cup {Nil}
      <4>1. u.kids[i] \in Trees
        BY TreeTypes
      <4>2. IfsHaveBranches(u.kids[i])
        BY <1>1, NodesInTrees DEF IfsHaveBranches
      <4>. QED BY <1>1, <4>1, <4>2, NodesInTrees
    <3>. QED BY <2>1, <3>1, <3>2 DEF ErrorBlock
  <2>3. CASE u.kind # "If"
    BY <2>1, <2>3 DEF ErrorBlock
  <2>. QED BY <2>2, <2>3
<1>2. Trees \subseteq S
  <2>1. \A u \in Trees : (\A i \in DOMAIN u.kids : u.kids[i] \in S) => u \in S
    BY <1>1
  <2>. HIDE DEF S
  <2>. QED BY <2>1, TreeInduction
<1>. QED BY <1>2

-----------------------------------------------------------------------------
(* Each mutator, on its own node.                                          *)

NilIsNoNode == \A kind, id, attr, kids : Nil # Node(kind, id, attr, kids)

\* What every mutation of ms does to node n: Change leaves a node there and
\* Reset the node as it was; or it is a mutation without closures.
Restores(ms, n) ==
    \A k \in DOMAIN ms :
        \/ ms[k] = Mutated(Nil, Nil)
        \/ ms[k].Reset = n /\ ms[k].Change # Nil

LEMMA SetKidsRestores ==
    ASSUME MaxDepth \in Nat, NilIsNoNode, NEW n \in Trees, NEW new
    PROVE  SetKids(n, new).Reset = n /\ SetKids(n, new).Change # Nil
<1>1. n = Node(n.kind, n.id, n.attr, n.kids)
  BY TreeTypes
<1>2. [n EXCEPT !.kids = new] = Node(n.kind, n.id, n.attr, new)
  BY <1>1 DEF Node
<1>3. [[n EXCEPT !.kids = new] EXCEPT !.kids = n.kids] = n
  BY <1>1 DEF Node
<1>. QED BY <1>2, <1>3 DEF SetKids, Mutated, NilIsNoNode

\* Writing a child, and writing the children of the second child.
Put(s, i, x) == [s EXCEPT ![i] = x]
SetKid(n, i, x) == [n EXCEPT !.kids[i] = x]
SetBody(n, x) == [n EXCEPT !.kids[2].kids = x]

LEMMA KidWritten ==
    ASSUME NEW kind, NEW id, NEW attr, NEW kids, NEW i, NEW x
    PROVE  SetKid(Node(kind, id, attr, kids), i, x) = Node(kind, id, attr, Put(kids, i, x))
  BY DEF Node, SetKid, Put

LEMMA BodyWritten ==
    ASSUME NEW kind, NEW id, NEW attr, NEW kids, NEW x
    PROVE  SetBody(Node(kind, id, attr, kids), x)
             = Node(kind, id, attr, Put(kids, 2, [kids[2] EXCEPT !.kids = x]))
  BY DEF Node, SetBody, Put

LEMMA PutBack ==
    ASSUME NEW s \in Seq(Trees), NEW i, NEW x
    PROVE  /\ Put(Put(s, i, x), i, s[i]) = s
           /\ i \in DOMAIN s => Put(s, i, x)[i] = x
           /\ i \notin DOMAIN s => Put(s, i, x) = s
<1>1. s = [j \in DOMAIN s |-> s[j]]
  OBVIOUS
<1>2. \A t, y : Put(t, i, y) = [j \in DOMAIN t |-> IF j = i THEN y ELSE t[j]]
  BY DEF Put
<1>. HIDE DEF Put
<1>3. DOMAIN Put(s, i, x) = DOMAIN s /\ \A j \in DOMAIN s : Put(s, i, x)[j] = IF j = i THEN x ELSE s[j]
  BY <1>2
<1>4. Put(Put(s, i, x), i, s[i]) = [j \in DOMAIN s |-> s[j]]
  BY <1>2, <1>3
<1>5. i \notin DOMAIN s => Put(s, i, x) = [j \in DOMAIN s |-> s[j]]
  BY <1>2
<1>. QED BY <1>1, <1>3, <1>4, <1>5

LEMMA KidRestored ==
    ASSUME MaxDepth \in Nat, NilIsNoNode, NEW n \in Trees, NEW i, NEW x
    PROVE  /\ SetKid(n, i, x) # Nil
           /\ SetKid(SetKid(n, i, x), i, n.kids[i]) = n
<1>. DEFINE c == Put(n.kids, i, x)
<1>1. n = Node(n.kind, n.id, n.attr, n.kids) /\ n.kids \in Seq(Trees)
  BY TreeTypes
<1>2. Put(c, i, n.kids[i]) = n.kids
  BY <1>1, PutBack
<1>3. SetKid(n, i, x) = Node(n.kind, n.id, n.attr, c)
  BY <1>1, KidWritten
<1>4. SetKid(Node(n.kind, n.id, n.attr, c), i, n.kids[i])
        = Node(n.kind, n.id, n.attr, Put(c, i, n.kids[i]))
  BY KidWritten
<1>. HIDE DEF c
<1>. QED BY <1>1, <1>2, <1>3, <1>4 DEF NilIsNoNode

LEMMA BodyRestored ==
    ASSUME MaxDepth \in Nat, NilIsNoNode, NEW n \in Trees, NEW x
    PROVE  /\ SetBody(n, x) # Nil
           /\ SetBody(SetBody(n, x), n.kids[2].kids) = n
<1>. DEFINE b == n.kids[2]
            bx == [b EXCEPT !.kids = x]
            c == Put(n.kids, 2, bx)
            cb == [c[2] EXCEPT !.kids = b.kids]
<1>1. n = Node(n.kind, n.id, n.attr, n.kids) /\ n.kids \in Seq(Trees)
  BY TreeTypes
<1>2. Put(c, 2, cb) = n.kids
  <2>1. CASE 2 \in DOMAIN n.kids
    <3>1. b \in Trees
      BY <1>1, <2>1
    <3>2. [bx EXCEPT !.kids = b.kids] = b
      BY <3>1, TreeTypes DEF Node
    <3>. HIDE DEF bx
    <3>3. c[2] = bx /\ Put(c, 2, b) = n.kids
      BY <1>1, <2>1, PutBack
    <3>. QED BY <3>2, <3>3
  <2>2. CASE 2 \notin DOMAIN n.kids
    <3>. HIDE DEF bx, cb
    <3>. QED BY <1>1, <2>2, PutBack
  <2>. QED BY <2>1, <2>2
<1>3. SetBody(n, x) = Node(n.kind, n.id, n.attr, c)
  BY <1>1, BodyWritten
<1>4. SetBody(Node(n.kind, n.id, n.attr, c), b.kids)
        = Node(n.kind, n.id, n.attr, Put(c, 2, cb))
  BY BodyWritten
<1>. HIDE DEF c, cb
<1>. QED BY <1>1, <1>2, <1>3, <1>4 DEF NilIsNoNode

LEMMA StatementsRestored ==
    ASSUME MaxDepth \in Nat, NilIsNoNode, NEW n \in Trees,
           NEW k \in DOMAIN MutatorRemoveStatement(n)
    PROVE  /\ MutatorRemoveStatement(n)[k].Reset = n
           /\ MutatorRemoveStatement(n)[k].Change # Nil
<1>1. CASE n.kind \in {"Block", "Case"}
  <2>1. PICK i, x : MutatorRemoveStatement(n)[k]
                      = Mutated(SetKid(n, i, x), SetKid(SetKid(n, i, x), i, n.kids[i]))
    BY <1>1 DEF MutatorRemoveStatement, SetKid
  <2>. QED BY <2>1, KidRestored DEF Mutated
<1>2. CASE n.kind \notin {"Block", "Case"}
  BY <1>2 DEF MutatorRemoveStatement
<1>. QED BY <1>1, <1>2

\* The mutators that write into the node they are called for, and the one
\* that may offer no closures.
LEMMA OwnNodeRestored ==
    ASSUME MaxDepth \in Nat, NilIsNoNode, NEW n \in Trees
    PROVE  /\ Restores(MutatorCase(n), n)
           /\ Restores(MutatorIf(n), n)
           /\ Restores(MutatorElse(n), n)
           /\ Restores(MutatorRemoveTerm(n), n)
           /\ Restores(MutatorRemoveStatement(n), n)
           /\ Restores(MutatorTimeout(n), n)
           /\ Restores(MutatorReadZero(n), n)
           /\ Restores(MutatorSwap(n), n)
<1>1. Restores(MutatorCase(n), n)
  BY SetKidsRestores DEF MutatorCase, Restores
<1>2. Restores(MutatorIf(n), n)
  <2>1. CASE n.kind = "If"
    <3>. DEFINE x == <<CreateNoopOfStatement(n.kids[2])>>
    <3>1. MutatorIf(n) = <<Mutated(SetBody(n, x), SetBody(SetBody(n, x), n.kids[2].kids))>>
      BY <2>1 DEF MutatorIf, SetBody
    <3>. HIDE DEF x
    <3>. QED BY <3>1, BodyRestored DEF Restores, Mutated
  <2>. QED BY <2>1 DEF MutatorIf, Restores
<1>3. Restores(MutatorElse(n), n)
  <2>. DEFINE x == CreateNoopOfStatement(n.kids[3])
              m == Mutated(SetKid(n, 3, x), SetKid(SetKid(n, 3, x), 3, n.kids[3]))
  <2>1. MutatorElse(n) = <<m>> \/ MutatorElse(n) = <<>>
    BY DEF MutatorElse, SetKid
  <2>. HIDE DEF x
  <2>. QED BY <2>1, KidRestored DEF Restores, Mutated
<1>4. Restores(MutatorRemoveTerm(n), n)
  <2>1. CASE n.kind = "Binary" /\ Name(n) \in {"&&", "||"}
    <3>. DEFINE r == Node("Ident", New, <<IF Name(n) = "&&" THEN "true" ELSE "false">>, <<>>)
    <3>1. MutatorRemoveTerm(n)
            = [i \in 1..2 |-> Mutated(SetKid(n, i, r), SetKid(SetKid(n, i, r), i, n.kids[i]))]
      BY <2>1, Zenon DEF MutatorRemoveTerm, SetKid
    <3>. HIDE DEF r
    <3>. QED BY <3>1, KidRestored DEF Restores, Mutated
  <2>2. CASE ~ (n.kind = "Binary" /\ Name(n) \in {"&&", "||"})
    BY <2>2 DEF MutatorRemoveTerm, Restores
  <2>. QED BY <2>1, <2>2
<1>5. Restores(MutatorRemoveStatement(n), n)
  BY StatementsRestored DEF Restores
<1>6. Restores(MutatorTimeout(n), n)
  BY SetKidsRestores DEF MutatorTimeout, Restores
<1>7. Restores(MutatorReadZero(n), n)
  <2>1. ASSUME NEW k \in DOMAIN MutatorReadZero(n)
        PROVE  \E new : MutatorReadZero(n)[k] = SetKids(n, new)
    <3>1. CASE n.kind = "Block"
      BY <3>1, Zenon DEF MutatorReadZero
    <3>2. CASE n.kind # "Block"
      BY <3>2 DEF MutatorReadZero
    <3>. QED BY <3>1, <3>2
  <2>. QED BY <2>1, SetKidsRestores DEF Restores
<1>8. Restores(MutatorSwap(n), n)
  <2>1. n # Nil
    BY TreeTypes DEF NilIsNoNode
  <2>. QED BY <2>1 DEF MutatorSwap, Restores, Mutated
<1>. QED BY <1>1, <1>2, <1>3, <1>4, <1>5, <1>6, <1>7, <1>8

\* A node with a node inside replaced is a node.
LEMMA ReplacedIsNode ==
    ASSUME MaxDepth \in Nat, NilIsNoNode, NEW t \in Trees, NEW id, NEW new, new # Nil
    PROVE  Replace(t, id, new) # Nil
<1>1. t = Node(t.kind, t.id, t.attr, t.kids)
  BY TreeTypes
<1>2. \A kids : [t EXCEPT !.kids = kids] = Node(t.kind, t.id, t.attr, kids)
  BY <1>1 DEF Node
<1>3. \/ Replace(t, id, new) = new
      \/ \E kids : Replace(t, id, new) = [t EXCEPT !.kids = kids]
  BY ReplaceDef
<1>. QED BY <1>2, <1>3 DEF NilIsNoNode

\* removeblock writes into the block of an error handling if statement, a
\* node below the one it is called for.
LEMMA BlockRestored ==
    ASSUME MaxDepth \in Nat, NilIsNoNode, NEW n, Parsed(n)
    PROVE  Restores(MutatorRemoveBlock(n), n)
<1>. DEFINE block == IsErrorHandlingCode[n]
            m == MutatorRemoveStatement(block)
<1>1. CASE block = Nil
  BY <1>1 DEF MutatorRemoveBlock, Restores
<1>2. CASE block # Nil
  <2>1. n \in Trees /\ block \in NodesIn[n] /\ block \in Trees
    BY <1>2, ErrorBlockInTree, NodesInTrees DEF Parsed, IfsHaveBranches
  <2>2. Replace(n, block.id, block) = n
    BY <2>1, WriteBack DEF Parsed
  <2>. HIDE DEF block
  <2>3. ASSUME NEW k \in DOMAIN m
        PROVE  m[k].Reset = block /\ Replace(n, block.id, m[k].Change) # Nil
    BY <2>1, StatementsRestored, ReplacedIsNode
  <2>4. MutatorRemoveBlock(n) = [k \in DOMAIN m |-> Mutated(Replace(n, block.id, m[k].Change),
                                                            Replace(n, block.id, m[k].Reset))]
    BY <1>2 DEF MutatorRemoveBlock, block
  <2>. HIDE DEF m
  <2>. QED BY <2>2, <2>3, <2>4 DEF Restores, Mutated
<1>. QED BY <1>1, <1>2

LEMMA ParsedBelow ==
    ASSUME MaxDepth \in Nat, NEW a, Parsed(a), NEW n \in NodesIn[a]
    PROVE  Parsed(n)
  BY NodesInTrees DEF Parsed

\* The node of an identity is the node that has it.
LEMMA NodeOfIdentity ==
    ASSUME NEW a, Parsed(a), NEW n \in NodesIn[a]
    PROVE  NodeOf(a, n.id) = n
  BY DEF NodeOf, Parsed

LEMMA LookupRestores ==
    ASSUME MaxDepth \in Nat, NilIsNoNode, NEW n, Parsed(n), NEW o \in mutatorLookup
    PROVE  Restores(Lookup(o, n), n)
  BY OwnNodeRestored, BlockRestored DEF Parsed, mutatorLookup, Lookup

\* Every mutation that a registered mutator offers for a node of a parsed
\* file either has no closures or brings back, by its Reset, exactly the
\* file its Change was applied to (mutator/mutator.go, Mutation).
THEOREM ResetBringsBackTheFile ==
    ASSUME MaxDepth \in Nat, NilIsNoNode, NEW a, Parsed(a), NEW n \in NodesIn[a],
           NEW o \in mutatorLookup, NEW k \in DOMAIN MutationsOf(o, a, n.id)
    PROVE  \/ MutationsOf(o, a, n.id)[k] = Mutated(Nil, Nil)
           \/ MutationsOf(o, a, n.id)[k].Reset = a
<1>. DEFINE ms == Lookup(o, n)
<1>1. Restores(ms, n)
  BY ParsedBelow, LookupRestores
<1>. HIDE DEF ms
<1>2. MutationsOf(o, a, n.id) =
        [j \in DOMAIN ms |->
            IF ms[j].Change = Nil THEN ms[j]
            ELSE Mutated(Replace(a, n.id, ms[j].Change), Replace(a, n.id, ms[j].Reset))]
  BY NodeOfIdentity DEF MutationsOf, ms
<1>3. k \in DOMAIN ms
  BY <1>2
<1>4. CASE ms[k] = Mutated(Nil, Nil)
  BY <1>2, <1>3, <1>4 DEF Mutated
<1>5. CASE ms[k].Reset = n /\ ms[k].Change # Nil
  <2>1. Replace(a, n.id, n) = a
    BY WriteBack DEF Parsed
  <2>. QED BY <1>2, <1>3, <1>5, <2>1 DEF Mutated
<1>. QED BY <1>1, <1>3, <1>4, <1>5 DEF Restores
=============================================================================
