---------------------------- MODULE JsonTreeProofs ----------------------------
(***************************************************************************)
(* The trees of cJSON stay sound, in a heap of any size (TreesCorrect).    *)
(*                                                                         *)
(* Trees, the invariant, is TreeSound in the form that the proofs need.    *)
(* Without its links the heap is a forest: every item is held or in one    *)
(* list, and every set that holds what the caller holds, and the lists of  *)
(* what it holds, holds all; one lemma for each way a forest changes.      *)
(* With them each list is a chain, whose items are the least set that the  *)
(* links lead through; one lemma for each way the links of one list        *)
(* change.  A function of cJSON is then shown to set the links that one of *)
(* those lemmas asks for, and to leave the other lists alone.              *)
(***************************************************************************)
EXTENDS JsonTree, TLAPS

-----------------------------------------------------------------------------
(* What links lead to.                                                      *)

Items ==
    [live : BOOLEAN, child : Links, next : Links, prev : Links, isReference : BOOLEAN,
     string : [text : Keys \cup {NULL}, const : BOOLEAN], value : Values]
Heaps == [Cells -> Items]

\* The least set is one of those that are shut.
LEMMA ReachShut ==
    ASSUME NEW h \in Heaps, NEW a \in Links, NEW P
    PROVE  Shut(h, a, P, Reach(h, a, P)) /\ Reach(h, a, P) \in SUBSET Cells
<1> DEFINE shut == {S \in SUBSET Cells : Shut(h, a, P, S)}
           R == Reach(h, a, P)
<1>1. R = {c \in Cells : \A S \in shut : c \in S}
  <2>1. CASE a = NULL
    <3>1. {} \in shut
      BY <2>1 DEF Shut
    <3> QED
      BY <2>1, <3>1 DEF Reach
  <2>2. CASE a # NULL
    BY <2>2 DEF Reach
  <2> QED
    BY <2>1, <2>2
<1>2. a \in R \cup {NULL}
  <2> SUFFICES ASSUME a # NULL PROVE a \in R
    OBVIOUS
  <2>1. a \in Cells
    BY DEF Links
  <2>2. \A S \in shut : a \in S
    BY DEF Shut
  <2> QED
    BY <1>1, <2>1, <2>2
<1>3. ASSUME NEW c \in R
      PROVE  h[c].next \in R \cup {NULL} /\ (c \in P => h[c].child \in R \cup {NULL})
  <2>1. c \in Cells /\ \A S \in shut : c \in S
    BY <1>1
  <2>2. h[c].next \in Links /\ h[c].child \in Links
    BY <2>1 DEF Heaps, Items
  <2>3. \A S \in shut : /\ h[c].next \in S \cup {NULL}
                        /\ c \in P => h[c].child \in S \cup {NULL}
    BY <2>1 DEF Shut
  <2> HIDE DEF shut, R
  <2>4. h[c].next # NULL => h[c].next \in R
    BY <1>1, <2>2, <2>3 DEF Links
  <2>5. c \in P /\ h[c].child # NULL => h[c].child \in R
    BY <1>1, <2>2, <2>3 DEF Links
  <2> QED
    BY <2>4, <2>5
<1> QED
  BY <1>1, <1>2, <1>3 DEF Shut

\* It is within each.
LEMMA ReachLeast ==
    ASSUME NEW h, NEW a, NEW P, NEW S \in SUBSET Cells, Shut(h, a, P, S)
    PROVE  Reach(h, a, P) \subseteq S
  BY DEF Reach

\* Where two heaps agree on the links, they lead to the same.
LEMMA SameReach ==
    ASSUME NEW h \in Heaps, NEW g \in Heaps, NEW a \in Links,
           \A c \in Reach(h, a, {}) : g[c].next = h[c].next
    PROVE  Reach(g, a, {}) = Reach(h, a, {})
<1> DEFINE R == Reach(h, a, {})
           T == Reach(g, a, {})
<1>1. Shut(h, a, {}, R) /\ Shut(g, a, {}, T) /\ R \in SUBSET Cells /\ T \in SUBSET Cells
  BY ReachShut
<1> HIDE DEF R, T
<1>2. Shut(g, a, {}, R)
  BY <1>1 DEF Shut, R
<1>3. T \subseteq R
  BY <1>1, <1>2, ReachLeast DEF T
<1>4. Shut(h, a, {}, T)
  BY <1>1, <1>3 DEF Shut, R
<1>5. R \subseteq T
  BY <1>1, <1>4, ReachLeast DEF R
<1> QED
  BY <1>3, <1>5 DEF R, T

\* A list holds its first item, and the next of each.
LEMMA ListShut ==
    ASSUME NEW h \in Heaps, NEW p \in Cells
    PROVE  /\ Children(h, p) \in SUBSET Cells
           /\ h[p].child \in Children(h, p) \cup {NULL}
           /\ \A c \in Children(h, p) : h[c].next \in Children(h, p) \cup {NULL}
<1>1. h[p].child \in Links
  BY DEF Heaps, Items
<1> QED
  BY <1>1, ReachShut DEF Children, Shut

\* A list is within every set that is closed in that way.
LEMMA ListLeast ==
    ASSUME NEW h, NEW p, NEW S \in SUBSET Cells, h[p].child \in S \cup {NULL},
           \A c \in S : h[c].next \in S \cup {NULL}
    PROVE  Children(h, p) \subseteq S
<1>1. Shut(h, h[p].child, {}, S)
  BY DEF Shut
<1> QED
  BY <1>1, ReachLeast DEF Children

-----------------------------------------------------------------------------
(* The items in use and whose they are, without their links: items L, those *)
(* with lists H, the lists K, and what the caller holds.                    *)

\* What the caller holds is in no list, nothing is in two, and all is below the caller's.
Forest(L, H, K, hs) ==
    /\ L \in SUBSET Cells /\ H \subseteq L /\ hs \subseteq L
    /\ \A p \in H : K[p] \subseteq L /\ K[p] \cap hs = {}
    /\ \A p, q \in H : p # q => K[p] \cap K[q] = {}
    /\ \A S \in SUBSET Cells :
          hs \subseteq S /\ (\A p \in H \cap S : K[p] \subseteq S) => L \subseteq S

\* An item that the caller holds is put into a list that is not below it.
LEMMA ForestGrows ==
    ASSUME NEW L, NEW H, NEW K, NEW hs, Forest(L, H, K, hs),
           NEW c \in hs, NEW p \in H, NEW M,
           \A q \in H : M[q] = IF q = p THEN K[p] \cup {c} ELSE K[q],
           NEW B \in SUBSET Cells, c \in B, p \notin B, \A q \in H \cap B : K[q] \subseteq B
    PROVE  Forest(L, H, M, hs \ {c})
<1>1. /\ L \in SUBSET Cells /\ H \subseteq L /\ hs \ {c} \subseteq L
      /\ \A q \in H : M[q] \subseteq L /\ M[q] \cap (hs \ {c}) = {}
  BY DEF Forest
<1>2. ASSUME NEW q \in H, NEW r \in H, q # r PROVE M[q] \cap M[r] = {}
  <2>1. K[q] \cap K[r] = {} /\ c \notin K[q] /\ c \notin K[r]
    BY <1>2 DEF Forest
  <2> QED
    BY <1>2, <2>1
<1>3. ASSUME NEW S \in SUBSET Cells, hs \ {c} \subseteq S, \A q \in H \cap S : M[q] \subseteq S
      PROVE  L \subseteq S
  <2>1. \A q \in H \cap S : K[q] \subseteq S
    BY <1>3
  <2>2. L \subseteq S \cup B
    <3>1. S \cup B \in SUBSET Cells /\ hs \subseteq S \cup B
      BY <1>3
    <3>2. \A q \in H \cap (S \cup B) : K[q] \subseteq S \cup B
      BY <2>1
    <3> QED
      BY <3>1, <3>2 DEF Forest
  <2>3. p \in S
    BY <2>2 DEF Forest
  <2>4. c \in S
    BY <1>3, <2>3
  <2>5. hs \subseteq S
    BY <1>3, <2>4
  <2> QED
    BY <2>1, <2>5 DEF Forest
<1> QED
  BY <1>1, <1>2, <1>3 DEF Forest

\* An item is taken out of a list and becomes the caller's.
LEMMA ForestShrinks ==
    ASSUME NEW L, NEW H, NEW K, NEW hs, Forest(L, H, K, hs),
           NEW p \in H, NEW x \in K[p], NEW M,
           \A q \in H : M[q] = IF q = p THEN K[p] \ {x} ELSE K[q]
    PROVE  Forest(L, H, M, hs \cup {x})
<1>1. /\ L \in SUBSET Cells /\ H \subseteq L /\ hs \cup {x} \subseteq L
      /\ \A q \in H : M[q] \subseteq L
  BY DEF Forest
<1>2. ASSUME NEW q \in H PROVE M[q] \cap (hs \cup {x}) = {}
  <2>1. K[q] \cap hs = {} /\ (q # p => x \notin K[q])
    BY DEF Forest
  <2> QED
    BY <2>1
<1>3. ASSUME NEW q \in H, NEW r \in H, q # r PROVE M[q] \cap M[r] = {}
  <2>1. K[q] \cap K[r] = {}
    BY <1>3 DEF Forest
  <2> QED
    BY <2>1
<1>4. ASSUME NEW S \in SUBSET Cells, hs \cup {x} \subseteq S, \A q \in H \cap S : M[q] \subseteq S
      PROVE  L \subseteq S
  <2>1. \A q \in H \cap S : K[q] \subseteq S
    BY <1>4
  <2> QED
    BY <1>4, <2>1 DEF Forest
<1> QED
  BY <1>1, <1>2, <1>3, <1>4 DEF Forest

\* An item that the caller holds goes, with all that is below it.
LEMMA ForestCut ==
    ASSUME NEW L, NEW H, NEW K, NEW hs, Forest(L, H, K, hs),
           NEW gone \in SUBSET Cells, NEW c \in hs, hs \cap gone = {c}, NEW M,
           \A q \in H \cap gone : K[q] \subseteq gone,
           \A q \in H \ gone : M[q] = K[q] /\ K[q] \cap gone = {}
    PROVE  Forest(L \ gone, H \ gone, M, hs \ {c})
<1>1. /\ L \ gone \in SUBSET Cells /\ H \ gone \subseteq L \ gone /\ hs \ {c} \subseteq L \ gone
      /\ \A q \in H \ gone : M[q] \subseteq L \ gone /\ M[q] \cap (hs \ {c}) = {}
  BY DEF Forest
<1>2. \A q, r \in H \ gone : q # r => M[q] \cap M[r] = {}
  BY DEF Forest
<1>3. ASSUME NEW S \in SUBSET Cells, hs \ {c} \subseteq S,
             \A q \in (H \ gone) \cap S : M[q] \subseteq S
      PROVE  L \ gone \subseteq S
  <2>1. S \cup gone \in SUBSET Cells /\ hs \subseteq S \cup gone
    BY <1>3
  <2>2. \A q \in H \cap (S \cup gone) : K[q] \subseteq S \cup gone
    BY <1>3
  <2>3. L \subseteq S \cup gone
    BY <2>1, <2>2 DEF Forest
  <2> QED
    BY <2>3
<1> QED
  BY <1>1, <1>2, <1>3 DEF Forest

\* Another tree, on memory that was free, becomes the caller's.
LEMMA ForestJoins ==
    ASSUME NEW L, NEW H, NEW K, NEW hs, Forest(L, H, K, hs),
           NEW N, NEW J, NEW G, NEW o, Forest(N, J, G, {o}), L \cap N = {}, NEW M,
           \A q \in H : M[q] = K[q], \A q \in J : M[q] = G[q]
    PROVE  Forest(L \cup N, H \cup J, M, hs \cup {o})
<1>1. /\ L \in SUBSET Cells /\ H \subseteq L /\ hs \subseteq L
      /\ N \in SUBSET Cells /\ J \subseteq N /\ o \in N
  BY DEF Forest
<1>2. ASSUME NEW q \in H \cup J
      PROVE  M[q] \subseteq L \cup N /\ M[q] \cap (hs \cup {o}) = {}
  <2>1. CASE q \in H
    BY <1>1, <2>1 DEF Forest
  <2>2. CASE q \in J
    BY <1>1, <2>2 DEF Forest
  <2> QED
    BY <2>1, <2>2
<1>3. ASSUME NEW q \in H \cup J, NEW r \in H \cup J, q # r PROVE M[q] \cap M[r] = {}
  <2>1. q \in H /\ r \in H => K[q] \cap K[r] = {}
    BY <1>3 DEF Forest
  <2>2. q \in J /\ r \in J => G[q] \cap G[r] = {}
    BY <1>3 DEF Forest
  <2>3. /\ q \in H => K[q] \subseteq L
        /\ r \in H => K[r] \subseteq L
        /\ q \in J => G[q] \subseteq N
        /\ r \in J => G[r] \subseteq N
    BY DEF Forest
  <2> QED
    BY <2>1, <2>2, <2>3
<1>4. ASSUME NEW S \in SUBSET Cells, hs \cup {o} \subseteq S,
             \A q \in (H \cup J) \cap S : M[q] \subseteq S
      PROVE  L \cup N \subseteq S
  <2>1. L \subseteq S
    BY <1>4 DEF Forest
  <2>2. N \subseteq S
    BY <1>4 DEF Forest
  <2> QED
    BY <2>1, <2>2
<1> QED
  BY <1>1, <1>2, <1>3, <1>4 DEF Forest

\* What is not the caller's is in a list.
LEMMA ForestOwned ==
    ASSUME NEW L, NEW H, NEW K, NEW hs, Forest(L, H, K, hs), NEW c \in L \ hs
    PROVE  \E p \in H : c \in K[p]
<1> DEFINE S == hs \cup UNION {K[p] : p \in H}
<1>1. S \in SUBSET Cells /\ hs \subseteq S /\ \A p \in H \cap S : K[p] \subseteq S
  BY DEF Forest
<1>2. L \subseteq S
  BY <1>1 DEF Forest
<1> QED
  BY <1>2

-----------------------------------------------------------------------------
(* One link is set.                                                         *)

\* g is h but for the links of items.
Alike(h, g) ==
    \A y \in Cells : g[y].live = h[y].live /\ g[y].isReference = h[y].isReference

\* next of x is set.
SetNext(h, x, v) == [h EXCEPT ![x].next = v]
SetPrev(h, x, v) == [h EXCEPT ![x].prev = v]
SetChild(h, x, v) == [h EXCEPT ![x].child = v]

NextSet(h, g, x, v) ==
    /\ g \in Heaps /\ Alike(h, g)
    /\ \A y \in Cells : /\ g[y].next = IF y = x THEN v ELSE h[y].next
                        /\ g[y].prev = h[y].prev /\ g[y].child = h[y].child
PrevSet(h, g, x, v) ==
    /\ g \in Heaps /\ Alike(h, g)
    /\ \A y \in Cells : /\ g[y].prev = IF y = x THEN v ELSE h[y].prev
                        /\ g[y].next = h[y].next /\ g[y].child = h[y].child
ChildSet(h, g, x, v) ==
    /\ g \in Heaps /\ Alike(h, g)
    /\ \A y \in Cells : /\ g[y].child = IF y = x THEN v ELSE h[y].child
                        /\ g[y].next = h[y].next /\ g[y].prev = h[y].prev

\* Nothing else changes then.
LEMMA LinkSet ==
    ASSUME NEW h \in Heaps, NEW x \in Cells, NEW v \in Links
    PROVE  /\ NextSet(h, SetNext(h, x, v), x, v)
           /\ PrevSet(h, SetPrev(h, x, v), x, v)
           /\ ChildSet(h, SetChild(h, x, v), x, v)
<1>1. NextSet(h, SetNext(h, x, v), x, v)
  BY DEF Heaps, Items, NextSet, SetNext, Alike
<1>2. PrevSet(h, SetPrev(h, x, v), x, v)
  BY DEF Heaps, Items, PrevSet, SetPrev, Alike
<1>3. ChildSet(h, SetChild(h, x, v), x, v)
  BY DEF Heaps, Items, ChildSet, SetChild, Alike
<1> QED
  BY <1>1, <1>2, <1>3

\* The name of an item is set.
LEMMA NameSet ==
    ASSUME NEW h \in Heaps, NEW c \in Cells, NEW k \in Keys \cup {NULL}, NEW const \in BOOLEAN
    PROVE  /\ Named(h, c, k, const) \in Heaps /\ Alike(h, Named(h, c, k, const))
           /\ \A y \in Cells : /\ Named(h, c, k, const)[y].next = h[y].next
                               /\ Named(h, c, k, const)[y].prev = h[y].prev
                               /\ Named(h, c, k, const)[y].child = h[y].child
  BY DEF Heaps, Items, Named, Alike

-----------------------------------------------------------------------------
(* A list that is linked.                                                   *)

Chain(h, p) ==
    LET s == Children(h, p)
        first == h[p].child
    IN  /\ s \in SUBSET Cells /\ first \in s \cup {NULL} /\ (first = NULL => s = {})
        /\ \A x \in s : /\ h[x].live /\ h[x].next \in s \cup {NULL} /\ h[x].next # x
                        /\ h[x].next # NULL => h[h[x].next].prev = x
                        /\ h[x].next # first \/ first = NULL
                        /\ x # first => h[x].prev \in s /\ h[h[x].prev].next = x
        /\ first # NULL => h[first].prev \in s /\ h[h[first].prev].next = NULL

\* prev leads back, and nothing leads to the first item or to itself.
LEMMA Chained ==
    ASSUME NEW h \in Heaps, NEW p \in Cells, Linked(h, p)
    PROVE  Chain(h, p)
<1> DEFINE s == Children(h, p)
           first == h[p].child
<1>1. s \in SUBSET Cells /\ first \in s \cup {NULL} /\ \A c \in s : h[c].next \in s \cup {NULL}
  BY ListShut
<1>2. /\ \A c \in s : h[c].live /\ (h[c].next # NULL => h[h[c].next].prev = c)
      /\ first # NULL => h[first].prev \in s /\ h[h[first].prev].next = NULL
  BY DEF Linked
<1>3. \A S \in SUBSET Cells : first \in S \cup {NULL} /\ (\A c \in S : h[c].next \in S \cup {NULL})
                               => s \subseteq S
  BY ListLeast
<1> HIDE DEF s
<1>4. first = NULL => s = {}
  <2> DEFINE none == {}
  <2>1. ASSUME first = NULL PROVE s \subseteq none
    <3>1. none \in SUBSET Cells /\ \A c \in none : h[c].next \in none \cup {NULL}
      OBVIOUS
    <3>2. first \in none \cup {NULL}
      BY <2>1
    <3> HIDE DEF none
    <3> QED
      BY <1>3, <3>1, <3>2
  <2> QED
    BY <2>1
<1>5. ASSUME NEW x \in s, x # first
      PROVE  h[x].prev \in s /\ h[h[x].prev].next = x
  <2> DEFINE S == {y \in s : y = first \/ \E z \in s : h[z].next = y}
  <2>1. S \in SUBSET Cells /\ first \in S \cup {NULL}
    BY <1>1
  <2>2. \A c \in S : h[c].next \in S \cup {NULL}
    BY <1>1
  <2>3. s \subseteq S
    BY <1>3, <2>1, <2>2
  <2>4. PICK z \in s : h[z].next = x
    BY <1>5, <2>3
  <2>5. x # NULL
    BY <1>1, TreeAssumption
  <2> QED
    BY <1>2, <2>4, <2>5
<1>6. ASSUME NEW x \in s PROVE h[x].next # first \/ first = NULL
  BY <1>2
<1>7. ASSUME NEW x \in s, h[x].next = x PROVE FALSE
  <2>1. x # NULL
    BY <1>1, TreeAssumption
  <2>2. h[x].prev = x
    BY <1>2, <1>7, <2>1
  <2>3. x # first
    BY <1>6, <1>7, <2>1
  <2>4. s \ {x} \in SUBSET Cells /\ first \in (s \ {x}) \cup {NULL}
    BY <1>1, <2>3
  <2>5. \A c \in s \ {x} : h[c].next \in (s \ {x}) \cup {NULL}
    BY <1>1, <1>2, <2>1, <2>2
  <2>6. s \subseteq s \ {x}
    BY <1>3, <2>4, <2>5
  <2> QED
    BY <2>6
<1> QED
  BY <1>1, <1>2, <1>4, <1>5, <1>6, <1>7 DEF Chain, s

-----------------------------------------------------------------------------
(* Items of one list are linked anew.                                       *)

\* g is h but for the links of c and of the items of p.
Rearranged(h, g, p, c) ==
    /\ h \in Heaps /\ g \in Heaps /\ Alike(h, g)
    /\ \A y \in Cells : y # p => g[y].child = h[y].child
    /\ \A y \in Cells : y \notin Children(h, p) \cup {c} =>
          g[y].next = h[y].next /\ g[y].prev = h[y].prev

\* Items that stay keep their order.
InOrder(h, g, p) ==
    \A x, y \in Children(h, p) \cap Children(g, p) : y \in Behind(h, x) => y \in Behind(g, x)

\* c comes between z and w in the list of p, where NULL for z is before the first, and for w
\* behind the last.
PutBetween(h, g, p, c, z, w) ==
    LET s == Children(h, p)
        first == h[p].child
        start == IF z = NULL THEN c ELSE first
    IN  /\ Rearranged(h, g, p, c)
        /\ p \in Cells /\ c \in Cells \ s /\ h[c].live
        /\ z \in s \cup {NULL} /\ w = IF z = NULL THEN first ELSE h[z].next
        /\ g[p].child = start
        /\ g[c].next = w
        /\ \A y \in s : g[y].next = IF y = z THEN c ELSE h[y].next
        /\ w # NULL => g[w].prev = c
        /\ z # NULL => g[c].prev = z
        /\ g[start].prev = IF w = NULL THEN c ELSE h[first].prev
        /\ \A y \in s \ {w, start} : g[y].prev = h[y].prev

\* x leaves the list of p.
TakenOut(h, g, p, x) ==
    LET s == Children(h, p)
        first == h[p].child
        start == IF x = first THEN h[x].next ELSE first
    IN  /\ Rearranged(h, g, p, x)
        /\ p \in Cells /\ x \in s
        /\ g[p].child = start
        /\ g[x].next = NULL
        /\ \A y \in s \ {x} : /\ h[y].next = x => g[y].next = h[x].next
                              /\ h[y].next # x => g[y].next = h[y].next
        /\ x # first /\ h[x].next # NULL => g[h[x].next].prev = h[x].prev
        /\ start # NULL => g[start].prev = IF h[x].next = NULL THEN h[x].prev ELSE h[first].prev
        /\ \A y \in s \ {x, h[x].next, start} : g[y].prev = h[y].prev

\* What comes of p's list, and that it is linked as before.
Becomes(h, g, p, s) == Children(g, p) = s /\ Linked(g, p) /\ InOrder(h, g, p)

\* An item that was put into a list is in it, and nothing else is.
LEMMA PutIn ==
    ASSUME NEW h, NEW g, NEW p, NEW c, NEW z, NEW w, PutBetween(h, g, p, c, z, w), Chain(h, p)
    PROVE  Becomes(h, g, p, Children(h, p) \cup {c})
<1> DEFINE s == Children(h, p)
           t == Children(g, p)
           first == h[p].child
           start == IF z = NULL THEN c ELSE first
<1>1. h \in Heaps /\ g \in Heaps /\ p \in Cells /\ c \in Cells \ s /\ c # NULL
  BY TreeAssumption DEF PutBetween, Rearranged
<1>2. /\ s \in SUBSET Cells /\ first \in s \cup {NULL} /\ (first = NULL => s = {})
      /\ \A x \in s : /\ h[x].next \in s \cup {NULL} /\ h[x].next # x /\ x # NULL
                      /\ h[x].next # NULL => h[h[x].next].prev = x
                      /\ h[x].next # first \/ first = NULL
                      /\ x # first => h[x].prev \in s /\ h[h[x].prev].next = x
      /\ first # NULL => h[first].prev \in s /\ h[h[first].prev].next = NULL
  BY TreeAssumption DEF Chain
<1>3. /\ z \in s \cup {NULL} /\ w = IF z = NULL THEN first ELSE h[z].next
      /\ g[p].child = start
      /\ g[c].next = w
      /\ \A y \in s : g[y].next = IF y = z THEN c ELSE h[y].next
  BY DEF PutBetween
<1>4. /\ w # NULL => g[w].prev = c
      /\ z # NULL => g[c].prev = z
      /\ g[start].prev = IF w = NULL THEN c ELSE h[first].prev
      /\ \A y \in s \ {w, start} : g[y].prev = h[y].prev
  BY DEF PutBetween
<1>5. t \in SUBSET Cells /\ g[p].child \in t \cup {NULL} /\ \A y \in t : g[y].next \in t \cup {NULL}
  BY <1>1, ListShut
<1>6. \A y \in s \cup {c} : h[y].live /\ g[y].live
  BY <1>1 DEF PutBetween, Rearranged, Alike, Chain
<1> HIDE DEF s, t
<1>7. t \subseteq s \cup {c}
  <2>1. s \cup {c} \in SUBSET Cells
    BY <1>1, <1>2
  <2>2. g[p].child \in (s \cup {c}) \cup {NULL}
    BY <1>2, <1>3
  <2>3. \A y \in s \cup {c} : g[y].next \in (s \cup {c}) \cup {NULL}
    BY <1>2, <1>3
  <2> QED
    BY <2>1, <2>2, <2>3, ListLeast DEF t
<1>8. s \subseteq t
  <2>1. t \cap s \in SUBSET Cells
    BY <1>5
  <2>2. h[p].child \in (t \cap s) \cup {NULL}
    BY <1>1, <1>2, <1>3, <1>5
  <2>3. \A y \in t \cap s : h[y].next \in (t \cap s) \cup {NULL}
    BY <1>1, <1>2, <1>3, <1>5
  <2>4. s \subseteq t \cap s
    BY <2>1, <2>2, <2>3, ListLeast DEF s
  <2> QED
    BY <2>4
<1>9. c \in t
  BY <1>1, <1>2, <1>3, <1>5, <1>8
<1>10. t = s \cup {c}
  BY <1>7, <1>8, <1>9
<1>11. Linked(g, p)
  <2>1. ASSUME NEW y \in t, g[y].next # NULL PROVE g[g[y].next].prev = y
    <3>1. CASE y = c
      <4>1. w # NULL
        BY <1>3, <2>1, <3>1
      <4> QED
        BY <1>3, <1>4, <3>1, <4>1
    <3>2. CASE y # c /\ y = z
      BY <1>2, <1>3, <1>4, <1>10, <3>2
    <3>3. CASE y # c /\ y # z
      <4>1. y \in s /\ g[y].next = h[y].next
        BY <1>3, <1>10, <3>3
      <4>2. h[y].next \in s /\ h[h[y].next].prev = y
        BY <1>2, <2>1, <4>1
      <4>3. h[y].next # w
        BY <1>2, <1>3, <3>3, <4>1, <4>2
      <4>4. h[y].next # start
        BY <1>1, <1>2, <4>1, <4>2
      <4> QED
        BY <1>4, <4>1, <4>2, <4>3, <4>4
    <3> QED
      BY <3>1, <3>2, <3>3
  <2>2. g[start].prev \in t /\ g[g[start].prev].next = NULL
    <3>1. CASE w = NULL
      BY <1>3, <1>4, <1>9, <3>1
    <3>2. CASE w # NULL
      <4>1. first # NULL
        BY <1>2, <1>3, <3>2
      <4>2. h[first].prev \in s /\ h[h[first].prev].next = NULL
        BY <1>2, <4>1
      <4>3. h[first].prev # z
        BY <1>2, <1>3, <3>2, <4>2
      <4> QED
        BY <1>3, <1>4, <1>10, <3>2, <4>2, <4>3
    <3> QED
      BY <3>1, <3>2
  <2> QED
    BY <1>3, <1>6, <1>10, <2>1, <2>2 DEF Linked, t
<1>12. InOrder(h, g, p)
  <2> SUFFICES ASSUME NEW x \in s \cap t, NEW y \in s \cap t, y \in Behind(h, x)
               PROVE  y \in Behind(g, x)
    BY DEF InOrder, s, t
  <2> DEFINE B == Behind(g, x)
  <2>1. B \in SUBSET Cells /\ g[x].next \in B \cup {NULL} /\ \A v \in B : g[v].next \in B \cup {NULL}
    <3>1. x \in Cells /\ g[x].next \in Links
      BY <1>1, <1>5 DEF Heaps, Items
    <3> QED
      BY <1>1, <3>1, ReachShut DEF Behind, Shut
  <2> HIDE DEF B
  <2>2. B \cap s \in SUBSET Cells
    BY <2>1
  <2>3. h[x].next \in (B \cap s) \cup {NULL}
    BY <1>1, <1>2, <1>3, <2>1
  <2>4. \A v \in B \cap s : h[v].next \in (B \cap s) \cup {NULL}
    BY <1>1, <1>2, <1>3, <2>1
  <2>5. Behind(h, x) \subseteq B \cap s
    <3>1. Shut(h, h[x].next, {}, B \cap s)
      BY <2>3, <2>4 DEF Shut
    <3> QED
      BY <2>2, <3>1, ReachLeast DEF Behind
  <2> QED
    BY <2>5 DEF B
<1> QED
  BY <1>10, <1>11, <1>12 DEF Becomes, s, t

\* An item that was taken out of a list is not in it, and nothing else is missing.
LEMMA TakeOut ==
    ASSUME NEW h, NEW g, NEW p, NEW x, TakenOut(h, g, p, x), Chain(h, p)
    PROVE  Becomes(h, g, p, Children(h, p) \ {x})
<1> DEFINE s == Children(h, p)
           t == Children(g, p)
           first == h[p].child
           next == h[x].next
           start == IF x = first THEN next ELSE first
<1>1. h \in Heaps /\ g \in Heaps /\ p \in Cells /\ x \in s /\ x # NULL
  BY TreeAssumption DEF TakenOut, Rearranged, Chain
<1>2. /\ s \in SUBSET Cells /\ first \in s \cup {NULL} /\ (first = NULL => s = {})
      /\ \A y \in s : /\ h[y].next \in s \cup {NULL} /\ h[y].next # y /\ y # NULL
                      /\ h[y].next # NULL => h[h[y].next].prev = y
                      /\ h[y].next # first \/ first = NULL
                      /\ y # first => h[y].prev \in s /\ h[h[y].prev].next = y
      /\ first # NULL => h[first].prev \in s /\ h[h[first].prev].next = NULL
  BY TreeAssumption DEF Chain
<1>3. /\ g[p].child = start
      /\ g[x].next = NULL
      /\ \A y \in s \ {x} : /\ h[y].next = x => g[y].next = next
                            /\ h[y].next # x => g[y].next = h[y].next
  BY DEF TakenOut
<1>4. /\ x # first /\ next # NULL => g[next].prev = h[x].prev
      /\ start # NULL => g[start].prev = IF next = NULL THEN h[x].prev ELSE h[first].prev
      /\ \A y \in s \ {x, next, start} : g[y].prev = h[y].prev
  BY DEF TakenOut
<1>5. t \in SUBSET Cells /\ g[p].child \in t \cup {NULL} /\ \A y \in t : g[y].next \in t \cup {NULL}
  BY <1>1, ListShut
<1>6. \A y \in s : h[y].live /\ g[y].live
  BY <1>1 DEF TakenOut, Rearranged, Alike, Chain
<1>7. first # NULL /\ (x # first => h[x].prev \in s \ {x} /\ h[h[x].prev].next = x)
  BY <1>1, <1>2
<1> HIDE DEF s, t
<1>8. t \subseteq s \ {x}
  <2>1. s \ {x} \in SUBSET Cells
    BY <1>2
  <2>2. g[p].child \in (s \ {x}) \cup {NULL}
    BY <1>1, <1>2, <1>3
  <2>3. \A y \in s \ {x} : g[y].next \in (s \ {x}) \cup {NULL}
    BY <1>1, <1>2, <1>3
  <2> QED
    BY <2>1, <2>2, <2>3, ListLeast DEF t
<1>9. x # first => h[x].prev \in t
  <2> SUFFICES ASSUME x # first, h[x].prev \notin t PROVE FALSE
    OBVIOUS
  <2>1. h[p].child \in t \cup {NULL}
    BY <1>3, <1>5
  <2>2. \A y \in t : h[y].next \in t \cup {NULL}
    BY <1>1, <1>2, <1>3, <1>5, <1>8
  <2>3. s \subseteq t
    BY <1>5, <2>1, <2>2, ListLeast DEF s
  <2> QED
    BY <1>7, <2>3
<1>10. s \subseteq t \cup {x}
  <2>1. t \cup {x} \in SUBSET Cells
    BY <1>1, <1>2, <1>5
  <2>2. h[p].child \in (t \cup {x}) \cup {NULL}
    BY <1>3, <1>5
  <2>3. next \in t \cup {NULL}
    <3>1. CASE x = first
      BY <1>3, <1>5, <3>1
    <3>2. CASE x # first
      <4>1. g[h[x].prev].next = next
        BY <1>3, <1>7, <3>2
      <4> QED
        BY <1>5, <1>9, <3>2, <4>1
    <3> QED
      BY <3>1, <3>2
  <2>4. \A y \in t \cup {x} : h[y].next \in (t \cup {x}) \cup {NULL}
    BY <1>3, <1>5, <1>8, <2>3
  <2> QED
    BY <2>1, <2>2, <2>4, ListLeast DEF s
<1>11. t = s \ {x}
  BY <1>8, <1>10
<1>12. Linked(g, p)
  <2>1. ASSUME NEW y \in t, g[y].next # NULL PROVE g[g[y].next].prev = y
    <3>1. CASE h[y].next = x
      <4>1. g[y].next = next /\ y = h[x].prev /\ x # first
        BY <1>1, <1>2, <1>3, <1>7, <1>11, <3>1
      <4> QED
        BY <1>4, <2>1, <4>1
    <3>2. CASE h[y].next # x
      <4>1. y \in s /\ y # x /\ g[y].next = h[y].next
        BY <1>3, <1>11, <3>2
      <4>2. h[y].next \in s /\ h[h[y].next].prev = y
        BY <1>2, <2>1, <4>1
      <4>3. h[y].next # next
        BY <1>1, <1>2, <2>1, <4>1, <4>2
      <4>4. h[y].next # start
        BY <1>2, <1>7, <4>1, <4>3
      <4> QED
        BY <1>4, <3>2, <4>1, <4>2, <4>3, <4>4
    <3> QED
      BY <3>1, <3>2
  <2>2. ASSUME start # NULL
        PROVE  g[start].prev \in t /\ g[g[start].prev].next = NULL
    <3>1. CASE next = NULL
      <4>1. x # first
        BY <2>2, <3>1
      <4>2. g[start].prev = h[x].prev /\ g[h[x].prev].next = NULL
        BY <1>3, <1>4, <1>7, <2>2, <3>1, <4>1
      <4> QED
        BY <1>9, <4>1, <4>2
    <3>2. CASE next # NULL
      <4>1. h[first].prev \in s \ {x} /\ h[h[first].prev].next = NULL
        BY <1>2, <1>7, <3>2
      <4>2. g[h[first].prev].next = NULL
        BY <1>1, <1>3, <4>1
      <4> QED
        BY <1>4, <1>11, <2>2, <3>2, <4>1, <4>2
    <3> QED
      BY <3>1, <3>2
  <2> QED
    BY <1>3, <1>6, <1>11, <2>1, <2>2 DEF Linked, t
<1>13. InOrder(h, g, p)
  <2> SUFFICES ASSUME NEW y \in s \cap t, NEW v \in s \cap t, v \in Behind(h, y)
               PROVE  v \in Behind(g, y)
    BY DEF InOrder, s, t
  <2> DEFINE B == Behind(g, y)
             C == IF x # first /\ (y = h[x].prev \/ h[x].prev \in B) THEN B \cup {x} ELSE B
  <2>1. B \in SUBSET Cells /\ g[y].next \in B \cup {NULL} /\ \A b \in B : g[b].next \in B \cup {NULL}
    <3>1. y \in Cells /\ g[y].next \in Links
      BY <1>1, <1>5 DEF Heaps, Items
    <3> QED
      BY <1>1, <3>1, ReachShut DEF Behind, Shut
  <2>2. B \subseteq t
    <3>1. g[y].next \in t \cup {NULL}
      BY <1>5
    <3>2. Shut(g, g[y].next, {}, t)
      BY <1>5, <3>1 DEF Shut
    <3> QED
      BY <1>5, <3>2, ReachLeast DEF Behind
  <2> HIDE DEF B
  <2>3. C \in SUBSET Cells
    BY <1>1, <1>2, <2>1
  <2>4. ASSUME NEW b \in B \cup {y} PROVE h[b].next \in C \cup {NULL}
    <3>1. b \in s \ {x} /\ g[b].next \in B \cup {NULL}
      BY <1>11, <2>1, <2>2
    <3>2. CASE h[b].next # x
      BY <1>3, <2>1, <3>1, <3>2
    <3>3. CASE h[b].next = x
      BY <1>1, <1>2, <3>1, <3>3
    <3> QED
      BY <3>2, <3>3
  <2>5. x \in C => h[x].next \in C \cup {NULL}
    <3> SUFFICES ASSUME x \in C PROVE h[x].next \in B \cup {NULL}
      OBVIOUS
    <3>1. h[x].prev \in B \cup {y} /\ x # first
      BY <1>11, <2>2
    <3>2. g[h[x].prev].next = next
      BY <1>3, <1>7, <3>1
    <3> QED
      BY <2>1, <3>1, <3>2
  <2>6. Behind(h, y) \subseteq C
    <3>1. Shut(h, h[y].next, {}, C)
      BY <2>4, <2>5 DEF Shut
    <3> QED
      BY <2>3, <3>1, ReachLeast DEF Behind
  <2>7. v # x
    BY <1>11
  <2> QED
    BY <2>6, <2>7 DEF B
<1> QED
  BY <1>11, <1>12, <1>13 DEF Becomes, s, t

\* c takes the place of x in the list of p.
Exchanged(h, g, p, x, c) ==
    LET s == Children(h, p)
        first == h[p].child
        start == IF x = first THEN c ELSE first
    IN  /\ Rearranged(h, g, p, c)
        /\ p \in Cells /\ x \in s /\ c \in Cells \ s /\ h[c].live
        /\ g[p].child = start
        /\ g[x].next = NULL
        /\ g[c].next = h[x].next
        /\ \A y \in s \ {x} : /\ h[y].next = x => g[y].next = c
                              /\ h[y].next # x => g[y].next = h[y].next
        /\ x # first => g[c].prev = h[x].prev
        /\ h[x].next # NULL => g[h[x].next].prev = c
        /\ g[start].prev = IF h[x].next = NULL THEN c ELSE h[first].prev
        /\ \A y \in s \ {x, h[x].next, start} : g[y].prev = h[y].prev

\* An item is replaced by another, and nothing else is missing.
LEMMA Exchange ==
    ASSUME NEW h, NEW g, NEW p, NEW x, NEW c, Exchanged(h, g, p, x, c), Chain(h, p)
    PROVE  Becomes(h, g, p, (Children(h, p) \ {x}) \cup {c})
<1> DEFINE s == Children(h, p)
           t == Children(g, p)
           first == h[p].child
           next == h[x].next
           start == IF x = first THEN c ELSE first
<1>1. /\ h \in Heaps /\ g \in Heaps /\ p \in Cells /\ x \in s /\ x # NULL
      /\ c \in Cells \ s /\ c # NULL
  BY TreeAssumption DEF Exchanged, Rearranged, Chain
<1>2. /\ s \in SUBSET Cells /\ first \in s \cup {NULL} /\ (first = NULL => s = {})
      /\ \A y \in s : /\ h[y].next \in s \cup {NULL} /\ h[y].next # y /\ y # NULL
                      /\ h[y].next # NULL => h[h[y].next].prev = y
                      /\ h[y].next # first \/ first = NULL
                      /\ y # first => h[y].prev \in s /\ h[h[y].prev].next = y
      /\ first # NULL => h[first].prev \in s /\ h[h[first].prev].next = NULL
  BY TreeAssumption DEF Chain
<1>3. /\ g[p].child = start
      /\ g[x].next = NULL
      /\ g[c].next = next
      /\ \A y \in s \ {x} : /\ h[y].next = x => g[y].next = c
                            /\ h[y].next # x => g[y].next = h[y].next
  BY DEF Exchanged
<1>4. /\ x # first => g[c].prev = h[x].prev
      /\ next # NULL => g[next].prev = c
      /\ g[start].prev = IF next = NULL THEN c ELSE h[first].prev
      /\ \A y \in s \ {x, next, start} : g[y].prev = h[y].prev
  BY DEF Exchanged
<1>5. t \in SUBSET Cells /\ g[p].child \in t \cup {NULL} /\ \A y \in t : g[y].next \in t \cup {NULL}
  BY <1>1, ListShut
<1>6. \A y \in s \cup {c} : h[y].live /\ g[y].live
  BY <1>1 DEF Exchanged, Rearranged, Alike, Chain
<1>7. first # NULL /\ (x # first => h[x].prev \in s \ {x} /\ h[h[x].prev].next = x)
  BY <1>1, <1>2
<1> HIDE DEF s, t
<1>8. t \subseteq (s \ {x}) \cup {c}
  <2> DEFINE S == (s \ {x}) \cup {c}
  <2>1. S \in SUBSET Cells
    BY <1>1, <1>2
  <2>2. g[p].child \in S \cup {NULL}
    BY <1>1, <1>2, <1>3
  <2>3. \A y \in S : g[y].next \in S \cup {NULL}
    BY <1>1, <1>2, <1>3
  <2> HIDE DEF S
  <2>4. t \subseteq S
    BY <2>1, <2>2, <2>3, ListLeast DEF t
  <2> QED
    BY <2>4 DEF S
<1>9. c \in t
  <2> SUFFICES ASSUME c \notin t PROVE FALSE
    OBVIOUS
  <2>1. x # first /\ h[p].child \in t \cup {NULL}
    BY <1>1, <1>3, <1>5
  <2>2. \A y \in t : h[y].next \in t \cup {NULL}
    BY <1>1, <1>2, <1>3, <1>5, <1>8
  <2>3. s \subseteq t
    BY <1>5, <2>1, <2>2, ListLeast DEF s
  <2> QED
    BY <1>1, <1>8, <2>3
<1>10. s \subseteq t \cup {x}
  <2> DEFINE S == (t \ {c}) \cup {x}
  <2>1. S \in SUBSET Cells
    BY <1>1, <1>2, <1>5
  <2>2. h[p].child \in S \cup {NULL}
    BY <1>1, <1>2, <1>3, <1>5
  <2>3. next \in S \cup {NULL}
    BY <1>1, <1>2, <1>3, <1>5, <1>9
  <2>4. \A y \in S : h[y].next \in S \cup {NULL}
    BY <1>1, <1>2, <1>3, <1>5, <1>8, <2>3
  <2> HIDE DEF S
  <2>5. s \subseteq S
    BY <2>1, <2>2, <2>4, ListLeast DEF s
  <2> QED
    BY <2>5 DEF S
<1>11. t = (s \ {x}) \cup {c}
  BY <1>8, <1>9, <1>10
<1>12. Linked(g, p)
  <2>1. ASSUME NEW y \in t, g[y].next # NULL PROVE g[g[y].next].prev = y
    <3>1. CASE y = c
      BY <1>3, <1>4, <2>1, <3>1
    <3>2. CASE y # c /\ h[y].next = x
      <4>1. g[y].next = c /\ y = h[x].prev /\ x # first
        BY <1>1, <1>2, <1>3, <1>7, <1>11, <3>2
      <4> QED
        BY <1>4, <4>1
    <3>3. CASE y # c /\ h[y].next # x
      <4>1. y \in s /\ y # x /\ g[y].next = h[y].next
        BY <1>3, <1>11, <3>3
      <4>2. h[y].next \in s /\ h[h[y].next].prev = y
        BY <1>2, <2>1, <4>1
      <4>3. h[y].next # next
        BY <1>1, <1>2, <2>1, <4>1, <4>2
      <4>4. h[y].next # start
        BY <1>1, <1>2, <1>7, <4>1, <4>2
      <4> QED
        BY <1>4, <3>3, <4>1, <4>2, <4>3, <4>4
    <3> QED
      BY <3>1, <3>2, <3>3
  <2>2. g[start].prev \in t /\ g[g[start].prev].next = NULL
    <3>1. CASE next = NULL
      BY <1>3, <1>4, <1>9, <3>1
    <3>2. CASE next # NULL
      <4>1. h[first].prev \in s \ {x} /\ h[h[first].prev].next = NULL
        BY <1>2, <1>7, <3>2
      <4>2. g[h[first].prev].next = NULL
        BY <1>1, <1>3, <4>1
      <4> QED
        BY <1>4, <1>11, <3>2, <4>1, <4>2
    <3> QED
      BY <3>1, <3>2
  <2> QED
    BY <1>3, <1>6, <1>11, <2>1, <2>2 DEF Linked, t
<1>13. InOrder(h, g, p)
  <2> SUFFICES ASSUME NEW y \in s \cap t, NEW v \in s \cap t, v \in Behind(h, y)
               PROVE  v \in Behind(g, y)
    BY DEF InOrder, s, t
  <2> DEFINE B == Behind(g, y)
             C == IF c \in B THEN (B \ {c}) \cup {x} ELSE B
  <2>1. B \in SUBSET Cells /\ g[y].next \in B \cup {NULL} /\ \A b \in B : g[b].next \in B \cup {NULL}
    <3>1. y \in Cells /\ g[y].next \in Links
      BY <1>1, <1>5 DEF Heaps, Items
    <3> QED
      BY <1>1, <3>1, ReachShut DEF Behind, Shut
  <2>2. B \subseteq t
    <3>1. g[y].next \in t \cup {NULL}
      BY <1>5
    <3>2. Shut(g, g[y].next, {}, t)
      BY <1>5, <3>1 DEF Shut
    <3> QED
      BY <1>5, <3>2, ReachLeast DEF Behind
  <2> HIDE DEF B
  <2>3. C \in SUBSET Cells
    BY <1>1, <1>2, <2>1
  <2>4. ASSUME NEW b \in (B \ {c}) \cup {y} PROVE h[b].next \in C \cup {NULL}
    <3>1. b \in s \ {x} /\ g[b].next \in B \cup {NULL}
      BY <1>1, <1>11, <2>1, <2>2
    <3>2. CASE h[b].next # x
      <4>1. h[b].next # c
        BY <1>1, <1>2, <3>1
      <4> QED
        BY <1>3, <2>1, <3>1, <3>2, <4>1
    <3>3. CASE h[b].next = x
      BY <1>1, <1>3, <2>1, <3>1, <3>3
    <3> QED
      BY <3>2, <3>3
  <2>5. x \in C => h[x].next \in C \cup {NULL}
    <3>1. x \in C => c \in B
      BY <1>11, <2>2
    <3>2. h[x].next # c
      BY <1>1, <1>2
    <3> QED
      BY <1>3, <2>1, <3>1, <3>2
  <2>6. Behind(h, y) \subseteq C
    <3>1. Shut(h, h[y].next, {}, C)
      BY <2>4, <2>5 DEF Shut
    <3> QED
      BY <2>3, <3>1, ReachLeast DEF Behind
  <2>7. v # x
    BY <1>1, <1>11
  <2> QED
    BY <2>6, <2>7 DEF B
<1> QED
  BY <1>11, <1>12, <1>13 DEF Becomes, s, t

-----------------------------------------------------------------------------
(* What the functions of cJSON do to a list.                                *)

\* add_item_to_array puts an item behind the last.
LEMMA AddItemPuts ==
    ASSUME NEW h \in Heaps, NEW p \in Cells, NEW c \in Cells \ Children(h, p),
           Chain(h, p), h[c].live, h[c].next = NULL
    PROVE  Becomes(h, AddItem(h, p, c), p, Children(h, p) \cup {c})
           /\ Rearranged(h, AddItem(h, p, c), p, c)
<1> DEFINE s == Children(h, p)
           first == h[p].child
           last == h[first].prev
           g == AddItem(h, p, c)
<1>1. /\ s \in SUBSET Cells /\ first \in s \cup {NULL} /\ (first = NULL => s = {})
      /\ \A y \in s : h[y].next \in s \cup {NULL} /\ y # NULL
      /\ first # NULL => last \in s /\ h[last].next = NULL
  BY TreeAssumption DEF Chain
<1>2. c # NULL
  BY TreeAssumption
<1> HIDE DEF s
<1>3. CASE first = NULL
  <2> DEFINE h1 == SetChild(h, p, c)
             h2 == SetPrev(h1, c, c)
             h3 == SetNext(h2, c, NULL)
  <2>1. c \in Links /\ NULL \in Links
    BY DEF Links
  <2>2. ChildSet(h, h1, p, c)
    BY <2>1, LinkSet
  <2>3. PrevSet(h1, h2, c, c)
    BY <2>1, <2>2, LinkSet DEF ChildSet
  <2>4. NextSet(h2, h3, c, NULL)
    BY <2>1, <2>3, LinkSet DEF PrevSet
  <2>5. g = h3
    BY <1>3 DEF AddItem, SetChild, SetPrev, SetNext
  <2> HIDE DEF h1, h2, h3, g
  <2>6. /\ g \in Heaps /\ Alike(h, g)
        /\ \A y \in Cells : /\ g[y].child = IF y = p THEN c ELSE h[y].child
                            /\ g[y].prev = IF y = c THEN c ELSE h[y].prev
                            /\ g[y].next = IF y = c THEN NULL ELSE h[y].next
    BY <2>2, <2>3, <2>4, <2>5 DEF ChildSet, PrevSet, NextSet, Alike
  <2>7. Rearranged(h, g, p, c)
    BY <2>6 DEF Rearranged
  <2>8. PutBetween(h, g, p, c, NULL, NULL)
    BY <1>1, <1>3, <2>6, <2>7 DEF PutBetween, s
  <2> QED
    BY <2>7, <2>8, PutIn DEF g
<1>4. CASE first # NULL
  <2> DEFINE h1 == SetNext(h, last, c)
             h2 == SetPrev(h1, c, last)
             h3 == SetPrev(h2, first, c)
  <2>1. c \in Links /\ NULL \in Links /\ last \in Links /\ last \in Cells /\ first \in Cells
    BY <1>1, <1>4 DEF Links
  <2>2. NextSet(h, h1, last, c)
    BY <2>1, LinkSet
  <2>3. PrevSet(h1, h2, c, last)
    BY <2>1, <2>2, LinkSet DEF NextSet
  <2>4. PrevSet(h2, h3, first, c)
    <3>1. h2 \in Heaps
      BY <2>3 DEF PrevSet
    <3> QED
      BY <2>1, <3>1, LinkSet
  <2>5. g = h3
    <3>1. last # NULL
      BY <1>1, <1>4
    <3> QED
      BY <1>4, <3>1 DEF AddItem, SetPrev, SetNext
  <2> HIDE DEF h1, h2, h3, g
  <2>6. /\ g \in Heaps /\ Alike(h, g)
        /\ \A y \in Cells : /\ g[y].child = h[y].child
                            /\ g[y].prev = IF y = first THEN c ELSE IF y = c THEN last ELSE h[y].prev
                            /\ g[y].next = IF y = last THEN c ELSE h[y].next
    BY <2>2, <2>3, <2>4, <2>5 DEF PrevSet, NextSet, Alike
  <2>7. Rearranged(h, g, p, c)
    BY <1>1, <1>4, <2>6 DEF Rearranged, s
  <2>8. PutBetween(h, g, p, c, last, NULL)
    <3>1. last \in s /\ c \notin s /\ s \in SUBSET Cells /\ last # NULL /\ last # c /\ first # c
      BY <1>1, <1>4 DEF s
    <3>2. NULL = IF last = NULL THEN first ELSE h[last].next
      BY <1>1, <1>4, <3>1
    <3>3. g[p].child = first /\ g[c].next = NULL /\ g[c].prev = last /\ g[first].prev = c
      BY <2>1, <2>6, <3>1
    <3>4. \A y \in s : /\ g[y].next = IF y = last THEN c ELSE h[y].next
                       /\ y # first => g[y].prev = h[y].prev
      BY <2>6, <3>1
    <3> QED
      BY <2>7, <3>1, <3>2, <3>3, <3>4 DEF PutBetween, s
  <2> QED
    BY <2>7, <2>8, PutIn DEF g
<1> QED
  BY <1>3, <1>4

\* cJSON_InsertItemInArray puts an item before another.
LEMMA InsertItemPuts ==
    ASSUME NEW h \in Heaps, NEW p \in Cells, NEW x \in Children(h, p),
           NEW c \in Cells \ Children(h, p), Chain(h, p), h[c].live
    PROVE  Becomes(h, InsertItem(h, p, x, c), p, Children(h, p) \cup {c})
           /\ Rearranged(h, InsertItem(h, p, x, c), p, c)
<1> DEFINE s == Children(h, p)
           first == h[p].child
           before == h[x].prev
           g == InsertItem(h, p, x, c)
           h1 == SetNext(h, c, x)
           h2 == SetPrev(h1, c, before)
           h3 == SetPrev(h2, x, c)
<1>1. /\ s \in SUBSET Cells /\ first \in s /\ x \in s /\ x # NULL /\ x \in Cells
      /\ before \in s /\ (x # first => h[before].next = x /\ before # x)
      /\ \A y \in s : y # NULL
  BY TreeAssumption DEF Chain
<1>2. c # NULL /\ c \in Links /\ x \in Links /\ before \in Links /\ c # x /\ c # first
  BY <1>1, TreeAssumption DEF Links
<1> HIDE DEF s
<1>3. NextSet(h, h1, c, x)
  BY <1>2, LinkSet
<1>4. PrevSet(h1, h2, c, before)
  BY <1>2, <1>3, LinkSet DEF NextSet
<1>5. PrevSet(h2, h3, x, c)
  <2>1. h2 \in Heaps
    BY <1>4 DEF PrevSet
  <2> QED
    BY <1>1, <1>2, <2>1, LinkSet
<1>6. [h EXCEPT ![c].next = x, ![c].prev = h[x].prev, ![x].prev = c] = h3
  BY DEF SetNext, SetPrev
<1> HIDE DEF h1, h2, h3
<1>7. /\ h3 \in Heaps /\ Alike(h, h3)
      /\ \A y \in Cells : /\ h3[y].child = h[y].child
                          /\ h3[y].prev = IF y = x THEN c ELSE IF y = c THEN before ELSE h[y].prev
                          /\ h3[y].next = IF y = c THEN x ELSE h[y].next
  BY <1>3, <1>4, <1>5 DEF PrevSet, NextSet, Alike
<1>8. g = IF x = first THEN SetChild(h3, p, c) ELSE SetNext(h3, h3[c].prev, c)
  <2>1. h3[p].child = first
    BY <1>7
  <2> DEFINE a == [h EXCEPT ![c].next = x, ![c].prev = h[x].prev, ![x].prev = c]
  <2>2. g = IF x = a[p].child THEN [a EXCEPT ![p].child = c]
            ELSE [a EXCEPT ![a[c].prev].next = c]
    BY DEF InsertItem
  <2>3. a = h3
    BY <1>6
  <2> HIDE DEF a, g
  <2> QED
    BY <2>1, <2>2, <2>3 DEF SetChild, SetNext
<1> HIDE DEF g
<1>9. CASE x = first
  <2>1. ChildSet(h3, g, p, c)
    BY <1>2, <1>7, <1>8, <1>9, LinkSet
  <2>2. /\ g \in Heaps /\ Alike(h, g)
        /\ \A y \in Cells : /\ g[y].child = IF y = p THEN c ELSE h[y].child
                            /\ g[y].prev = h3[y].prev /\ g[y].next = h3[y].next
    BY <1>7, <2>1 DEF ChildSet, Alike
  <2>3. Rearranged(h, g, p, c)
    BY <1>1, <1>7, <2>2 DEF Rearranged, s
  <2>4. PutBetween(h, g, p, c, NULL, x)
    <3>1. c \in Cells \ s /\ s \in SUBSET Cells
      BY <1>1 DEF s
    <3>2. g[p].child = c /\ g[c].next = x /\ g[c].prev = h[first].prev /\ g[x].prev = c
      BY <1>1, <1>2, <1>7, <1>9, <2>2
    <3>3. \A y \in s : g[y].next = h[y].next /\ (y # x => g[y].prev = h[y].prev) /\ y # NULL
      BY <1>1, <1>7, <2>2, <3>1
    <3> QED
      BY <1>1, <1>9, <2>3, <3>1, <3>2, <3>3 DEF PutBetween, s
  <2> QED
    BY <2>3, <2>4, PutIn DEF g
<1>10. CASE x # first
  <2>1. NextSet(h3, g, before, c)
    <3>1. h3[c].prev = before /\ before \in Cells
      BY <1>1, <1>2, <1>7
    <3> QED
      BY <1>2, <1>7, <1>8, <1>10, <3>1, LinkSet
  <2>2. /\ g \in Heaps /\ Alike(h, g)
        /\ \A y \in Cells : /\ g[y].child = h[y].child
                            /\ g[y].prev = h3[y].prev
                            /\ g[y].next = IF y = before THEN c ELSE h3[y].next
    BY <1>7, <2>1 DEF NextSet, Alike
  <2>3. Rearranged(h, g, p, c)
    BY <1>1, <1>7, <2>2 DEF Rearranged, s
  <2>4. PutBetween(h, g, p, c, before, x)
    <3>1. c \in Cells \ s /\ s \in SUBSET Cells /\ before \in s /\ before # NULL /\ before # c
      BY <1>1 DEF s
    <3>2. /\ g[p].child = first /\ g[c].next = x /\ g[c].prev = before /\ g[x].prev = c
          /\ x = h[before].next
      BY <1>1, <1>2, <1>7, <1>10, <2>2, <3>1
    <3>3. \A y \in s : /\ g[y].next = IF y = before THEN c ELSE h[y].next
                       /\ y # x => g[y].prev = h[y].prev
      BY <1>1, <1>7, <2>2, <3>1
    <3>4. g[first].prev = h[first].prev
      BY <1>1, <1>10, <3>3
    <3> QED
      BY <1>1, <1>10, <2>3, <3>1, <3>2, <3>3, <3>4 DEF PutBetween, s
  <2> QED
    BY <2>3, <2>4, PutIn DEF g
<1> QED
  BY <1>9, <1>10

\* One link is set, or none.
LEMMA LinkSetIf ==
    ASSUME NEW h \in Heaps, NEW x, NEW v \in Links, NEW b \in BOOLEAN, b => x \in Cells
    PROVE  /\ NextSet(h, IF b THEN SetNext(h, x, v) ELSE h, IF b THEN x ELSE NULL, v)
           /\ PrevSet(h, IF b THEN SetPrev(h, x, v) ELSE h, IF b THEN x ELSE NULL, v)
           /\ ChildSet(h, IF b THEN SetChild(h, x, v) ELSE h, IF b THEN x ELSE NULL, v)
<1>1. CASE b
  BY <1>1, LinkSet
<1>2. CASE ~b
  BY <1>2, TreeAssumption DEF NextSet, PrevSet, ChildSet, Alike
<1> QED
  BY <1>1, <1>2

\* cJSON_DetachItemViaPointer takes an item out of its list.
LEMMA DetachItemTakes ==
    ASSUME NEW h \in Heaps, NEW p \in Cells, NEW c \in Children(h, p), Chain(h, p)
    PROVE  Becomes(h, DetachItem(h, p, c), p, Children(h, p) \ {c})
           /\ Rearranged(h, DetachItem(h, p, c), p, c)
           /\ DetachItem(h, p, c)[c].next = NULL
<1> DEFINE s == Children(h, p)
           first == h[p].child
           next == h[c].next
           before == h[c].prev
           start == IF c = first THEN next ELSE first
           g == DetachItem(h, p, c)
           h1 == IF c # first THEN SetNext(h, before, next) ELSE h
           h2 == IF next # NULL THEN SetPrev(h1, next, before) ELSE h1
           h3 == IF c = first THEN SetChild(h2, p, next) ELSE h2
           h4 == IF c # first /\ next = NULL THEN SetPrev(h3, first, before) ELSE h3
           h5 == SetNext(SetPrev(h4, c, NULL), c, NULL)
<1>1. /\ s \in SUBSET Cells /\ first \in s /\ c \in s /\ c # NULL /\ c \in Cells
      /\ before \in s /\ (c # first => h[before].next = c /\ before # c)
      /\ next \in s \cup {NULL} /\ next # c /\ (next # NULL => h[next].prev = c)
      /\ next # first
      /\ \A y \in s : y # NULL /\ (h[y].next = c => before = y) /\ h[y].next # first
  BY TreeAssumption DEF Chain
<1>2. next \in Links /\ before \in Links /\ NULL \in Links
  BY <1>1 DEF Links
<1> HIDE DEF s
<1>3. NextSet(h, h1, IF c # first THEN before ELSE NULL, next)
  <2>1. before \in Cells /\ (c # first) \in BOOLEAN
    BY <1>1
  <2> HIDE DEF first, next, before
  <2> QED
    BY <1>2, <2>1, LinkSetIf
<1> HIDE DEF h1
<1>4. PrevSet(h1, h2, IF next # NULL THEN next ELSE NULL, before)
  <2>1. (next # NULL) \in BOOLEAN /\ (next # NULL => next \in Cells) /\ h1 \in Heaps
    BY <1>1, <1>3 DEF NextSet
  <2> HIDE DEF first, next, before
  <2> QED
    BY <1>2, <2>1, LinkSetIf
<1> HIDE DEF h2
<1>5. ChildSet(h2, h3, IF c = first THEN p ELSE NULL, next)
  <2>1. (c = first) \in BOOLEAN /\ h2 \in Heaps
    BY <1>4 DEF PrevSet
  <2> HIDE DEF first, next, before
  <2> QED
    BY <1>2, <2>1, LinkSetIf
<1> HIDE DEF h3
<1>6. PrevSet(h3, h4, IF c # first /\ next = NULL THEN first ELSE NULL, before)
  <2>1. (c # first /\ next = NULL) \in BOOLEAN /\ h3 \in Heaps /\ first \in Cells
    BY <1>1, <1>5 DEF ChildSet
  <2> HIDE DEF first, next, before
  <2> QED
    BY <1>2, <2>1, LinkSetIf
<1> HIDE DEF h4
<1>7. PrevSet(h4, SetPrev(h4, c, NULL), c, NULL)
  <2>1. h4 \in Heaps
    BY <1>6 DEF PrevSet
  <2> QED
    BY <1>1, <1>2, <2>1, LinkSet
<1>8. NextSet(SetPrev(h4, c, NULL), h5, c, NULL)
  <2>1. SetPrev(h4, c, NULL) \in Heaps
    BY <1>7 DEF PrevSet
  <2> QED
    BY <1>1, <1>2, <2>1, LinkSet
<1>9. /\ h5 \in Heaps /\ Alike(h, h5)
      /\ h2[p].child = first /\ h1[c].prev = before /\ h3[c].prev = before
      /\ h3 = h2 \/ c = first
      /\ \A y \in Cells :
            /\ h5[y].child = IF c = first /\ y = p THEN next ELSE h[y].child
            /\ h5[y].next = IF y = c THEN NULL
                            ELSE IF c # first /\ y = before THEN next ELSE h[y].next
            /\ h5[y].prev = IF y = c THEN NULL
                            ELSE IF c # first /\ next = NULL /\ y = first THEN before
                            ELSE IF next # NULL /\ y = next THEN before ELSE h[y].prev
  <2>1. NULL \notin Cells
    BY TreeAssumption
  <2>2. h3 = h2 \/ c = first
    BY DEF h3
  <2>3. /\ h1 \in Heaps /\ Alike(h, h1)
        /\ \A y \in Cells : /\ h1[y].child = h[y].child /\ h1[y].prev = h[y].prev
                            /\ h1[y].next = IF c # first /\ y = before THEN next ELSE h[y].next
    BY <1>3, <2>1 DEF NextSet
  <2>4. /\ h2 \in Heaps /\ Alike(h, h2)
        /\ \A y \in Cells : /\ h2[y].child = h[y].child /\ h2[y].next = h1[y].next
                            /\ h2[y].prev = IF next # NULL /\ y = next THEN before ELSE h[y].prev
    BY <1>4, <2>1, <2>3 DEF PrevSet, Alike
  <2>5. /\ h3 \in Heaps /\ Alike(h, h3)
        /\ \A y \in Cells : /\ h3[y].next = h1[y].next /\ h3[y].prev = h2[y].prev
                            /\ h3[y].child = IF c = first /\ y = p THEN next ELSE h[y].child
    BY <1>5, <2>1, <2>4 DEF ChildSet, Alike
  <2>6. /\ h4 \in Heaps /\ Alike(h, h4)
        /\ \A y \in Cells : /\ h4[y].next = h1[y].next /\ h4[y].child = h3[y].child
                            /\ h4[y].prev = IF c # first /\ next = NULL /\ y = first THEN before
                                            ELSE h2[y].prev
    BY <1>6, <2>1, <2>5 DEF PrevSet, Alike
  <2>7. /\ h5 \in Heaps /\ Alike(h, h5)
        /\ \A y \in Cells : /\ h5[y].child = h3[y].child
                            /\ h5[y].next = IF y = c THEN NULL ELSE h1[y].next
                            /\ h5[y].prev = IF y = c THEN NULL ELSE h4[y].prev
    BY <1>7, <1>8, <2>6 DEF PrevSet, NextSet, Alike
  <2>8. h1[c].prev = before /\ h2[c].prev = before /\ h3[c].prev = before /\ h2[p].child = first
    BY <1>1, <2>3, <2>4, <2>5
  <2> QED
    BY <2>2, <2>3, <2>4, <2>5, <2>6, <2>7, <2>8
<1>10. g = h5
  <2> DEFINE a == IF c # h[p].child THEN [h EXCEPT ![h[c].prev].next = next] ELSE h
             b == IF next # NULL THEN [a EXCEPT ![next].prev = a[c].prev] ELSE a
             d == IF c = b[p].child THEN [b EXCEPT ![p].child = next]
                  ELSE IF next = NULL THEN [b EXCEPT ![b[p].child].prev = b[c].prev]
                  ELSE b
  <2>1. g = [d EXCEPT ![c].prev = NULL, ![c].next = NULL]
    BY DEF DetachItem
  <2>2. a = h1
    BY DEF SetNext, h1
  <2> HIDE DEF a
  <2>3. b = h2
    BY <1>9, <2>2 DEF SetPrev, h2
  <2> HIDE DEF b
  <2>4. d = h4
    BY <1>9, <2>3 DEF SetPrev, SetChild, h3, h4
  <2> HIDE DEF d
  <2> QED
    BY <2>1, <2>4 DEF SetPrev, SetNext
<1> HIDE DEF g, h5
<1>11. Rearranged(h, g, p, c)
  <2>1. \A y \in Cells : y \notin s \cup {c} => g[y].next = h[y].next /\ g[y].prev = h[y].prev
    BY <1>1, <1>9, <1>10
  <2>2. \A y \in Cells : y # p => g[y].child = h[y].child
    BY <1>9, <1>10
  <2> QED
    BY <1>9, <1>10, <2>1, <2>2 DEF Rearranged, s
<1>12. TakenOut(h, g, p, c)
  <2>1. g[p].child = start /\ g[c].next = NULL
    BY <1>1, <1>9, <1>10
  <2>2. ASSUME NEW y \in s \ {c}
        PROVE  /\ h[y].next = c => g[y].next = next
               /\ h[y].next # c => g[y].next = h[y].next
    BY <1>1, <1>9, <1>10
  <2>3. c # first /\ next # NULL => g[next].prev = before
    BY <1>1, <1>9, <1>10
  <2>4. start # NULL => g[start].prev = IF next = NULL THEN before ELSE h[first].prev
    BY <1>1, <1>9, <1>10
  <2>5. \A y \in s \ {c, next, start} : g[y].prev = h[y].prev
    BY <1>1, <1>9, <1>10
  <2> QED
    BY <1>1, <1>11, <2>1, <2>2, <2>3, <2>4, <2>5 DEF TakenOut, s
<1>13. g[c].next = NULL
  BY <1>1, <1>9, <1>10
<1>14. Becomes(h, g, p, Children(h, p) \ {c})
  BY <1>12, TakeOut
<1> QED
  BY <1>11, <1>13, <1>14 DEF g

\* Of a list whose first item has no next, that is all.
LEMMA OnlyOne ==
    ASSUME NEW h \in Heaps, NEW p \in Cells, Chain(h, p), h[p].child # NULL,
           h[h[p].child].next = NULL
    PROVE  h[h[p].child].prev = h[p].child
<1> DEFINE first == h[p].child
<1>1. first \in Cells /\ h[first].prev \in Children(h, p)
  BY DEF Chain
<1>2. Children(h, p) \subseteq {first}
  <2> DEFINE S == {first}
  <2>1. S \in SUBSET Cells /\ first \in S \cup {NULL} /\ \A y \in S : h[y].next \in S \cup {NULL}
    BY <1>1
  <2> HIDE DEF S
  <2>2. Children(h, p) \subseteq S
    BY <2>1, ListLeast
  <2> QED
    BY <2>2 DEF S
<1> QED
  BY <1>1, <1>2

\* An item whose link is set to what it was is the same.
LEMMA ItemKept ==
    ASSUME NEW i \in Items
    PROVE  [i EXCEPT !.next = i.next] = i /\ [i EXCEPT !.prev = i.prev] = i
  BY DEF Items

\* Two of its links are set one by one.
LEMMA TwoLinks ==
    ASSUME NEW i \in Items, NEW v, NEW b, NEW d
    PROVE  [i EXCEPT !.next = IF b THEN v ELSE @, !.prev = IF d THEN v ELSE @]
               = LET j == IF b THEN [i EXCEPT !.next = v] ELSE i
                 IN  IF d THEN [j EXCEPT !.prev = v] ELSE j
<1>1. CASE b /\ d
  BY <1>1
<1>2. CASE b /\ ~d
  BY <1>2 DEF Items
<1>3. CASE ~b /\ d
  BY <1>3, ItemKept
<1>4. CASE ~b /\ ~d
  BY <1>4 DEF Items
<1> QED
  BY <1>1, <1>2, <1>3, <1>4

\* cJSON_ReplaceItemViaPointer puts an item in the place of another.
LEMMA ReplaceItemPuts ==
    ASSUME NEW h \in Heaps, NEW p \in Cells, NEW x \in Children(h, p),
           NEW c \in Cells \ Children(h, p), Chain(h, p), h[c].live
    PROVE  Becomes(h, ReplaceItem(h, p, x, c), p, (Children(h, p) \ {x}) \cup {c})
           /\ Rearranged(h, ReplaceItem(h, p, x, c), p, c)
           /\ ReplaceItem(h, p, x, c)[x].next = NULL
<1> DEFINE s == Children(h, p)
           first == h[p].child
           next == h[x].next
           before == h[x].prev
           start == IF x = first THEN c ELSE first
           g == ReplaceItem(h, p, x, c)
           h0 == SetNext(h, c, next)
           h1 == SetPrev(h0, c, before)
           h2 == IF next # NULL THEN SetPrev(h1, next, c) ELSE h1
           alone == x = first /\ before = x
           h3 == IF alone THEN SetPrev(h2, c, c) ELSE h2
           h4 == IF x = first THEN SetChild(h3, p, c) ELSE h3
           h5 == IF x # first THEN SetNext(h4, before, c) ELSE h4
           last == x # first /\ next = NULL
           h6 == IF last THEN SetPrev(h5, first, c) ELSE h5
           h7 == SetNext(SetPrev(h6, x, NULL), x, NULL)
<1>1. /\ s \in SUBSET Cells /\ first \in s /\ x \in s /\ x # NULL /\ x \in Cells
      /\ before \in s /\ (x # first => h[before].next = x /\ before # x)
      /\ next \in s \cup {NULL} /\ next # x /\ (next # NULL => h[next].prev = x)
      /\ next # first
      /\ \A y \in s : y # NULL /\ (h[y].next = x => before = y) /\ h[y].next # first
      /\ x = first => h[before].next = NULL
  BY TreeAssumption DEF Chain
<1>2. /\ next \in Links /\ before \in Links /\ NULL \in Links /\ c \in Links
      /\ c \notin s /\ c # NULL
  BY <1>1, TreeAssumption DEF Links
<1>3. x = first => (next = NULL <=> before = x)
  <2>1. x = first /\ next = NULL => before = x
    BY <1>1, OnlyOne
  <2> QED
    BY <1>1, <2>1
<1> HIDE DEF s
<1>4. NextSet(h, h0, c, next)
  BY <1>2, LinkSet
<1>5. PrevSet(h0, h1, c, before)
  <2>1. h0 \in Heaps
    BY <1>4 DEF NextSet
  <2> QED
    BY <1>2, <2>1, LinkSet
<1> HIDE DEF h1
<1>6. PrevSet(h1, h2, IF next # NULL THEN next ELSE NULL, c)
  <2>1. (next # NULL) \in BOOLEAN /\ (next # NULL => next \in Cells) /\ h1 \in Heaps
    BY <1>1, <1>5 DEF PrevSet
  <2> HIDE DEF first, next, before
  <2> QED
    BY <1>2, <2>1, LinkSetIf
<1> HIDE DEF h2
<1>7. PrevSet(h2, h3, IF alone THEN c ELSE NULL, c)
  <2>1. alone \in BOOLEAN /\ h2 \in Heaps
    BY <1>6 DEF PrevSet
  <2> HIDE DEF alone
  <2> QED
    BY <1>2, <2>1, LinkSetIf
<1> HIDE DEF h3
<1>8. ChildSet(h3, h4, IF x = first THEN p ELSE NULL, c)
  <2>1. (x = first) \in BOOLEAN /\ h3 \in Heaps
    BY <1>7 DEF PrevSet
  <2> HIDE DEF first
  <2> QED
    BY <1>2, <2>1, LinkSetIf
<1> HIDE DEF h4
<1>9. NextSet(h4, h5, IF x # first THEN before ELSE NULL, c)
  <2>1. (x # first) \in BOOLEAN /\ h4 \in Heaps /\ before \in Cells
    BY <1>1, <1>8 DEF ChildSet
  <2> HIDE DEF first, before
  <2> QED
    BY <1>2, <2>1, LinkSetIf
<1> HIDE DEF h5
<1>10. PrevSet(h5, h6, IF last THEN first ELSE NULL, c)
  <2>1. last \in BOOLEAN /\ h5 \in Heaps /\ first \in Cells
    BY <1>1, <1>9 DEF NextSet
  <2> HIDE DEF last, first
  <2> QED
    BY <1>2, <2>1, LinkSetIf
<1> HIDE DEF h6
<1>11. PrevSet(h6, SetPrev(h6, x, NULL), x, NULL)
  <2>1. h6 \in Heaps
    BY <1>10 DEF PrevSet
  <2> QED
    BY <1>1, <1>2, <2>1, LinkSet
<1>12. NextSet(SetPrev(h6, x, NULL), h7, x, NULL)
  <2>1. SetPrev(h6, x, NULL) \in Heaps
    BY <1>11 DEF PrevSet
  <2> QED
    BY <1>1, <1>2, <2>1, LinkSet
<1>13. /\ h1[c].next = next /\ h2[p].child = first /\ h2[x].prev = before
       /\ h2[c].prev = before /\ h2[c].next = next
       /\ h2 \in Heaps /\ h6 \in Heaps /\ Alike(h2, h6)
       /\ \A y \in Cells :
             /\ h6[y].child = IF x = first /\ y = p THEN c ELSE h2[y].child
             /\ h6[y].next = IF x # first /\ y = before THEN c ELSE h2[y].next
             /\ h6[y].prev = IF (last /\ y = first) \/ (alone /\ y = c) THEN c ELSE h2[y].prev
       /\ h7 \in Heaps /\ Alike(h, h7)
       /\ \A y \in Cells :
             /\ h7[y].child = IF x = first /\ y = p THEN c ELSE h[y].child
             /\ h7[y].next = IF y = x THEN NULL ELSE IF x # first /\ y = before THEN c
                             ELSE IF y = c THEN next ELSE h[y].next
             /\ h7[y].prev = IF y = x THEN NULL ELSE IF last /\ y = first THEN c
                             ELSE IF next # NULL /\ y = next THEN c
                             ELSE IF y = c THEN (IF alone THEN c ELSE before) ELSE h[y].prev
  <2>1. NULL \notin Cells
    BY TreeAssumption
  <2>2. next # c /\ before # c /\ first # c /\ before \in Cells /\ first \in Cells
    BY <1>1, <1>2
  <2> HIDE DEF alone, last
  <2>3. /\ h1 \in Heaps /\ Alike(h, h1)
        /\ \A y \in Cells : /\ h1[y].child = h[y].child
                            /\ h1[y].prev = IF y = c THEN before ELSE h[y].prev
                            /\ h1[y].next = IF y = c THEN next ELSE h[y].next
    BY <1>4, <1>5, <2>1 DEF NextSet, PrevSet, Alike
  <2>4. /\ h2 \in Heaps /\ Alike(h, h2)
        /\ \A y \in Cells : /\ h2[y].child = h[y].child /\ h2[y].next = h1[y].next
                            /\ h2[y].prev = IF next # NULL /\ y = next THEN c ELSE h1[y].prev
    BY <1>6, <2>1, <2>3 DEF PrevSet, Alike
  <2>5. /\ h3 \in Heaps /\ Alike(h2, h3)
        /\ \A y \in Cells : /\ h3[y].next = h2[y].next /\ h3[y].child = h2[y].child
                            /\ h3[y].prev = IF alone /\ y = c THEN c ELSE h2[y].prev
    BY <1>7, <2>1, <2>4 DEF PrevSet, Alike
  <2>6. /\ h4 \in Heaps /\ Alike(h2, h4)
        /\ \A y \in Cells : /\ h4[y].next = h2[y].next /\ h4[y].prev = h3[y].prev
                            /\ h4[y].child = IF x = first /\ y = p THEN c ELSE h2[y].child
    BY <1>8, <2>1, <2>5 DEF ChildSet, Alike
  <2>7. /\ h5 \in Heaps /\ Alike(h2, h5)
        /\ \A y \in Cells : /\ h5[y].child = h4[y].child /\ h5[y].prev = h3[y].prev
                            /\ h5[y].next = IF x # first /\ y = before THEN c ELSE h2[y].next
    BY <1>9, <2>1, <2>6 DEF NextSet, Alike
  <2>8. /\ h6 \in Heaps /\ Alike(h2, h6)
        /\ \A y \in Cells : /\ h6[y].next = h5[y].next /\ h6[y].child = h4[y].child
                            /\ h6[y].prev = IF last /\ y = first THEN c ELSE h3[y].prev
    BY <1>10, <2>1, <2>7 DEF PrevSet, Alike
  <2>9. /\ h7 \in Heaps /\ Alike(h6, h7)
        /\ \A y \in Cells : /\ h7[y].child = h6[y].child
                            /\ h7[y].next = IF y = x THEN NULL ELSE h6[y].next
                            /\ h7[y].prev = IF y = x THEN NULL ELSE h6[y].prev
    BY <1>11, <1>12, <2>8 DEF PrevSet, NextSet, Alike
  <2>10. /\ h1[c].next = next /\ h2[p].child = first /\ h2[x].prev = before
         /\ h2[c].prev = before /\ h2[c].next = next
    BY <1>1, <1>2, <2>2, <2>3, <2>4
  <2>11. \A y \in Cells :
            /\ h6[y].child = IF x = first /\ y = p THEN c ELSE h2[y].child
            /\ h6[y].next = IF x # first /\ y = before THEN c ELSE h2[y].next
            /\ h6[y].prev = IF (last /\ y = first) \/ (alone /\ y = c) THEN c ELSE h2[y].prev
    BY <2>5, <2>6, <2>7, <2>8
  <2>12. Alike(h, h7)
    BY <2>4, <2>8, <2>9 DEF Alike
  <2>13. ASSUME NEW y \in Cells
         PROVE  /\ h7[y].child = IF x = first /\ y = p THEN c ELSE h[y].child
                /\ h7[y].next = IF y = x THEN NULL ELSE IF x # first /\ y = before THEN c
                                ELSE IF y = c THEN next ELSE h[y].next
    BY <2>3, <2>4, <2>9, <2>11
  <2>14. ASSUME NEW y \in Cells
         PROVE  h7[y].prev = IF y = x THEN NULL ELSE IF last /\ y = first THEN c
                             ELSE IF next # NULL /\ y = next THEN c
                             ELSE IF y = c THEN (IF alone THEN c ELSE before) ELSE h[y].prev
    BY <2>2, <2>3, <2>4, <2>9, <2>11
  <2> QED
    BY <2>4, <2>8, <2>9, <2>10, <2>11, <2>12, <2>13, <2>14
<1>14. g = h7
  <2> DEFINE a == [h EXCEPT ![c].next = h[x].next, ![c].prev = h[x].prev]
             b == IF a[c].next # NULL THEN [a EXCEPT ![a[c].next].prev = c] ELSE a
             one == [b EXCEPT ![c].prev = IF b[x].prev = x THEN c ELSE @, ![p].child = c]
             more == [y \in Cells |->
                        [b[y] EXCEPT !.next = IF y = b[c].prev THEN c ELSE @,
                                     !.prev = IF y = b[p].child /\ b[c].next = NULL
                                              THEN c ELSE @]]
             d == IF b[p].child = x THEN one ELSE more
  <2>1. g = [d EXCEPT ![x].next = NULL, ![x].prev = NULL]
    BY DEF ReplaceItem
  <2>2. a = h1
    BY DEF SetNext, SetPrev, h1
  <2> HIDE DEF a
  <2>3. b = h2
    BY <1>13, <2>2 DEF SetPrev, h2
  <2> HIDE DEF b
  <2>4. CASE x = first
    <3>1. one = [h3 EXCEPT ![p].child = c]
      <4>1. CASE alone
        BY <1>13, <2>3, <4>1 DEF SetPrev, h3
      <4>2. CASE ~alone
        <5>1. [h2 EXCEPT ![c].prev = IF h2[x].prev = x THEN c ELSE @] = h2
          BY <1>13, <2>4, <4>2 DEF Heaps, Items
        <5>2. h3 = h2
          BY <4>2 DEF h3
        <5> QED
          BY <2>3, <5>1, <5>2
      <4> QED
        BY <4>1, <4>2
    <3>2. h6 = [h3 EXCEPT ![p].child = c]
      BY <2>4 DEF SetChild, h4, h5, h6
    <3>3. d = one
      BY <1>13, <2>3, <2>4
    <3> HIDE DEF one, d
    <3>4. h6 = d
      BY <3>1, <3>2, <3>3
    <3> HIDE DEF h6
    <3> QED
      BY <2>1, <3>4 DEF SetPrev, SetNext
  <2>5. CASE x # first
    <3>1. d = more
      BY <1>13, <2>3, <2>5
    <3>2. more = h6
      <4>1. h5 = [h2 EXCEPT ![before].next = c]
        BY <2>5 DEF SetNext, h3, h4, h5
      <4>2. h6 = IF next = NULL THEN [h5 EXCEPT ![first].prev = c] ELSE h5
        BY <2>5 DEF SetPrev, h6
      <4>3. before \in Cells /\ first \in Cells /\ h2[c].prev = before /\ h2[p].child = first
            /\ h2[c].next = next /\ h2 \in Heaps
        BY <1>1, <1>13
      <4>5. ASSUME NEW y \in Cells PROVE more[y] = h6[y]
        <5>1. h2[y] \in Items
          BY <4>3 DEF Heaps, Items
        <5>2. more[y] = [h2[y] EXCEPT !.next = IF y = before THEN c ELSE @,
                                      !.prev = IF y = first /\ next = NULL THEN c ELSE @]
          BY <2>3, <4>3
        <5>3. h5[y] = IF y = before THEN [h2[y] EXCEPT !.next = c] ELSE h2[y]
          BY <4>1, <4>3 DEF Heaps, Items
        <5>4. h6[y] = IF next = NULL /\ y = first THEN [h5[y] EXCEPT !.prev = c] ELSE h5[y]
          BY <4>1, <4>2, <4>3 DEF Heaps, Items
        <5> HIDE DEF more, before, next, first, h5, h6
        <5> DEFINE i == h2[y]
                   u == y = before
                   w == y = first /\ next = NULL
                   j == IF u THEN [i EXCEPT !.next = c] ELSE i
        <5>5. more[y] = [i EXCEPT !.next = IF u THEN c ELSE @, !.prev = IF w THEN c ELSE @]
          BY <5>2
        <5>6. h5[y] = j /\ h6[y] = IF w THEN [j EXCEPT !.prev = c] ELSE j
          BY <5>3, <5>4
        <5>7. i \in Items
          BY <5>1
        <5> HIDE DEF i, u, w
        <5>8. [i EXCEPT !.next = IF u THEN c ELSE @, !.prev = IF w THEN c ELSE @]
                  = IF w THEN [j EXCEPT !.prev = c] ELSE j
          BY <5>7, TwoLinks, Zenon
        <5> QED
          BY <5>5, <5>6, <5>8
      <4>6. more = [y \in Cells |-> more[y]] /\ h6 = [y \in Cells |-> h6[y]]
        BY <1>13 DEF Heaps, Items
      <4> HIDE DEF more
      <4> QED
        BY <4>5, <4>6
    <3> HIDE DEF more, d
    <3>3. h6 = d
      BY <3>1, <3>2
    <3> HIDE DEF h6
    <3> QED
      BY <2>1, <3>3 DEF SetPrev, SetNext
  <2> QED
    BY <2>4, <2>5
<1> HIDE DEF g, h7
<1>15. Rearranged(h, g, p, c)
  <2>1. \A y \in Cells : y \notin s \cup {c} => g[y].next = h[y].next /\ g[y].prev = h[y].prev
    BY <1>1, <1>13, <1>14
  <2>2. \A y \in Cells : y # p => g[y].child = h[y].child
    BY <1>13, <1>14
  <2> QED
    BY <1>13, <1>14, <2>1, <2>2 DEF Rearranged, s
<1>16. Exchanged(h, g, p, x, c)
  <2>1. g[p].child = start /\ g[x].next = NULL /\ g[c].next = next
    BY <1>1, <1>2, <1>13, <1>14
  <2>2. ASSUME NEW y \in s \ {x}
        PROVE  /\ h[y].next = x => g[y].next = c
               /\ h[y].next # x => g[y].next = h[y].next
    BY <1>1, <1>2, <1>13, <1>14
  <2>3. x # first => g[c].prev = before
    BY <1>1, <1>2, <1>13, <1>14
  <2>4. next # NULL => g[next].prev = c
    BY <1>1, <1>2, <1>13, <1>14
  <2>5. g[start].prev = IF next = NULL THEN c ELSE h[first].prev
    BY <1>1, <1>2, <1>3, <1>13, <1>14
  <2>6. \A y \in s \ {x, next, start} : g[y].prev = h[y].prev
    BY <1>1, <1>2, <1>13, <1>14
  <2> QED
    BY <1>1, <1>15, <2>1, <2>2, <2>3, <2>4, <2>5, <2>6 DEF Exchanged, s
<1>17. g[x].next = NULL
  BY <1>1, <1>13, <1>14
<1>18. Becomes(h, g, p, (Children(h, p) \ {x}) \cup {c})
  BY <1>16, Exchange
<1> QED
  BY <1>15, <1>17, <1>18 DEF g

-----------------------------------------------------------------------------
(* A heap of trees.                                                         *)

Lists(h) == [p \in Cells |-> Children(h, p)]

\* The invariant: h is a forest whose lists are linked and whose roots hs the caller holds.
Trees(h, hs) ==
    /\ h \in Heaps
    /\ Forest(Live(h), Holders(h), Lists(h), hs)
    /\ \A p \in Holders(h) : Linked(h, p)
    /\ \A c \in hs : h[c].next = NULL
    /\ \A r \in Live(h) : h[r].child # NULL => h[h[r].child].live

\* No list changes, or none but in what is in it.
Unmoved(h, g) ==
    \A q \in Holders(h) \cap Holders(g) :
        Children(g, q) = Children(h, q) /\ \A x \in Children(h, q) : Behind(g, x) = Behind(h, x)
Ordered(h, g) == \A q \in Holders(h) \cap Holders(g) : InOrder(h, g, q)

\* What is behind an item of a list is in the list.
LEMMA BehindWithin ==
    ASSUME NEW h \in Heaps, NEW p \in Cells, NEW x \in Children(h, p)
    PROVE  Behind(h, x) \subseteq Children(h, p)
<1> DEFINE s == Children(h, p)
<1>1. s \in SUBSET Cells /\ \A c \in s : h[c].next \in s \cup {NULL}
  BY ListShut
<1>2. Shut(h, h[x].next, {}, s)
  BY <1>1 DEF Shut
<1> HIDE DEF s
<1> QED
  BY <1>1, <1>2, ReachLeast DEF Behind, s

\* A list whose items keep their links stays what it is.
LEMMA ListKept ==
    ASSUME NEW h \in Heaps, NEW g \in Heaps, NEW q \in Cells, g[q].child = h[q].child,
           \A c \in Children(h, q) : /\ g[c].next = h[c].next /\ g[c].prev = h[c].prev
                                     /\ g[c].live = h[c].live
    PROVE  /\ Children(g, q) = Children(h, q)
           /\ Linked(h, q) => Linked(g, q)
           /\ \A x \in Children(h, q) : Behind(g, x) = Behind(h, x)
<1> DEFINE s == Children(h, q)
<1>1. /\ s \in SUBSET Cells /\ h[q].child \in s \cup {NULL}
      /\ \A c \in s : h[c].next \in s \cup {NULL}
  BY ListShut
<1>2. Children(g, q) = s
  <2>1. h[q].child \in Links
    BY DEF Heaps, Items
  <2> QED
    BY <2>1, SameReach DEF Children
<1>3. ASSUME Linked(h, q) PROVE Linked(g, q)
  <2> HIDE DEF s
  <2>1. /\ \A c \in s : h[c].live /\ (h[c].next # NULL => h[h[c].next].prev = c)
        /\ h[q].child # NULL => h[h[q].child].prev \in s /\ h[h[h[q].child].prev].next = NULL
    BY <1>3 DEF Linked, s
  <2>2. \A c \in s : g[c].next = h[c].next /\ g[c].prev = h[c].prev /\ g[c].live = h[c].live
    BY DEF s
  <2>3. /\ \A c \in s : g[c].live /\ (g[c].next # NULL => g[g[c].next].prev = c)
        /\ g[q].child # NULL => g[g[q].child].prev \in s /\ g[g[g[q].child].prev].next = NULL
    BY <1>1, <2>1, <2>2
  <2> QED
    BY <1>2, <2>3 DEF Linked
<1>4. ASSUME NEW x \in s PROVE Behind(g, x) = Behind(h, x)
  <2>1. Behind(h, x) \subseteq s
    BY BehindWithin
  <2>2. h[x].next \in Links /\ g[x].next = h[x].next
    BY <1>1 DEF Links
  <2> QED
    BY <2>1, <2>2, SameReach DEF Behind
<1> QED
  BY <1>2, <1>3, <1>4

\* Items in use lead to items in use.
LEMMA LiveShut ==
    ASSUME NEW h, NEW hs, Trees(h, hs)
    PROVE  /\ Live(h) \in SUBSET Cells
           /\ \A x \in Live(h) : h[x].next \in Live(h) \cup {NULL} /\ h[x].child \in Live(h) \cup {NULL}
<1>1. h \in Heaps /\ Live(h) \in SUBSET Cells
  BY DEF Trees, Live
<1>2. ASSUME NEW x \in Live(h)
      PROVE  h[x].next \in Live(h) \cup {NULL} /\ h[x].child \in Live(h) \cup {NULL}
  <2>1. h[x].child \in Live(h) \cup {NULL}
    <3>1. h[x].child \in Links
      BY <1>1 DEF Heaps, Items
    <3> QED
      BY <3>1 DEF Trees, Live, Links
  <2>2. CASE x \in hs
    BY <2>1, <2>2 DEF Trees
  <2>3. CASE x \notin hs
    <3>1. PICK p \in Holders(h) : x \in Lists(h)[p]
      BY <2>3, ForestOwned DEF Trees
    <3>2. p \in Cells
      BY <1>1 DEF Holders
    <3>3. x \in Children(h, p) /\ Children(h, p) \subseteq Live(h)
      BY <3>1, <3>2 DEF Lists, Trees, Forest
    <3>4. h[x].next \in Children(h, p) \cup {NULL}
      BY <1>1, <3>2, <3>3, ListShut
    <3> QED
      BY <2>1, <3>3, <3>4
  <2> QED
    BY <2>2, <2>3
<1> QED
  BY <1>1, <1>2

\* What the links from an item lead to, through references too, is closed.
LEMMA BelowShut ==
    ASSUME NEW h \in Heaps, NEW c \in Cells
    PROVE  /\ Below(h, c) \in SUBSET Cells /\ c \in Below(h, c)
           /\ \A q \in Below(h, c) : Children(h, q) \subseteq Below(h, c)
<1> DEFINE R == Reach(h, h[c].child, Cells)
<1>1. h[c].child \in Links
  BY DEF Heaps, Items
<1>2. /\ R \in SUBSET Cells /\ h[c].child \in R \cup {NULL}
      /\ \A x \in R : h[x].next \in R \cup {NULL} /\ h[x].child \in R \cup {NULL}
  BY <1>1, ReachShut DEF Shut
<1>3. Below(h, c) = {c} \cup R
  BY DEF Below
<1> HIDE DEF R
<1>4. ASSUME NEW q \in {c} \cup R PROVE Children(h, q) \subseteq R
  <2>1. h[q].child \in R \cup {NULL}
    BY <1>2
  <2> QED
    BY <1>2, <2>1, ListLeast
<1> QED
  BY <1>2, <1>3, <1>4

-----------------------------------------------------------------------------
(* One list changes.                                                        *)

\* Only the list of p is another, and c may be held or not.
Changed(h, g, p, s, hs, c) ==
    /\ g \in Heaps /\ Live(g) = Live(h) /\ Holders(g) = Holders(h)
    /\ \A q \in Holders(h) : /\ Lists(g)[q] = IF q = p THEN s ELSE Lists(h)[q]
                             /\ Linked(g, q)
    /\ Ordered(h, g)
    /\ \A d \in hs \ {c} : g[d].next = NULL
    /\ \A r \in Live(g) : g[r].child # NULL => g[g[r].child].live

\* The other lists stay as they are.
LEMMA OneChanges ==
    ASSUME NEW h, NEW hs, Trees(h, hs), NEW g, NEW p \in Holders(h), NEW c,
           c \in hs \cup Children(h, p), Rearranged(h, g, p, c), NEW s, Becomes(h, g, p, s)
    PROVE  Changed(h, g, p, s, hs, c)
<1>1. h \in Heaps /\ g \in Heaps /\ p \in Cells
  BY DEF Rearranged, Holders, Live
<1>2. Live(g) = Live(h) /\ Holders(g) = Holders(h)
  BY DEF Rearranged, Alike, Live, Holders
<1>3. /\ \A q \in Holders(h) : q \in Cells /\ Children(h, q) \cap hs = {} /\ Children(h, q) \subseteq Cells
      /\ \A q, r \in Holders(h) : q # r => Children(h, q) \cap Children(h, r) = {}
  BY DEF Trees, Forest, Lists, Holders, Live
<1>4. ASSUME NEW q \in Holders(h), q # p
      PROVE  /\ Children(g, q) = Children(h, q) /\ Linked(g, q)
             /\ \A x \in Children(h, q) : Behind(g, x) = Behind(h, x)
  <2>1. g[q].child = h[q].child
    BY <1>3, <1>4 DEF Rearranged
  <2>2. \A x \in Children(h, q) : x \in Cells /\ x \notin Children(h, p) \cup {c}
    BY <1>3, <1>4
  <2>3. \A x \in Children(h, q) : /\ g[x].next = h[x].next /\ g[x].prev = h[x].prev
                                  /\ g[x].live = h[x].live
    BY <2>2 DEF Rearranged, Alike
  <2>4. Linked(h, q)
    BY DEF Trees
  <2> QED
    BY <1>1, <1>3, <2>1, <2>3, <2>4, ListKept
<1>5. ASSUME NEW q \in Holders(h)
      PROVE  Lists(g)[q] = (IF q = p THEN s ELSE Lists(h)[q]) /\ Linked(g, q) /\ InOrder(h, g, q)
  <2>1. q \in Cells
    BY <1>3
  <2>2. CASE q = p
    BY <2>1, <2>2 DEF Becomes, Lists
  <2>3. CASE q # p
    BY <1>4, <2>1, <2>3 DEF Lists, InOrder
  <2> QED
    BY <2>2, <2>3
<1>6. ASSUME NEW d \in hs \ {c} PROVE g[d].next = NULL
  <2>1. d \in Cells /\ d \notin Children(h, p) \cup {c}
    BY <1>3 DEF Trees, Forest
  <2> QED
    BY <2>1 DEF Rearranged, Trees
<1>7. ASSUME NEW r \in Live(g), g[r].child # NULL PROVE g[g[r].child].live
  <2>1. r \in Cells
    BY DEF Live
  <2>2. CASE r = p
    <3>1. g[p].child \in Children(g, p)
      BY <1>1, <1>7, <2>2, ListShut
    <3> QED
      BY <2>2, <3>1 DEF Becomes, Linked
  <2>3. CASE r # p
    <3>1. g[r].child = h[r].child
      BY <2>1, <2>3 DEF Rearranged
    <3>2. g[r].child \in Cells
      BY <1>1, <1>7, <2>1 DEF Heaps, Items, Links
    <3> QED
      BY <1>2, <1>7, <3>1, <3>2 DEF Trees, Live
  <2> QED
    BY <2>2, <2>3
<1> QED
  BY <1>1, <1>2, <1>5, <1>6, <1>7 DEF Changed, Ordered

\* A heap of trees becomes another, with the same items.
Keeps(h, g, gs) ==
    Trees(g, gs) /\ Ordered(h, g) /\ Live(g) = Live(h) /\ Holders(g) = Holders(h)

\* An item that the caller holds is put into a list that is not below it.
LEMMA PutKeeps ==
    ASSUME NEW h, NEW hs, Trees(h, hs), NEW p \in Holders(h), NEW c \in hs, NEW g,
           Rearranged(h, g, p, c), Becomes(h, g, p, Children(h, p) \cup {c}),
           NEW B \in SUBSET Cells, c \in B, p \notin B,
           \A q \in Holders(h) \cap B : Children(h, q) \subseteq B
    PROVE  Keeps(h, g, hs \ {c})
<1> DEFINE s == Children(h, p) \cup {c}
<1>1. Changed(h, g, p, s, hs, c)
  BY OneChanges
<1>2. Forest(Live(h), Holders(h), Lists(h), hs) /\ \A q \in Holders(h) : q \in Cells
  BY DEF Trees, Holders, Live
<1>3. \A q \in Holders(h) : Lists(g)[q] = IF q = p THEN Lists(h)[p] \cup {c} ELSE Lists(h)[q]
  BY <1>1, <1>2 DEF Changed, Lists
<1>4. \A q \in Holders(h) \cap B : Lists(h)[q] \subseteq B
  BY <1>2 DEF Lists
<1> HIDE DEF s
<1>5. Forest(Live(h), Holders(h), Lists(g), hs \ {c})
  BY <1>2, <1>3, <1>4, ForestGrows
<1> QED
  BY <1>1, <1>5 DEF Changed, Keeps, Trees

\* An item is taken out of a list and becomes the caller's.
LEMMA TakeKeeps ==
    ASSUME NEW h, NEW hs, Trees(h, hs), NEW p \in Holders(h), NEW x \in Children(h, p), NEW g,
           Rearranged(h, g, p, x), Becomes(h, g, p, Children(h, p) \ {x}), g[x].next = NULL
    PROVE  Keeps(h, g, hs \cup {x})
<1> DEFINE s == Children(h, p) \ {x}
<1>1. Changed(h, g, p, s, hs, x)
  BY OneChanges
<1>2. Forest(Live(h), Holders(h), Lists(h), hs) /\ \A q \in Holders(h) : q \in Cells
  BY DEF Trees, Holders, Live
<1>3. \A q \in Holders(h) : Lists(g)[q] = IF q = p THEN Lists(h)[p] \ {x} ELSE Lists(h)[q]
  BY <1>1, <1>2 DEF Changed, Lists
<1>4. x \in Lists(h)[p]
  BY <1>2 DEF Lists
<1> HIDE DEF s
<1>5. Forest(Live(h), Holders(h), Lists(g), hs \cup {x})
  BY <1>2, <1>3, <1>4, ForestShrinks
<1> QED
  BY <1>1, <1>5 DEF Changed, Keeps, Trees

\* An item that the caller holds takes the place of another in a list that is not below it.
LEMMA ExchangeKeeps ==
    ASSUME NEW h, NEW hs, Trees(h, hs), NEW p \in Holders(h), NEW x \in Children(h, p),
           NEW c \in hs, NEW g, Rearranged(h, g, p, c), g[x].next = NULL,
           Becomes(h, g, p, (Children(h, p) \ {x}) \cup {c}),
           NEW B \in SUBSET Cells, c \in B, p \notin B,
           \A q \in Holders(h) \cap B : Children(h, q) \subseteq B
    PROVE  Keeps(h, g, (hs \ {c}) \cup {x})
<1> DEFINE s == (Children(h, p) \ {x}) \cup {c}
           M == [q \in Cells |-> IF q = p THEN Lists(h)[p] \ {x} ELSE Lists(h)[q]]
<1>1. Changed(h, g, p, s, hs, c)
  BY OneChanges
<1>2. /\ Forest(Live(h), Holders(h), Lists(h), hs) /\ \A q \in Holders(h) : q \in Cells
      /\ Children(h, p) \cap hs = {}
  BY DEF Trees, Forest, Lists, Holders, Live
<1>3. \A q \in Holders(h) : M[q] = IF q = p THEN Lists(h)[p] \ {x} ELSE Lists(h)[q]
  BY <1>2
<1>4. x \in Lists(h)[p]
  BY <1>2 DEF Lists
<1> HIDE DEF M
<1>5. Forest(Live(h), Holders(h), M, hs \cup {x})
  BY <1>2, <1>3, <1>4, ForestShrinks
<1>6. \A q \in Holders(h) : Lists(g)[q] = IF q = p THEN M[p] \cup {c} ELSE M[q]
  BY <1>1, <1>2, <1>3 DEF Changed, Lists
<1>7. \A q \in Holders(h) \cap B : M[q] \subseteq B
  BY <1>2, <1>3 DEF Lists
<1> HIDE DEF s
<1>8. Forest(Live(h), Holders(h), Lists(g), (hs \cup {x}) \ {c})
  <2> DEFINE ks == hs \cup {x}
  <2>1. c \in ks
    OBVIOUS
  <2>2. Forest(Live(h), Holders(h), M, ks)
    BY <1>5
  <2> HIDE DEF ks
  <2>3. Forest(Live(h), Holders(h), Lists(g), ks \ {c})
    BY <1>6, <1>7, <2>1, <2>2, ForestGrows
  <2> QED
    BY <2>3 DEF ks
<1>9. (hs \cup {x}) \ {c} = (hs \ {c}) \cup {x}
  BY <1>2
<1>10. \A d \in (hs \ {c}) \cup {x} : g[d].next = NULL
  BY <1>1 DEF Changed
<1> QED
  BY <1>1, <1>8, <1>9, <1>10 DEF Changed, Keeps, Trees

\* The links stay, the names may change.
LEMMA LinksKept ==
    ASSUME NEW h, NEW hs, Trees(h, hs), NEW g \in Heaps, Alike(h, g),
           \A y \in Cells : /\ g[y].next = h[y].next /\ g[y].prev = h[y].prev
                            /\ g[y].child = h[y].child
    PROVE  /\ Trees(g, hs) /\ Unmoved(h, g) /\ Live(g) = Live(h) /\ Holders(g) = Holders(h)
           /\ \A q \in Cells : Children(g, q) = Children(h, q)
<1>1. h \in Heaps /\ Live(g) = Live(h) /\ Holders(g) = Holders(h) /\ Holders(h) \subseteq Cells
  BY DEF Trees, Alike, Live, Holders
<1>2. ASSUME NEW q \in Cells
      PROVE  /\ Children(g, q) = Children(h, q)
             /\ Linked(h, q) => Linked(g, q)
             /\ \A x \in Children(h, q) : Behind(g, x) = Behind(h, x)
  <2>1. Children(h, q) \subseteq Cells
    BY <1>1, ListShut
  <2>2. \A x \in Children(h, q) : /\ g[x].next = h[x].next /\ g[x].prev = h[x].prev
                                  /\ g[x].live = h[x].live
    BY <2>1 DEF Alike
  <2> QED
    BY <1>1, <2>2, ListKept
<1>3. Lists(g) = Lists(h)
  BY <1>2 DEF Lists
<1>4. \A p \in Holders(g) : Linked(g, p)
  BY <1>1, <1>2 DEF Trees
<1>5. hs \subseteq Cells
  BY DEF Trees, Forest
<1>6. \A c \in hs : g[c].next = NULL
  BY <1>5 DEF Trees
<1>7. \A r \in Live(g) : g[r].child # NULL => g[g[r].child].live
  <2> SUFFICES ASSUME NEW r \in Live(h), h[r].child # NULL PROVE g[h[r].child].live
    BY <1>1 DEF Live
  <2>1. h[r].child \in Cells
    BY <1>1 DEF Heaps, Items, Live, Links
  <2> QED
    BY <1>1, <2>1 DEF Trees, Alike
<1>8. Trees(g, hs)
  BY <1>1, <1>3, <1>4, <1>6, <1>7 DEF Trees
<1>9. Unmoved(h, g)
  BY <1>1, <1>2 DEF Unmoved
<1> QED
  BY <1>1, <1>2, <1>8, <1>9

\* Two steps of which one moves nothing.
LEMMA OrderedThrough ==
    ASSUME NEW h, NEW m, NEW g, Holders(h) \cap Holders(g) \subseteq Holders(m),
           (Unmoved(h, m) /\ Ordered(m, g)) \/ (Ordered(h, m) /\ Unmoved(m, g))
    PROVE  Ordered(h, g)
<1> SUFFICES ASSUME NEW q \in Holders(h) \cap Holders(g) PROVE InOrder(h, g, q)
  BY DEF Ordered
<1>1. q \in Holders(h) /\ q \in Holders(m) /\ q \in Holders(g)
  OBVIOUS
<1>2. CASE Unmoved(h, m) /\ Ordered(m, g)
  BY <1>1, <1>2 DEF Unmoved, Ordered, InOrder
<1>3. CASE Ordered(h, m) /\ Unmoved(m, g)
  BY <1>1, <1>3 DEF Unmoved, Ordered, InOrder
<1> QED
  BY <1>2, <1>3

\* Nothing moved is in order.
LEMMA UnmovedOrdered ==
    ASSUME NEW h, NEW g, Unmoved(h, g)
    PROVE  Ordered(h, g)
  BY DEF Unmoved, Ordered, InOrder

-----------------------------------------------------------------------------
(* Items go.                                                                *)

\* cJSON_Delete frees an item and all that is below it, and nothing in another list.
Separate(h, hs, c, gone) ==
    /\ gone \in SUBSET Cells /\ gone \subseteq Live(h) /\ c \in gone /\ hs \cap gone = {c}
    /\ \A q \in Holders(h) \cap gone : Children(h, q) \subseteq gone
    /\ \A q \in Holders(h) \ gone : Children(h, q) \cap gone = {}

LEMMA DeletedSeparate ==
    ASSUME NEW h, NEW hs, Trees(h, hs), NEW c \in hs
    PROVE  Separate(h, hs, c, Deleted(h, c))
<1> DEFINE gone == Deleted(h, c)
           P == {x \in Cells : ~h[x].isReference}
           T == {x \in gone : x = c \/ \E q \in Holders(h) \cap gone : x \in Children(h, q)}
<1>1. /\ h \in Heaps /\ c \in Cells /\ c \in Live(h) /\ hs \subseteq Live(h)
      /\ Live(h) \in SUBSET Cells /\ h[c].next = NULL /\ Holders(h) \subseteq Cells
  BY DEF Trees, Forest, Live, Holders
<1>2. /\ gone \in SUBSET Cells /\ c \in gone
      /\ \A x \in gone : /\ h[x].next \in gone \cup {NULL}
                         /\ x \in P => h[x].child \in gone \cup {NULL}
  <2>1. Shut(h, c, P, gone) /\ gone \in SUBSET Cells
    BY <1>1, ReachShut DEF Deleted, Links
  <2> HIDE DEF gone, P
  <2> QED
    BY <1>1, <2>1, TreeAssumption DEF Shut
<1>3. \A S \in SUBSET Cells : Shut(h, c, P, S) => gone \subseteq S
  BY ReachLeast DEF Deleted
<1> HIDE DEF gone
<1>4. gone \subseteq Live(h)
  <2>1. Shut(h, c, P, Live(h))
    BY <1>1, LiveShut DEF Shut
  <2> QED
    BY <1>1, <1>3, <2>1
<1>5. ASSUME NEW q \in Holders(h) \cap gone PROVE Children(h, q) \subseteq gone
  <2>1. q \in P
    BY <1>1 DEF Holders
  <2>2. h[q].child \in gone \cup {NULL}
    BY <1>2, <2>1
  <2> QED
    BY <1>2, <2>2, ListLeast
<1>6. gone \subseteq T
  <2>1. T \in SUBSET Cells /\ c \in T
    BY <1>2
  <2>2. ASSUME NEW x \in T
        PROVE  h[x].next \in T \cup {NULL} /\ (x \in P => h[x].child \in T \cup {NULL})
    <3>1. h[x].next \in T \cup {NULL}
      <4>1. CASE x = c
        BY <1>1, <4>1
      <4>2. CASE x # c
        <5>1. PICK q \in Holders(h) \cap gone : x \in Children(h, q)
          BY <4>2
        <5>2. h[x].next \in Children(h, q) \cup {NULL}
          BY <1>1, <5>1, ListShut
        <5> QED
          BY <1>5, <5>1, <5>2
      <4> QED
        BY <4>1, <4>2
    <3>2. ASSUME x \in P PROVE h[x].child \in T \cup {NULL}
      <4>1. x \in gone
        OBVIOUS
      <4>2. x \in Holders(h) \cap gone
        BY <1>4, <3>2, <4>1 DEF Holders
      <4>3. h[x].child \in Children(h, x) \cup {NULL}
        BY <1>1, <4>2, ListShut
      <4> QED
        BY <1>5, <4>2, <4>3
    <3> QED
      BY <3>1, <3>2
  <2> HIDE DEF T, P
  <2>3. Shut(h, c, P, T)
    BY <2>1, <2>2 DEF Shut
  <2> QED
    BY <1>3, <2>1, <2>3
<1>7. \A q \in Holders(h) : Children(h, q) \cap hs = {}
  BY <1>1 DEF Trees, Forest, Lists
<1>8. \A q, r \in Holders(h) : q # r => Children(h, q) \cap Children(h, r) = {}
  BY <1>1 DEF Trees, Forest, Lists
<1>9. hs \cap gone = {c}
  BY <1>2, <1>6, <1>7
<1>10. ASSUME NEW q \in Holders(h) \ gone, NEW x \in Children(h, q) \cap gone PROVE FALSE
  <2>1. x \notin hs
    BY <1>7
  <2>2. PICK r \in Holders(h) \cap gone : x \in Children(h, r)
    BY <1>6, <2>1
  <2> QED
    BY <1>8, <2>2
<1> QED
  BY <1>2, <1>4, <1>5, <1>9, <1>10 DEF Separate, gone

\* cJSON_Delete leaves the other trees as they are.
LEMMA DeleteKeeps ==
    ASSUME NEW h, NEW hs, Trees(h, hs), NEW c \in hs, Deletable(h, c)
    PROVE  /\ Trees(Delete(h, c), hs \ {c}) /\ Unmoved(h, Delete(h, c))
           /\ Holders(Delete(h, c)) \subseteq Holders(h)
<1> DEFINE gone == Deleted(h, c)
           g == Delete(h, c)
<1>1. Separate(h, hs, c, gone)
  BY DeletedSeparate
<1>2. g = [x \in Cells |-> IF x \in gone THEN Free ELSE h[x]]
  BY DEF Delete
<1>3. \A r \in Live(h) \ gone : h[r].isReference => h[r].child \notin gone
  BY DEF Deletable
<1> HIDE DEF gone, g
<1>4. h \in Heaps /\ Holders(h) \subseteq Live(h) /\ Live(h) \subseteq Cells
  BY DEF Trees, Live, Holders
<1>5. /\ g \in Heaps /\ \A x \in Cells \ gone : g[x] = h[x]
      /\ \A x \in gone : ~g[x].live
  <2>1. Free \in Items
        /\ ~Free.live
    BY DEF Items, Free, NewItem, Links, Keys, NoKey, Values
  <2> HIDE DEF Free
  <2> QED
    BY <1>1, <1>2, <1>4, <2>1 DEF Heaps, Items, Separate
<1>6. Live(g) = Live(h) \ gone /\ Holders(g) = Holders(h) \ gone
  BY <1>1, <1>5 DEF Live, Holders, Separate
<1>7. ASSUME NEW q \in Holders(h) \ gone
      PROVE  /\ Children(g, q) = Children(h, q)
             /\ Linked(h, q) => Linked(g, q)
             /\ \A x \in Children(h, q) : Behind(g, x) = Behind(h, x)
  <2>1. q \in Cells /\ g[q].child = h[q].child
    BY <1>4, <1>5
  <2>2. Children(h, q) \subseteq Cells \ gone
    BY <1>1, <1>4, <2>1, ListShut DEF Separate
  <2>3. \A x \in Children(h, q) : /\ g[x].next = h[x].next /\ g[x].prev = h[x].prev
                                  /\ g[x].live = h[x].live
    BY <1>5, <2>2
  <2> QED
    BY <1>4, <1>5, <2>1, <2>3, ListKept
<1>8. Forest(Live(g), Holders(g), Lists(g), hs \ {c})
  <2>1. Forest(Live(h), Holders(h), Lists(h), hs)
    BY DEF Trees
  <2>2. \A q \in Holders(h) \cap gone : Lists(h)[q] \subseteq gone
    BY <1>1, <1>4 DEF Lists, Separate
  <2>3. \A q \in Holders(h) \ gone : Lists(g)[q] = Lists(h)[q] /\ Lists(h)[q] \cap gone = {}
    BY <1>1, <1>4, <1>7 DEF Lists, Separate
  <2>4. gone \in SUBSET Cells /\ hs \cap gone = {c}
    BY <1>1 DEF Separate
  <2> DEFINE M == Lists(g)
  <2>5. \A q \in Holders(h) \ gone : M[q] = Lists(h)[q] /\ Lists(h)[q] \cap gone = {}
    BY <2>3
  <2> HIDE DEF M
  <2>6. Forest(Live(h) \ gone, Holders(h) \ gone, M, hs \ {c})
    BY <2>1, <2>2, <2>4, <2>5, ForestCut
  <2> QED
    BY <1>6, <2>6 DEF M
<1>9. \A p \in Holders(g) : Linked(g, p)
  BY <1>6, <1>7 DEF Trees
<1>10. \A d \in hs \ {c} : g[d].next = NULL
  <2>1. hs \ {c} \subseteq Cells \ gone
    BY <1>1, <1>4 DEF Trees, Forest, Separate
  <2> QED
    BY <1>5, <2>1 DEF Trees
<1>11. ASSUME NEW r \in Live(g), g[r].child # NULL PROVE g[g[r].child].live
  <2>1. r \in Live(h) \ gone /\ g[r] = h[r] /\ r \in Cells
    BY <1>4, <1>5, <1>6
  <2>2. h[r].child \in Cells /\ h[h[r].child].live
    BY <1>4, <1>11, <2>1 DEF Trees, Heaps, Items, Links
  <2>3. h[r].child \notin gone
    <3>1. CASE h[r].isReference
      BY <1>3, <2>1, <3>1
    <3>2. CASE ~h[r].isReference
      <4>1. r \in Holders(h) \ gone
        BY <2>1, <3>2 DEF Holders
      <4>2. h[r].child \in Children(h, r)
        BY <1>4, <1>11, <2>1, ListShut
      <4> QED
        BY <1>1, <4>1, <4>2 DEF Separate
    <3> QED
      BY <3>1, <3>2
  <2> QED
    BY <1>5, <2>1, <2>2, <2>3
<1>12. Trees(g, hs \ {c})
  BY <1>5, <1>8, <1>9, <1>10, <1>11 DEF Trees
<1>13. Unmoved(h, g)
  BY <1>6, <1>7 DEF Unmoved
<1> QED
  BY <1>6, <1>12, <1>13 DEF g

-----------------------------------------------------------------------------
(* The functions on lists, in a heap of trees.                              *)

\* B is what c may lead to, and p is none of it.
Apart(h, p, c, B) ==
    /\ B \in SUBSET Cells /\ c \in B /\ p \notin B
    /\ \A q \in Holders(h) \cap B : Children(h, q) \subseteq B

LEMMA ParentApart ==
    ASSUME NEW h \in Heaps, NEW c \in Cells, NEW p \in Parents(h, c)
    PROVE  p \in Holders(h) /\ Apart(h, p, c, Below(h, c))
  BY BelowShut DEF Parents, Apart

\* add_item_to_array and cJSON_InsertItemInArray.
LEMMA AddKeeps ==
    ASSUME NEW h, NEW hs, Trees(h, hs), NEW p \in Holders(h), NEW c \in hs,
           NEW B, Apart(h, p, c, B)
    PROVE  /\ Keeps(h, AddItem(h, p, c), hs \ {c})
           /\ \A x \in Children(h, p) : Keeps(h, InsertItem(h, p, x, c), hs \ {c})
<1>1. /\ h \in Heaps /\ p \in Cells /\ Linked(h, p) /\ c \in Cells \ Children(h, p)
      /\ h[c].live /\ h[c].next = NULL
  BY DEF Trees, Forest, Lists, Holders, Live
<1>2. Chain(h, p)
  BY <1>1, Chained
<1>3. Keeps(h, AddItem(h, p, c), hs \ {c})
  BY <1>1, <1>2, AddItemPuts, PutKeeps DEF Apart
<1>4. ASSUME NEW x \in Children(h, p) PROVE Keeps(h, InsertItem(h, p, x, c), hs \ {c})
  BY <1>1, <1>2, InsertItemPuts, PutKeeps DEF Apart
<1> QED
  BY <1>3, <1>4

\* cJSON_DetachItemViaPointer.
LEMMA DetachKeeps ==
    ASSUME NEW h, NEW hs, Trees(h, hs), NEW p \in Holders(h), NEW x \in Children(h, p)
    PROVE  Keeps(h, DetachItem(h, p, x), hs \cup {x})
<1>1. h \in Heaps /\ p \in Cells /\ Linked(h, p)
  BY DEF Trees, Holders, Live
<1>2. Chain(h, p)
  BY <1>1, Chained
<1> QED
  BY <1>1, <1>2, DetachItemTakes, TakeKeeps

\* cJSON_DetachItemViaPointer, and the deletion of what was taken out.
LEMMA DeleteDetachedKeeps ==
    ASSUME NEW h, NEW hs, Trees(h, hs), NEW p \in Holders(h), NEW x \in Children(h, p),
           Deletable(DetachItem(h, p, x), x)
    PROVE  /\ Trees(Delete(DetachItem(h, p, x), x), hs)
           /\ Ordered(h, Delete(DetachItem(h, p, x), x))
<1> DEFINE m == DetachItem(h, p, x)
           g == Delete(m, x)
           ks == hs \cup {x}
<1>1. Keeps(h, m, ks)
  BY DetachKeeps
<1>2. Deletable(m, x) /\ x \in ks
  OBVIOUS
<1>3. x \notin hs
  BY DEF Trees, Forest, Lists, Holders, Live
<1> HIDE DEF m, ks
<1>4. Trees(g, ks \ {x}) /\ Unmoved(m, g)
  BY <1>1, <1>2, DeleteKeeps DEF Keeps
<1>5. ks \ {x} = hs
  BY <1>3 DEF ks
<1>6. Ordered(h, g)
  BY <1>1, <1>4, OrderedThrough DEF Keeps
<1> QED
  BY <1>4, <1>5, <1>6 DEF m

\* cJSON_ReplaceItemViaPointer.
LEMMA ReplaceKeeps ==
    ASSUME NEW h, NEW hs, Trees(h, hs), NEW p \in Holders(h), NEW x \in Children(h, p),
           NEW c \in hs, NEW B, Apart(h, p, c, B), Deletable(ReplaceItem(h, p, x, c), x)
    PROVE  /\ Trees(Delete(ReplaceItem(h, p, x, c), x), hs \ {c})
           /\ Ordered(h, Delete(ReplaceItem(h, p, x, c), x))
<1> DEFINE m == ReplaceItem(h, p, x, c)
           g == Delete(m, x)
           ks == (hs \ {c}) \cup {x}
<1>1. /\ h \in Heaps /\ p \in Cells /\ Linked(h, p) /\ c \in Cells \ Children(h, p)
      /\ h[c].live /\ x \notin hs
  BY DEF Trees, Forest, Lists, Holders, Live
<1>2. Chain(h, p)
  BY <1>1, Chained
<1>3. Keeps(h, m, ks)
  BY <1>1, <1>2, ReplaceItemPuts, ExchangeKeeps DEF Apart
<1>4. Deletable(m, x) /\ x \in ks
  OBVIOUS
<1> HIDE DEF m, ks
<1>5. Trees(g, ks \ {x}) /\ Unmoved(m, g)
  BY <1>3, <1>4, DeleteKeeps DEF Keeps
<1>6. ks \ {x} = hs \ {c}
  BY <1>1 DEF ks
<1>7. Ordered(h, g)
  BY <1>3, <1>5, OrderedThrough DEF Keeps
<1> QED
  BY <1>5, <1>6, <1>7 DEF m

-----------------------------------------------------------------------------
(* Items come.                                                              *)

\* g is h with a tree more, on the free memory N, whose root is o.
Joined(h, g, N, o) ==
    /\ g \in Heaps /\ N \in SUBSET Cells /\ N \cap Live(h) = {}
    /\ \A x \in Cells \ N : g[x] = h[x]
    /\ \A x \in N : g[x].live /\ (g[x].child # NULL => g[g[x].child].live)
    /\ Forest(N, Holders(g) \cap N, Lists(g), {o})
    /\ \A p \in Holders(g) \cap N : Linked(g, p)
    /\ g[o].next = NULL

\* It becomes the caller's, and the others stay as they are.
LEMMA JoinKeeps ==
    ASSUME NEW h, NEW hs, Trees(h, hs), NEW g, NEW N, NEW o, Joined(h, g, N, o)
    PROVE  /\ Trees(g, hs \cup {o}) /\ Unmoved(h, g) /\ Live(g) = Live(h) \cup N
           /\ Holders(h) \subseteq Holders(g)
           /\ \A q \in Holders(h) : Children(g, q) = Children(h, q)
<1>1. /\ h \in Heaps /\ Live(h) \subseteq Cells /\ Holders(h) \subseteq Live(h)
      /\ g \in Heaps /\ N \in SUBSET Cells
      /\ N \cap Live(h) = {} /\ \A x \in Cells \ N : g[x] = h[x]
      /\ \A x \in N : g[x].live /\ (g[x].child # NULL => g[g[x].child].live)
      /\ Forest(N, Holders(g) \cap N, Lists(g), {o}) /\ o \in N
      /\ \A p \in Holders(g) \cap N : Linked(g, p)
      /\ g[o].next = NULL
  BY DEF Trees, Live, Holders, Joined, Forest
<1>2. Live(g) = Live(h) \cup N /\ Holders(g) = Holders(h) \cup (Holders(g) \cap N)
  BY <1>1 DEF Live, Holders
<1>3. ASSUME NEW q \in Holders(h)
      PROVE  /\ Children(g, q) = Children(h, q)
             /\ Linked(g, q)
             /\ \A x \in Children(h, q) : Behind(g, x) = Behind(h, x)
  <2>1. q \in Cells /\ g[q].child = h[q].child
    BY <1>1
  <2>2. Children(h, q) \subseteq Cells \ N
    BY <1>1, <2>1 DEF Trees, Forest, Lists
  <2>3. \A x \in Children(h, q) : /\ g[x].next = h[x].next /\ g[x].prev = h[x].prev
                                  /\ g[x].live = h[x].live
    BY <1>1, <2>2
  <2>4. Linked(h, q)
    BY DEF Trees
  <2> QED
    BY <1>1, <2>1, <2>3, <2>4, ListKept
<1>4. Forest(Live(g), Holders(g), Lists(g), hs \cup {o})
  <2> DEFINE G == Lists(g)
             J == Holders(g) \cap N
  <2>1. Forest(Live(h), Holders(h), Lists(h), hs) /\ Forest(N, J, G, {o})
    BY <1>1 DEF Trees
  <2>2. \A q \in Holders(h) : G[q] = Lists(h)[q]
    BY <1>1, <1>3 DEF Lists
  <2> HIDE DEF G, J
  <2>3. Live(h) \cap N = {}
    BY <1>1
  <2>4. Forest(Live(h) \cup N, Holders(h) \cup J, G, hs \cup {o})
    BY <2>1, <2>2, <2>3, ForestJoins
  <2> QED
    BY <1>2, <2>4 DEF G, J
<1>5. \A p \in Holders(g) : Linked(g, p)
  BY <1>1, <1>2, <1>3
<1>6. \A d \in hs \cup {o} : g[d].next = NULL
  <2>1. hs \subseteq Cells \ N
    BY <1>1 DEF Trees, Forest
  <2> QED
    BY <1>1, <2>1 DEF Trees
<1>7. ASSUME NEW r \in Live(g), g[r].child # NULL PROVE g[g[r].child].live
  <2>1. CASE r \in N
    BY <1>1, <1>7, <2>1
  <2>2. CASE r \in Live(h)
    <3>1. g[r].child = h[r].child
      BY <1>1, <2>2
    <3>2. h[r].child \in Live(h)
      BY <1>7, <2>2, <3>1, LiveShut
    <3> QED
      BY <1>1, <1>2, <3>1, <3>2 DEF Live
  <2> QED
    BY <1>2, <2>1, <2>2
<1>8. Trees(g, hs \cup {o})
  BY <1>1, <1>4, <1>5, <1>6, <1>7 DEF Trees
<1>9. Unmoved(h, g)
  BY <1>3 DEF Unmoved, Holders
<1> QED
  BY <1>2, <1>3, <1>8, <1>9 DEF Unmoved

\* A list of nothing.
LEMMA NoChildren ==
    ASSUME NEW g \in Heaps, NEW p \in Cells, g[p].child = NULL
    PROVE  Children(g, p) = {} /\ Linked(g, p)
<1> DEFINE none == {}
<1>1. none \in SUBSET Cells /\ g[p].child \in none \cup {NULL}
      /\ \A c \in none : g[c].next \in none \cup {NULL}
  OBVIOUS
<1> HIDE DEF none
<1>2. Children(g, p) \subseteq none
  BY <1>1, ListLeast
<1>3. Children(g, p) = {}
  BY <1>2 DEF none
<1> QED
  BY <1>3 DEF Linked

\* An item without children of its own.
Single(h, i) ==
    /\ i \in Items
    /\ i.live /\ i.next = NULL /\ i.child \in Live(h) \cup {NULL}
    /\ ~i.isReference => i.child = NULL

LEMMA SingleJoins ==
    ASSUME NEW h, NEW hs, Trees(h, hs), NEW c \in Cells \ Live(h), NEW i, Single(h, i)
    PROVE  Joined(h, [h EXCEPT ![c] = i], {c}, c)
<1> DEFINE g == [h EXCEPT ![c] = i]
           N == {c}
<1>1. h \in Heaps /\ Live(h) \subseteq Cells
  BY DEF Trees, Live
<1>2. g \in Heaps /\ g[c] = i /\ \A x \in Cells \ N : g[x] = h[x]
  BY <1>1 DEF Heaps, Items, Single
<1> HIDE DEF g
<1>3. i.child # NULL => i.child \in Cells \ N /\ h[i.child].live
  BY <1>1 DEF Single, Items, Live
<1>4. c \in Holders(g) => g[c].child = NULL
  BY <1>2 DEF Holders, Single, Items
<1>5. c \in Holders(g) => Children(g, c) = {} /\ Linked(g, c)
  BY <1>2, <1>4, NoChildren
<1>6. Forest(N, Holders(g) \cap N, Lists(g), {c})
  <2>1. \A p \in Holders(g) \cap N : Lists(g)[p] = {}
    BY <1>5 DEF Lists
  <2> QED
    BY <2>1 DEF Forest
<1> QED
  BY <1>2, <1>3, <1>5, <1>6 DEF Joined, Single, Items, g

\* An array and its items.
LEMMA ArrayJoins ==
    ASSUME NEW h, NEW hs, Trees(h, hs), NEW g \in Heaps, NEW a \in Cells, NEW s \in SUBSET Cells,
           NEW f \in s, NEW l \in s, a \notin s, (s \cup {a}) \cap Live(h) = {},
           \A x \in Cells \ (s \cup {a}) : g[x] = h[x],
           \A x \in s \cup {a} : g[x].live /\ ~g[x].isReference,
           g[a].child = f, g[a].next = NULL, Children(g, a) = s, g[f].prev = l, g[l].next = NULL,
           \A x \in s : g[x].child = NULL /\ (g[x].next # NULL => g[g[x].next].prev = x)
    PROVE  Joined(h, g, s \cup {a}, a)
<1> DEFINE N == s \cup {a}
<1>1. Linked(g, a)
  BY DEF Linked
<1>2. ASSUME NEW p \in s PROVE Children(g, p) = {} /\ Linked(g, p)
  BY NoChildren
<1>3. Holders(g) \cap N = N
  BY DEF Holders, Live
<1>4. Lists(g)[a] = s /\ \A p \in s : Lists(g)[p] = {}
  BY <1>2 DEF Lists
<1>5. Forest(N, N, Lists(g), {a})
  BY <1>4 DEF Forest
<1>6. \A p \in Holders(g) \cap N : Linked(g, p)
  BY <1>1, <1>2
<1>7. Forest(N, Holders(g) \cap N, Lists(g), {a})
  BY <1>3, <1>5
<1>8. \A x \in N : g[x].live /\ (g[x].child # NULL => g[g[x].child].live)
  OBVIOUS
<1> QED
  BY <1>6, <1>7, <1>8 DEF Joined

-----------------------------------------------------------------------------
(* The calls, one by one.                                                   *)

\* What every call does to a heap of trees.
Becoming(h, g, gs) == Trees(g, gs) /\ Ordered(h, g)

\* The name comes first.
LEMMA NamedKeeps ==
    ASSUME NEW h, NEW hs, Trees(h, hs), NEW c \in Cells, NEW k \in Keys \cup {NULL},
           NEW const \in BOOLEAN
    PROVE  LET m == Named(h, c, k, const) IN
           /\ Trees(m, hs) /\ Unmoved(h, m) /\ Live(m) = Live(h) /\ Holders(m) = Holders(h)
           /\ \A q \in Cells : Children(m, q) = Children(h, q)
           /\ \A p, B : Apart(h, p, c, B) => Apart(m, p, c, B)
<1> DEFINE m == Named(h, c, k, const)
<1>1. /\ m \in Heaps /\ Alike(h, m)
      /\ \A y \in Cells : /\ m[y].next = h[y].next /\ m[y].prev = h[y].prev
                          /\ m[y].child = h[y].child
  BY NameSet DEF Trees
<1> HIDE DEF m
<1>2. /\ Trees(m, hs) /\ Unmoved(h, m) /\ Live(m) = Live(h) /\ Holders(m) = Holders(h)
      /\ \A q \in Cells : Children(m, q) = Children(h, q)
  BY <1>1, LinksKept
<1>3. \A p, B : Apart(h, p, c, B) => Apart(m, p, c, B)
  BY <1>2 DEF Apart
<1> QED
  BY <1>2, <1>3 DEF m

LEMMA NamedAdds ==
    ASSUME NEW h, NEW hs, Trees(h, hs), NEW p \in Holders(h), NEW c \in hs,
           NEW B, Apart(h, p, c, B), NEW k \in Keys \cup {NULL}, NEW const \in BOOLEAN
    PROVE  Becoming(h, AddItem(Named(h, c, k, const), p, c), hs \ {c})
<1> DEFINE m == Named(h, c, k, const)
<1>1. c \in Cells
  BY DEF Trees, Forest, Live
<1>2. /\ Trees(m, hs) /\ Unmoved(h, m) /\ Holders(m) = Holders(h) /\ Apart(m, p, c, B)
  BY <1>1, NamedKeeps
<1> HIDE DEF m
<1>3. Keeps(m, AddItem(m, p, c), hs \ {c})
  BY <1>2, AddKeeps
<1>4. Ordered(h, AddItem(m, p, c))
  BY <1>2, <1>3, OrderedThrough DEF Keeps
<1> QED
  BY <1>3, <1>4 DEF Becoming, Keeps, m

\* An item is made and added to another's list, with a name or without one.
LEMMA MadeAdds ==
    ASSUME NEW h, NEW hs, Trees(h, hs), NEW p \in Holders(h), NEW c \in Cells \ Live(h),
           NEW i, Single(h, i)
    PROVE  LET m == [h EXCEPT ![c] = i] IN
           /\ Becoming(h, AddItem(m, p, c), hs)
           /\ \A k \in Keys : Becoming(h, AddItem(Named(m, c, k, FALSE), p, c), hs)
<1> DEFINE m == [h EXCEPT ![c] = i]
           ks == hs \cup {c}
           B == {c}
<1>1. /\ h \in Heaps /\ hs \subseteq Live(h) /\ Live(h) \subseteq Cells
      /\ Holders(h) \subseteq Live(h)
  BY DEF Trees, Forest, Live, Holders
<1>2. m[c] = i /\ m \in Heaps
  BY <1>1 DEF Heaps, Items, Single
<1>3. Joined(h, m, {c}, c)
  BY SingleJoins
<1> HIDE DEF m
<1>4. Trees(m, ks) /\ Unmoved(h, m) /\ Holders(h) \subseteq Holders(m)
  BY <1>3, JoinKeeps
<1>5. Apart(m, p, c, B)
  <2>1. p \notin B
    BY <1>1
  <2>2. c \in Holders(m) => Children(m, c) = {}
    BY <1>2, NoChildren DEF Holders, Single, Items
  <2> QED
    BY <2>1, <2>2 DEF Apart
<1>6. ks \ {c} = hs /\ c \in ks /\ p \in Holders(m)
  BY <1>1, <1>4
<1> HIDE DEF ks, B
<1>7. Becoming(h, AddItem(m, p, c), hs)
  <2>1. Keeps(m, AddItem(m, p, c), ks \ {c})
    BY <1>4, <1>5, <1>6, AddKeeps
  <2>2. Ordered(h, AddItem(m, p, c))
    BY <1>4, <2>1, OrderedThrough DEF Keeps
  <2> QED
    BY <1>6, <2>1, <2>2 DEF Becoming, Keeps
<1>8. ASSUME NEW k \in Keys PROVE Becoming(h, AddItem(Named(m, c, k, FALSE), p, c), hs)
  <2> DEFINE g == AddItem(Named(m, c, k, FALSE), p, c)
  <2>1. Becoming(m, g, ks \ {c})
    BY <1>4, <1>5, <1>6, NamedAdds
  <2> HIDE DEF g
  <2>2. Ordered(h, g)
    BY <1>4, <2>1, OrderedThrough DEF Becoming
  <2>3. Becoming(h, g, hs)
    BY <1>6, <2>1, <2>2 DEF Becoming
  <2> QED
    BY <2>3 DEF g
<1> QED
  BY <1>7, <1>8 DEF m

\* An item is made and deleted again.
LEMMA MadeGoes ==
    ASSUME NEW h, NEW hs, Trees(h, hs), NEW c \in Cells \ Live(h)
    PROVE  Becoming(h, Delete([h EXCEPT ![c] = NewItem], c), hs)
<1> DEFINE m == [h EXCEPT ![c] = NewItem]
           ks == hs \cup {c}
           gone == Deleted(m, c)
           P == {x \in Cells : ~m[x].isReference}
<1>1. h \in Heaps /\ hs \subseteq Live(h) /\ Live(h) \subseteq Cells
  BY DEF Trees, Forest, Live
<1>2. m[c] = NewItem /\ \A x \in Cells \ {c} : m[x] = h[x]
  BY <1>1 DEF Heaps, Items
<1>3. Single(h, NewItem)
  BY DEF Single, Items, NewItem, Links, Keys, NoKey, Values
<1>4. Joined(h, m, {c}, c)
  BY <1>3, SingleJoins
<1> HIDE DEF m
<1>5. Trees(m, ks) /\ Unmoved(h, m) /\ Live(m) = Live(h) \cup {c} /\ Holders(h) \subseteq Holders(m)
  BY <1>4, JoinKeeps
<1>6. gone \subseteq {c}
  <2>1. m[c].next = NULL /\ m[c].child = NULL
    BY <1>2 DEF NewItem
  <2>2. Shut(m, c, P, {c})
    BY <2>1 DEF Shut
  <2>3. gone = Reach(m, c, P) /\ {c} \in SUBSET Cells
    BY DEF Deleted
  <2> HIDE DEF P, gone
  <2> QED
    BY <2>2, <2>3, ReachLeast
<1>7. Deletable(m, c)
  <2>1. ASSUME NEW r \in Live(m) \ gone, m[r].isReference PROVE m[r].child # c
    <3>1. r # c
      BY <1>2, <2>1 DEF NewItem
    <3>2. r \in Live(h) /\ m[r] = h[r]
      BY <1>1, <1>2, <1>5, <2>1, <3>1
    <3>3. h[r].child \in Live(h) \cup {NULL}
      BY <3>2, LiveShut
    <3> QED
      BY <3>2, <3>3, TreeAssumption
  <2> QED
    BY <1>6, <2>1 DEF Deletable
<1>8. ks \ {c} = hs /\ c \in ks
  BY <1>1
<1> HIDE DEF ks
<1>9. /\ Trees(Delete(m, c), ks \ {c}) /\ Unmoved(m, Delete(m, c))
      /\ Holders(Delete(m, c)) \subseteq Holders(m)
  BY <1>5, <1>7, <1>8, DeleteKeeps
<1>10. Ordered(h, Delete(m, c))
  <2>1. Ordered(h, m)
    BY <1>5, UnmovedOrdered
  <2> QED
    BY <1>9, <2>1, OrderedThrough
<1> QED
  BY <1>8, <1>9, <1>10 DEF Becoming, m

\* get_object_item finds an item of the list.
LEMMA FindWithin ==
    ASSUME NEW h \in Heaps, NEW p \in Cells, NEW k, NEW cs, Find(h, p, k, cs) # NULL
    PROVE  Find(h, p, k, cs) \in Children(h, p)
<1> DEFINE ends(c) == Stops(h[c], k, cs)
           m == [c \in Cells |-> IF ends(c) THEN [h[c] EXCEPT !.next = NULL] ELSE h[c]]
           read == Reach(m, h[p].child, {})
           found == {c \in read : ends(c) /\ h[c].string.text # NULL}
<1>1. Find(h, p, k, cs) = IF found = {} THEN NULL ELSE CHOOSE c \in found : TRUE
  BY DEF Find
<1>2. Find(h, p, k, cs) \in found
  BY <1>1
<1>3. read \subseteq Children(h, p)
  <2>1. /\ Children(h, p) \in SUBSET Cells /\ h[p].child \in Children(h, p) \cup {NULL}
        /\ \A c \in Children(h, p) : h[c].next \in Children(h, p) \cup {NULL}
    BY ListShut
  <2>2. ASSUME NEW c \in Cells PROVE m[c].next = NULL \/ m[c].next = h[c].next
    <3>1. h[c] = [h[c] EXCEPT !.live = h[c].live] /\ h[c] \in
            Items
      BY DEF Heaps, Items
    <3> HIDE DEF ends
    <3> QED
      BY <3>1
  <2> HIDE DEF m
  <2>3. Shut(m, h[p].child, {}, Children(h, p))
    BY <2>1, <2>2 DEF Shut
  <2> QED
    BY <2>1, <2>3, ReachLeast
<1> QED
  BY <1>2, <1>3

-----------------------------------------------------------------------------
(* cJSON_Duplicate.                                                         *)

\* What is below c is c, or in a list of what is below it; and c is in none of those.
Rooted(h, c, R) ==
    /\ R \in SUBSET Cells /\ {c} \cup R \subseteq Live(h) /\ c \notin R
    /\ h[c].child \in R \cup {NULL}
    /\ \A x \in R : h[x].next \in R \cup {NULL} /\ h[x].child \in R \cup {NULL}
    /\ \A q \in {c} \cup R : /\ Children(h, q) \subseteq R /\ Linked(h, q)
                             /\ \A r \in {c} \cup R : r # q => Children(h, q) \cap Children(h, r) = {}
    /\ \A x \in R : \E q \in {c} \cup R : x \in Children(h, q)
    /\ R = Reach(h, h[c].child, Cells)

\* No item is below itself, where no reference shows another's children.
LEMMA NotBelowItself ==
    ASSUME NEW h, NEW hs, Trees(h, hs), NEW c \in Live(h),
           \A x \in Below(h, c) : h[x].isReference => h[x].child = NULL
    PROVE  \E R \in SUBSET Cells : Rooted(h, c, R) /\ Below(h, c) = {c} \cup R
<1> DEFINE R == Reach(h, h[c].child, Cells)
           S == {c} \cup R
           T == {x \in R : \E q \in Holders(h) \cap S : x \in Children(h, q)}
<1>1. /\ h \in Heaps /\ c \in Cells /\ Holders(h) \subseteq Live(h) /\ Live(h) \in SUBSET Cells
      /\ h[c].child \in Links
  BY DEF Trees, Holders, Live, Heaps, Items
<1>2. /\ R \in SUBSET Cells /\ h[c].child \in R \cup {NULL}
      /\ \A x \in R : h[x].next \in R \cup {NULL} /\ h[x].child \in R \cup {NULL}
  BY <1>1, ReachShut DEF Shut
<1>3. \A V \in SUBSET Cells : Shut(h, h[c].child, Cells, V) => R \subseteq V
  BY ReachLeast
<1>4. Below(h, c) = S
  BY DEF Below
<1> HIDE DEF R
<1>5. S \subseteq Live(h)
  <2>1. Shut(h, h[c].child, Cells, Live(h))
    BY <1>1, LiveShut DEF Shut
  <2> QED
    BY <1>1, <1>3, <2>1
<1>6. ASSUME NEW q \in S PROVE Children(h, q) \subseteq R
  <2>1. h[q].child \in R \cup {NULL}
    BY <1>2
  <2> QED
    BY <1>2, <2>1, ListLeast
<1>7. \A x \in S : x \in Holders(h) \/ h[x].child = NULL
  BY <1>4, <1>5 DEF Holders
<1>8. \A x \in S : h[x].child \in Children(h, x) \cup {NULL}
  BY <1>1, <1>2, ListShut
<1>9. R \subseteq T
  <2>1. T \in SUBSET Cells
    BY <1>2
  <2>2. h[c].child \in T \cup {NULL}
    BY <1>2, <1>7, <1>8
  <2>3. ASSUME NEW x \in T PROVE h[x].next \in T \cup {NULL} /\ h[x].child \in T \cup {NULL}
    <3>1. PICK q \in Holders(h) \cap S : x \in Children(h, q)
      OBVIOUS
    <3>2. h[x].next \in Children(h, q) \cup {NULL}
      BY <1>1, <3>1, ListShut
    <3>3. x \in R
      OBVIOUS
    <3>4. h[x].child \in T \cup {NULL}
      BY <1>2, <1>7, <1>8, <3>3
    <3> QED
      BY <1>2, <3>1, <3>2, <3>4
  <2> HIDE DEF T
  <2>4. Shut(h, h[c].child, Cells, T)
    BY <2>2, <2>3 DEF Shut
  <2> QED
    BY <1>3, <2>1, <2>4
<1>10. /\ \A q \in Holders(h) : Children(h, q) \cap hs = {}
       /\ \A q, r \in Holders(h) : q # r => Children(h, q) \cap Children(h, r) = {}
  BY <1>1 DEF Trees, Forest, Lists
<1>11. c \notin R
  <2> SUFFICES ASSUME c \in R PROVE FALSE
    OBVIOUS
  <2>1. \A x \in S : \E q \in Holders(h) \cap S : x \in Children(h, q)
    BY <1>9
  <2> DEFINE Z == Live(h) \ S
  <2>2. Z \in SUBSET Cells /\ hs \subseteq Z
    BY <1>1, <1>10, <2>1 DEF Trees, Forest
  <2>3. \A q \in Holders(h) \cap Z : Lists(h)[q] \subseteq Z
    <3> SUFFICES ASSUME NEW q \in Holders(h) \cap Z, NEW x \in Children(h, q) PROVE x \in Z
      BY <1>1 DEF Lists
    <3>1. x \in Live(h)
      BY <1>1 DEF Trees, Forest, Lists
    <3>2. x \notin S
      BY <1>10, <2>1
    <3> QED
      BY <3>1, <3>2
  <2> HIDE DEF Z
  <2>4. Live(h) \subseteq Z
    BY <2>2, <2>3 DEF Trees, Forest
  <2> QED
    BY <1>1, <2>4 DEF Z
<1>12. ASSUME NEW q \in S
       PROVE  /\ Linked(h, q)
              /\ \A r \in S : r # q => Children(h, q) \cap Children(h, r) = {}
  <2>1. q \in Cells /\ S \subseteq Cells
    BY <1>1, <1>2
  <2>2. \A r \in S : r \in Holders(h) \/ Children(h, r) = {}
    BY <1>1, <1>7, <2>1, NoChildren
  <2>3. Linked(h, q)
    <3>1. CASE q \in Holders(h)
      BY <3>1 DEF Trees
    <3>2. CASE q \notin Holders(h)
      BY <1>1, <1>7, <2>1, <3>2, NoChildren
    <3> QED
      BY <3>1, <3>2
  <2> QED
    BY <1>10, <2>2, <2>3
<1>13. \A x \in R : \E q \in S : x \in Children(h, q)
  BY <1>9
<1>14. Rooted(h, c, R)
  BY <1>2, <1>5, <1>6, <1>11, <1>12, <1>13 DEF Rooted, R
<1> QED
  BY <1>2, <1>4, <1>14

-----------------------------------------------------------------------------
(* The copy.                                                                *)

\* Where a link of a copy leads to.
Across(f, y) == IF y \in DOMAIN f THEN f[y] ELSE NULL

\* g is h and the copies f of the items S.
Copied(h, g, c, S, f) ==
    /\ g \in Heaps /\ S \in SUBSET Cells /\ f \in [S -> Cells \ Live(h)]
    /\ \A x, y \in S : f[x] = f[y] => x = y
    /\ \A x \in S : /\ g[f[x]].live /\ ~g[f[x]].isReference
                    /\ g[f[x]].child = Across(f, h[x].child)
                    /\ g[f[x]].next = IF x = c THEN NULL ELSE Across(f, h[x].next)
                    /\ g[f[x]].prev = IF x = c THEN NULL ELSE Across(f, h[x].prev)
    /\ \A y \in Cells : (\A x \in S : f[x] # y) => g[y] = h[y]

\* The copies of a tree are a tree.
LEMMA CopyJoins ==
    ASSUME NEW h \in Heaps, NEW c \in Cells, NEW R, Rooted(h, c, R), NEW g, NEW f,
           Copied(h, g, c, {c} \cup R, f)
    PROVE  Joined(h, g, {f[x] : x \in {c} \cup R}, f[c])
<1> DEFINE S == {c} \cup R
           N == {f[x] : x \in S}
<1>1. /\ R \in SUBSET Cells /\ c \notin R /\ h[c].child \in R \cup {NULL}
      /\ \A x \in R : h[x].next \in R \cup {NULL} /\ h[x].child \in R \cup {NULL}
      /\ \A q \in S : Children(h, q) \subseteq R /\ Linked(h, q)
      /\ \A q, r \in S : r # q => Children(h, q) \cap Children(h, r) = {}
      /\ \A x \in R : \E q \in S : x \in Children(h, q)
  BY DEF Rooted
<1>2. /\ g \in Heaps /\ S \in SUBSET Cells /\ f \in [S -> Cells \ Live(h)]
      /\ \A x, y \in S : f[x] = f[y] => x = y
      /\ \A y \in Cells : (\A x \in S : f[x] # y) => g[y] = h[y]
      /\ \A x \in S : f[x] \in Cells /\ f[x] # NULL /\ f[x] \notin Live(h)
  BY TreeAssumption DEF Copied
<1>3. NULL \notin S
  BY <1>2, TreeAssumption
<1>4. /\ \A x \in S : /\ g[f[x]].live /\ ~g[f[x]].isReference
                      /\ h[x].child = NULL => g[f[x]].child = NULL
                      /\ h[x].child # NULL => g[f[x]].child = f[h[x].child] /\ h[x].child \in R
      /\ \A x \in R : /\ h[x].next = NULL => g[f[x]].next = NULL
                      /\ h[x].next # NULL => g[f[x]].next = f[h[x].next] /\ h[x].next \in R
                      /\ h[x].prev \in R => g[f[x]].prev = f[h[x].prev]
      /\ g[f[c]].next = NULL
  <2>1. \A y : y \in S => Across(f, y) = f[y]
    BY <1>2 DEF Across
  <2>2. Across(f, NULL) = NULL
    BY <1>2, <1>3 DEF Across
  <2> QED
    BY <1>1, <2>1, <2>2 DEF Copied
<1> HIDE DEF S
<1>5. c \in S /\ R \subseteq S /\ S = {c} \cup R
  BY DEF S
<1>6. ASSUME NEW q \in S
      PROVE  Children(g, f[q]) = {f[x] : x \in Children(h, q)} /\ Linked(g, f[q])
  <2> DEFINE s == Children(h, q)
             t == Children(g, f[q])
             i == {f[x] : x \in s}
  <2>1. /\ s \subseteq R /\ q \in Cells /\ h[q].child \in s \cup {NULL}
        /\ \A x \in s : h[x].next \in s \cup {NULL}
    BY <1>1, <1>2, ListShut
  <2>2. t \in SUBSET Cells /\ g[f[q]].child \in t \cup {NULL} /\ \A y \in t : g[y].next \in t \cup {NULL}
    BY <1>2, ListShut
  <2>3. /\ \A x \in s : h[x].live /\ (h[x].next # NULL => h[h[x].next].prev = x)
        /\ h[q].child # NULL => h[h[q].child].prev \in s /\ h[h[h[q].child].prev].next = NULL
    BY <1>1 DEF Linked
  <2> HIDE DEF s, t
  <2>4. t \subseteq i
    <3>1. i \in SUBSET Cells
      BY <1>2, <1>5, <2>1
    <3>2. g[f[q]].child \in i \cup {NULL}
      BY <1>4, <2>1
    <3>3. \A y \in i : g[y].next \in i \cup {NULL}
      BY <1>4, <2>1
    <3> HIDE DEF i
    <3> QED
      BY <3>1, <3>2, <3>3, ListLeast DEF t
  <2>5. i \subseteq t
    <3> DEFINE V == {x \in s : f[x] \in t}
    <3>1. V \in SUBSET Cells
      BY <1>1, <2>1
    <3>2. h[q].child \in V \cup {NULL}
      BY <1>2, <1>4, <1>5, <2>1, <2>2
    <3>3. \A x \in V : h[x].next \in V \cup {NULL}
      BY <1>2, <1>4, <1>5, <2>1, <2>2
    <3> HIDE DEF V
    <3>4. s \subseteq V
      BY <3>1, <3>2, <3>3, ListLeast DEF s
    <3> QED
      BY <3>4 DEF V
  <2>6. t = i
    BY <2>4, <2>5
  <2>7. ASSUME NEW y \in t
        PROVE  g[y].live /\ (g[y].next # NULL => g[g[y].next].prev = y)
    <3>1. PICK x \in s : y = f[x]
      BY <2>6
    <3>2. x \in R /\ x \in S
      BY <1>5, <2>1, <3>1
    <3>3. ASSUME g[y].next # NULL PROVE g[g[y].next].prev = y
      <4>1. h[x].next # NULL /\ g[y].next = f[h[x].next] /\ h[x].next \in R
        BY <1>4, <3>1, <3>2, <3>3
      <4>2. h[h[x].next].prev = x
        BY <2>3, <3>1, <4>1
      <4> QED
        BY <1>4, <3>1, <3>2, <4>1, <4>2
    <3> QED
      BY <1>4, <3>1, <3>2, <3>3
  <2>8. ASSUME g[f[q]].child # NULL
        PROVE  g[g[f[q]].child].prev \in t /\ g[g[g[f[q]].child].prev].next = NULL
    <3>1. h[q].child # NULL /\ h[q].child \in R /\ g[f[q]].child = f[h[q].child]
      BY <1>4, <2>8
    <3>2. h[h[q].child].prev \in s /\ h[h[h[q].child].prev].next = NULL
      BY <2>3, <3>1
    <3>3. g[f[h[q].child]].prev = f[h[h[q].child].prev]
      BY <1>4, <2>1, <3>1, <3>2
    <3>4. g[f[h[h[q].child].prev]].next = NULL
      BY <1>4, <2>1, <3>2
    <3> QED
      BY <2>6, <3>1, <3>2, <3>3, <3>4
  <2> QED
    BY <2>6, <2>7, <2>8 DEF Linked, s, t
<1>7. Holders(g) \cap N = N
  BY <1>2, <1>4 DEF Holders, Live
<1>8. \A q \in S : Lists(g)[f[q]] = {f[x] : x \in Children(h, q)}
  BY <1>2, <1>6 DEF Lists
<1>9. Forest(N, N, Lists(g), {f[c]})
  <2> DEFINE K == Lists(g)
  <2>1. \A q \in S : K[f[q]] = {f[x] : x \in Children(h, q)}
    BY <1>8
  <2> HIDE DEF K
  <2>2. N \in SUBSET Cells /\ {f[c]} \subseteq N
    BY <1>2, <1>5
  <2>3. ASSUME NEW q \in S PROVE K[f[q]] \subseteq N /\ K[f[q]] \cap {f[c]} = {}
    BY <1>1, <1>2, <1>5, <2>1
  <2>4. ASSUME NEW q \in S, NEW r \in S, f[q] # f[r] PROVE K[f[q]] \cap K[f[r]] = {}
    <3>1. Children(h, q) \cap Children(h, r) = {} /\ Children(h, q) \subseteq S
          /\ Children(h, r) \subseteq S
      BY <1>1, <1>5, <2>4
    <3> QED
      BY <1>2, <2>1, <3>1
  <2>5. ASSUME NEW V \in SUBSET Cells, f[c] \in V, \A p \in N \cap V : K[p] \subseteq V
        PROVE  N \subseteq V
    <3> DEFINE W == {x \in R : \E q \in S : f[q] \in V /\ x \in Children(h, q)}
    <3>1. \A x \in W : f[x] \in V
      BY <2>1, <2>5
    <3>2. W \in SUBSET Cells
      BY <1>1
    <3>3. \A q \in S : h[q].child \in Children(h, q) \cup {NULL} /\ Children(h, q) \subseteq R
      BY <1>1, <1>2, ListShut
    <3>4. h[c].child \in W \cup {NULL}
      BY <1>5, <2>5, <3>3
    <3>5. ASSUME NEW x \in W PROVE h[x].next \in W \cup {NULL} /\ h[x].child \in W \cup {NULL}
      <4>1. PICK q \in S : f[q] \in V /\ x \in Children(h, q)
        OBVIOUS
      <4>2. h[x].next \in Children(h, q) \cup {NULL}
        BY <1>2, <4>1, ListShut
      <4>3. h[x].next \in W \cup {NULL}
        BY <1>1, <4>1, <4>2
      <4>4. x \in S /\ f[x] \in V
        BY <1>5, <3>1
      <4>5. h[x].child \in W \cup {NULL}
        BY <3>3, <4>4
      <4> QED
        BY <4>3, <4>5
    <3> HIDE DEF W
    <3>6. Shut(h, h[c].child, Cells, W)
      BY <3>4, <3>5 DEF Shut
    <3>7. R \subseteq W
      BY <3>2, <3>6, ReachLeast DEF Rooted
    <3> QED
      BY <1>5, <2>5, <3>1, <3>7
  <2>6. \A p \in N : K[p] \subseteq N /\ K[p] \cap {f[c]} = {}
    BY <2>3
  <2>7. \A p, r \in N : p # r => K[p] \cap K[r] = {}
    BY <2>4
  <2> HIDE DEF N
  <2>8. Forest(N, N, K, {f[c]})
    BY <2>2, <2>5, <2>6, <2>7 DEF Forest
  <2> QED
    BY <2>8 DEF K
<1>10. \A p \in N : Linked(g, p)
  BY <1>6
<1>11. \A y \in N : g[y].live /\ (g[y].child # NULL => g[g[y].child].live)
  BY <1>4, <1>5
<1>12. N \in SUBSET Cells /\ N \cap Live(h) = {} /\ \A y \in Cells \ N : g[y] = h[y]
  BY <1>2
<1> HIDE DEF N
<1>13. Forest(N, Holders(g) \cap N, Lists(g), {f[c]})
  BY <1>7, <1>9
<1>14. Joined(h, g, N, f[c])
  BY <1>2, <1>4, <1>7, <1>10, <1>11, <1>12, <1>13 DEF Joined
<1> QED
  BY <1>14 DEF N, S

-----------------------------------------------------------------------------
(* The calls of the interface.                                              *)

LEMMA CreateKeeps ==
    ASSUME Trees(node, held), NEW c \in Cells, NEW i, Single(node, i), Create(c, i)
    PROVE  Becoming(node, node', held')
<1>1. c \in Cells \ Live(node)
  BY DEF Create, FreeCells
<1>2. node' = [node EXCEPT ![c] = i] /\ held' = held \cup {c}
  BY DEF Create, Result
<1>3. Joined(node, node', {c}, c)
  BY <1>1, <1>2, SingleJoins
<1>4. Trees(node', held \cup {c}) /\ Unmoved(node, node')
  BY <1>3, JoinKeeps
<1> QED
  BY <1>2, <1>4, UnmovedOrdered DEF Becoming

\* cJSON_Create... of one item.
LEMMA CreatesKeep ==
    ASSUME Trees(node, held), NEW c \in Cells,
           CreateItem(c) \/ CreateString(c) \/ CreateStringReference(c)
    PROVE  Becoming(node, node', held')
<1>1. Single(node, NewItem)
  BY DEF Single, Items, NewItem, Links, Keys, NoKey, Values
<1>2. Single(node, [NewItem EXCEPT !.value = "own"])
  BY DEF Single, Items, NewItem, Links, Keys, NoKey, Values
<1>3. Single(node, [NewItem EXCEPT !.value = "borrowed", !.isReference = TRUE])
  BY DEF Single, Items, NewItem, Links, Keys, NoKey, Values
<1> HIDE DEF NewItem
<1>4. CASE CreateItem(c)
  BY <1>1, <1>4, CreateKeeps DEF CreateItem
<1>5. CASE CreateString(c)
  BY <1>2, <1>5, CreateKeeps DEF CreateString
<1>6. CASE CreateStringReference(c)
  BY <1>3, <1>6, CreateKeeps DEF CreateStringReference
<1> QED
  BY <1>4, <1>5, <1>6

\* The item at i of an array of n that was made.
ArrayItem(v, next, prev) == [NewItem EXCEPT !.value = v, !.next = next, !.prev = prev]

\* cJSON_Create...Array, of one element and of two.
LEMMA CreateArrayKeeps ==
    ASSUME Trees(node, held), NEW a \in FreeCells, NEW c \in FreeCells, NEW d \in FreeCells,
           NEW v \in {"none", "own"}, CreateArray(a, <<c>>, v) \/ CreateArray(a, <<c, d>>, v)
    PROVE  Becoming(node, node', held')
<1>1. /\ node \in Heaps /\ a \in Cells \ Live(node) /\ c \in Cells \ Live(node)
      /\ d \in Cells \ Live(node)
  BY DEF Trees, FreeCells
<1>2. ASSUME NEW s \in SUBSET Cells, NEW l \in s, c \in s, Joined(node, node', s \cup {a}, a),
             held' = held \cup {a}
      PROVE  Becoming(node, node', held')
  <2>1. Trees(node', held \cup {a}) /\ Unmoved(node, node')
    BY <1>2, JoinKeeps
  <2> QED
    BY <1>2, <2>1, UnmovedOrdered DEF Becoming
<1>3. /\ ArrayItem(v, NULL, c) \in Items
      /\ \A x, y \in Links : ArrayItem(v, x, y) \in Items
      /\ [NewItem EXCEPT !.child = c] \in Items
  BY <1>1 DEF ArrayItem, NewItem, Items, Links, Keys, NoKey, Values
<1>4. CASE CreateArray(a, <<c>>, v)
  <2> DEFINE s == {c}
             g == [x \in Cells |-> IF x = a THEN [NewItem EXCEPT !.child = c]
                                   ELSE IF x = c THEN ArrayItem(v, NULL, c) ELSE node[x]]
  <2>1. node' = g /\ c # a /\ held' = held \cup {a}
    <3> DEFINE t == <<c>>
               link(e) ==
                 LET i == CHOOSE j \in DOMAIN t : t[j] = e
                 IN  [NewItem EXCEPT
                        !.value = v,
                        !.next = IF i = Len(t) THEN NULL ELSE t[i + 1],
                        !.prev = IF i = 1 THEN t[Len(t)] ELSE t[i - 1]]
    <3>1. /\ \A i \in DOMAIN t : t[i] # a
          /\ node' = [x \in Cells |-> IF x = a THEN [NewItem EXCEPT !.child = t[1]]
                                      ELSE IF \E i \in DOMAIN t : t[i] = x THEN link(x)
                                      ELSE node[x]]
          /\ held' = held \cup {a}
      BY <1>4 DEF CreateArray, Result
    <3>2. DOMAIN t = {1} /\ t[1] = c /\ Len(t) = 1
      OBVIOUS
    <3>3. link(c) = ArrayItem(v, NULL, c)
      <4>1. (CHOOSE j \in DOMAIN t : t[j] = c) = 1
        BY <3>2
      <4> HIDE DEF t
      <4> QED
        BY <3>2, <4>1 DEF ArrayItem
    <3> HIDE DEF t, link
    <3>4. \A x : (\E i \in DOMAIN t : t[i] = x) <=> x = c
      BY <3>2
    <3> QED
      BY <3>1, <3>2, <3>3, <3>4
  <2>2. g \in Heaps
    BY <1>1, <1>3 DEF Heaps, Items
  <2>3. /\ g[a].live /\ ~g[a].isReference /\ g[a].child = c /\ g[a].next = NULL
        /\ g[c].live /\ ~g[c].isReference /\ g[c].child = NULL /\ g[c].next = NULL
        /\ g[c].prev = c
    BY <1>1, <2>1 DEF ArrayItem, NewItem
  <2>4. \A x \in Cells \ (s \cup {a}) : g[x] = node[x]
    OBVIOUS
  <2> HIDE DEF g
  <2>5. Children(g, a) = s
    <3>1. Children(g, a) \subseteq s
      <4>1. /\ s \in SUBSET Cells /\ g[a].child \in s \cup {NULL}
            /\ \A x \in s : g[x].next \in s \cup {NULL}
        BY <1>1, <2>3
      <4> HIDE DEF s
      <4> QED
        BY <4>1, ListLeast
    <3>2. c \in Children(g, a)
      BY <1>1, <2>2, <2>3, ListShut, TreeAssumption
    <3> QED
      BY <3>1, <3>2
  <2>6. Joined(node, g, s \cup {a}, a)
    BY <1>1, <2>1, <2>2, <2>3, <2>4, <2>5, ArrayJoins
  <2> QED
    BY <1>1, <1>2, <2>1, <2>6
<1>5. CASE CreateArray(a, <<c, d>>, v)
  <2> DEFINE s == {c, d}
             g == [x \in Cells |-> IF x = a THEN [NewItem EXCEPT !.child = c]
                                   ELSE IF x = c THEN ArrayItem(v, d, d)
                                   ELSE IF x = d THEN ArrayItem(v, NULL, c) ELSE node[x]]
  <2>1. node' = g /\ c # a /\ d # a /\ c # d /\ held' = held \cup {a}
    <3> DEFINE t == <<c, d>>
               item(i) == [NewItem EXCEPT
                             !.value = v,
                             !.next = IF i = Len(t) THEN NULL ELSE t[i + 1],
                             !.prev = IF i = 1 THEN t[Len(t)] ELSE t[i - 1]]
               link(e) == item(CHOOSE j \in DOMAIN t : t[j] = e)
    <3>1. /\ \A i \in DOMAIN t : t[i] # a /\ \A j \in DOMAIN t : t[i] = t[j] => i = j
          /\ node' = [x \in Cells |-> IF x = a THEN [NewItem EXCEPT !.child = t[1]]
                                      ELSE IF \E i \in DOMAIN t : t[i] = x THEN link(x)
                                      ELSE node[x]]
          /\ held' = held \cup {a}
      BY <1>5 DEF CreateArray, Result
    <3>2. DOMAIN t = {1, 2} /\ t[1] = c /\ t[2] = d /\ Len(t) = 2
      OBVIOUS
    <3>3. c # a /\ d # a /\ c # d
      <4> HIDE DEF t, link
      <4> QED
        BY <3>1, <3>2
    <3>4. link(c) = ArrayItem(v, d, d)
      <4>1. (CHOOSE j \in DOMAIN t : t[j] = c) = 1
        <5> HIDE DEF t
        <5> QED
          BY <3>2, <3>3
      <4>2. link(c) = item(1)
        <5> HIDE DEF t, item
        <5> QED
          BY <4>1
      <4>3. item(1) = [NewItem EXCEPT !.value = v, !.next = t[1 + 1], !.prev = t[Len(t)]]
        <5> HIDE DEF t
        <5> QED
          BY <3>2
      <4>4. t[1 + 1] = d /\ t[Len(t)] = d
        OBVIOUS
      <4> HIDE DEF t, link, item
      <4> QED
        BY <4>2, <4>3, <4>4 DEF ArrayItem
    <3>5. link(d) = ArrayItem(v, NULL, c)
      <4>1. (CHOOSE j \in DOMAIN t : t[j] = d) = 2
        <5> HIDE DEF t
        <5> QED
          BY <3>2, <3>3
      <4>2. link(d) = item(2)
        <5> HIDE DEF t, item
        <5> QED
          BY <4>1
      <4>3. item(2) = [NewItem EXCEPT !.value = v, !.next = NULL, !.prev = t[2 - 1]]
        <5> HIDE DEF t
        <5> QED
          BY <3>2
      <4>4. t[2 - 1] = c
        OBVIOUS
      <4> HIDE DEF t, link, item
      <4> QED
        BY <4>2, <4>3, <4>4 DEF ArrayItem
    <3> HIDE DEF t, link
    <3>6. \A x : (\E i \in DOMAIN t : t[i] = x) <=> (x = c \/ x = d)
      BY <3>2
    <3>7. ASSUME NEW x \in Cells PROVE node'[x] = g[x]
      BY <3>1, <3>2, <3>3, <3>4, <3>5, <3>6
    <3>8. node' = [x \in Cells |-> node'[x]]
      BY <3>1
    <3> QED
      BY <3>1, <3>3, <3>7, <3>8
  <2>2. g \in Heaps
    <3>1. d \in Links /\ c \in Links /\ NULL \in Links
      BY <1>1 DEF Links
    <3> QED
      BY <1>1, <1>3, <3>1 DEF Heaps, Items
  <2>3. /\ g[a].live /\ ~g[a].isReference /\ g[a].child = c /\ g[a].next = NULL
        /\ g[c].live /\ ~g[c].isReference /\ g[c].child = NULL /\ g[c].next = d
        /\ g[c].prev = d
        /\ g[d].live /\ ~g[d].isReference /\ g[d].child = NULL /\ g[d].next = NULL
        /\ g[d].prev = c
    BY <1>1, <2>1 DEF ArrayItem, NewItem
  <2>4. \A x \in Cells \ (s \cup {a}) : g[x] = node[x]
    OBVIOUS
  <2> HIDE DEF g
  <2>5. Children(g, a) = s
    <3>1. Children(g, a) \subseteq s
      <4>1. /\ s \in SUBSET Cells /\ g[a].child \in s \cup {NULL}
            /\ \A x \in s : g[x].next \in s \cup {NULL}
        BY <1>1, <2>3
      <4> HIDE DEF s
      <4> QED
        BY <4>1, ListLeast
    <3>2. c \in Children(g, a)
      BY <1>1, <2>2, <2>3, ListShut, TreeAssumption
    <3>3. d \in Children(g, a)
      BY <1>1, <2>2, <2>3, <3>2, ListShut, TreeAssumption
    <3> QED
      BY <3>1, <3>2, <3>3
  <2>6. Joined(node, g, s \cup {a}, a)
    <3>1. \A x \in s : g[x].child = NULL /\ (g[x].next # NULL => g[g[x].next].prev = x)
      BY <2>3
    <3>2. \A x \in s \cup {a} : g[x].live /\ ~g[x].isReference
      BY <2>3
    <3>3. s \in SUBSET Cells /\ c \in s /\ d \in s /\ a \notin s /\ (s \cup {a}) \cap Live(node) = {}
      BY <1>1, <2>1
    <3> HIDE DEF s
    <3> QED
      BY <1>1, <2>2, <2>3, <2>4, <2>5, <3>1, <3>2, <3>3, ArrayJoins
  <2> QED
    BY <1>1, <1>2, <2>1, <2>6
<1> QED
  BY <1>4, <1>5

\* The calls that add what the caller holds.
AddedTo(p, c) ==
    \/ AddItemToArray(p, c)
    \/ \E k \in Keys, const \in BOOLEAN : AddItemToObject(p, k, const, c)
    \/ \E x \in Children(node, p) \cup {NULL} : InsertItemInArray(p, x, c)

LEMMA AddsKeep ==
    ASSUME Trees(node, held), NEW c \in held, NEW p \in Parents(node, c), AddedTo(p, c)
    PROVE  Becoming(node, node', held')
<1> DEFINE B == Below(node, c)
<1>1. node \in Heaps /\ c \in Cells
  BY DEF Trees, Forest, Live
<1>2. p \in Holders(node) /\ Apart(node, p, c, B)
  BY <1>1, ParentApart
<1> HIDE DEF B
<1>3. /\ Keeps(node, AddItem(node, p, c), held \ {c})
      /\ \A x \in Children(node, p) : Keeps(node, InsertItem(node, p, x, c), held \ {c})
  BY <1>2, AddKeeps
<1>4. CASE AddItemToArray(p, c)
  BY <1>3, <1>4 DEF AddItemToArray, Result, Keeps, Becoming
<1>5. ASSUME NEW k \in Keys, NEW const \in BOOLEAN, AddItemToObject(p, k, const, c)
      PROVE  Becoming(node, node', held')
  <2>1. Becoming(node, AddItem(Named(node, c, k, const), p, c), held \ {c})
    BY <1>2, NamedAdds
  <2> QED
    BY <1>5, <2>1 DEF AddItemToObject, Result
<1>6. ASSUME NEW x \in Children(node, p) \cup {NULL}, InsertItemInArray(p, x, c)
      PROVE  Becoming(node, node', held')
  BY <1>3, <1>6 DEF InsertItemInArray, Result, Keeps, Becoming
<1> QED
  BY <1>4, <1>5, <1>6 DEF AddedTo

\* The calls that replace one item by another.
LEMMA ReplacesKeep ==
    ASSUME Trees(node, held), NEW c \in held, NEW p \in Parents(node, c),
           \/ \E x \in Children(node, p) : ReplaceItemInArray(p, x, c)
           \/ \E k \in Keys, cs, named \in BOOLEAN : ReplaceItemInObject(p, k, cs, c, named)
    PROVE  Becoming(node, node', held')
<1> DEFINE B == Below(node, c)
<1>1. node \in Heaps /\ c \in Cells
  BY DEF Trees, Forest, Live
<1>2. p \in Holders(node) /\ Apart(node, p, c, B) /\ p \in Cells
  BY <1>1, ParentApart DEF Holders, Live
<1> HIDE DEF B
<1>3. ASSUME NEW x \in Children(node, p), ReplaceItemInArray(p, x, c)
      PROVE  Becoming(node, node', held')
  BY <1>2, <1>3, ReplaceKeeps DEF ReplaceItemInArray, Replaces, Result, Becoming
<1>4. ASSUME NEW k \in Keys, NEW cs \in BOOLEAN, NEW named \in BOOLEAN,
             ReplaceItemInObject(p, k, cs, c, named)
      PROVE  Becoming(node, node', held')
  <2> DEFINE key == IF named THEN k ELSE NULL
             h == Named(node, c, key, FALSE)
             x == Find(h, p, k, cs)
  <2>1. key \in Keys \cup {NULL}
    OBVIOUS
  <2>2. IF x = NULL THEN Result(h, held) ELSE Replaces(h, p, x, c)
    BY <1>4 DEF ReplaceItemInObject
  <2> HIDE DEF key
  <2>3. Trees(h, held) /\ Unmoved(node, h) /\ Holders(h) = Holders(node) /\ Apart(h, p, c, B)
    BY <1>1, <1>2, <2>1, NamedKeeps
  <2> HIDE DEF h
  <2>4. CASE x = NULL
    BY <2>2, <2>3, <2>4, UnmovedOrdered DEF Result, Becoming
  <2>5. CASE x # NULL
    <3>1. x \in Children(h, p)
      BY <1>2, <2>3, <2>5, FindWithin DEF Trees
    <3> HIDE DEF x
    <3> DEFINE g == Delete(ReplaceItem(h, p, x, c), x)
    <3>2. Deletable(ReplaceItem(h, p, x, c), x) /\ node' = g /\ held' = held \ {c}
      BY <2>2, <2>5 DEF Replaces, Result
    <3>3. Trees(g, held \ {c}) /\ Ordered(h, g)
      BY <1>2, <2>3, <3>1, <3>2, ReplaceKeeps
    <3> HIDE DEF g
    <3>4. Ordered(node, g)
      BY <2>3, <3>3, OrderedThrough
    <3> QED
      BY <3>2, <3>3, <3>4 DEF Becoming
  <2> QED
    BY <2>4, <2>5
<1> QED
  BY <1>3, <1>4

\* The calls that take an item out of a list.
LEMMA DetachesKeep ==
    ASSUME Trees(node, held), NEW p \in Holders(node),
           \/ \E c \in Children(node, p) : DetachFromArray(p, c) \/ DeleteFromArray(p, c)
           \/ \E k \in Keys, cs \in BOOLEAN : DetachFromObject(p, k, cs) \/ DeleteFromObject(p, k, cs)
    PROVE  Becoming(node, node', held')
<1>1. node \in Heaps /\ p \in Cells
  BY DEF Trees, Holders, Live
<1>2. ASSUME NEW c \in Children(node, p), Result(DetachItem(node, p, c), held \cup {c})
      PROVE  Becoming(node, node', held')
  BY <1>2, DetachKeeps DEF Keeps, Result, Becoming
<1>3. ASSUME NEW c \in Children(node, p), DeleteDetached(p, c)
      PROVE  Becoming(node, node', held')
  BY <1>3, DeleteDetachedKeeps DEF DeleteDetached, Result, Becoming
<1>4. \A k, cs : Find(node, p, k, cs) # NULL => Find(node, p, k, cs) \in Children(node, p)
  BY <1>1, FindWithin
<1>5. ASSUME NEW c \in Children(node, p), DetachFromArray(p, c) \/ DeleteFromArray(p, c)
      PROVE  Becoming(node, node', held')
  BY <1>2, <1>3, <1>5 DEF DetachFromArray, DeleteFromArray
<1>6. ASSUME NEW k \in Keys, NEW cs \in BOOLEAN,
             DetachFromObject(p, k, cs) \/ DeleteFromObject(p, k, cs)
      PROVE  Becoming(node, node', held')
  BY <1>2, <1>3, <1>4, <1>6 DEF DetachFromObject, DeleteFromObject
<1> QED
  BY <1>5, <1>6

\* The calls that make an item and add it.
LEMMA MakesKeep ==
    ASSUME Trees(node, held), NEW p \in Holders(node), NEW c \in FreeCells, NEW k \in Keys,
           NEW added \in BOOLEAN, AddNewToObject(p, k, c, added)
    PROVE  Becoming(node, node', held')
<1>1. c \in Cells \ Live(node)
  BY DEF FreeCells
<1>2. Single(node, NewItem)
  BY DEF Single, Items, NewItem, Links, Keys, NoKey, Values
<1>3. CASE added
  BY <1>1, <1>2, <1>3, MadeAdds DEF AddNewToObject, Result
<1>4. CASE ~added
  BY <1>1, <1>4, MadeGoes DEF AddNewToObject, Result
<1> QED
  BY <1>3, <1>4

LEMMA ReferencesKeep ==
    ASSUME Trees(node, held), NEW p \in Live(node), NEW c \in Live(node), NEW r \in FreeCells,
           \/ AddItemReferenceToArray(p, c, r)
           \/ \E k \in Keys, added \in BOOLEAN : AddItemReferenceToObject(p, k, c, r, added)
    PROVE  Becoming(node, node', held')
<1>1. r \in Cells \ Live(node) /\ node \in Heaps /\ c \in Cells
  BY DEF FreeCells, Trees, Live
<1>2. Single(node, Reference(c))
  <2>1. node[c] \in Items /\ node[c].live /\ NoKey \in [text : Keys \cup {NULL}, const : BOOLEAN]
        /\ "borrowed" \in Values /\ NULL \in Links
    BY <1>1 DEF Heaps, Items, Live, NoKey, Values, Links
  <2>2. node[c].child \in Live(node) \cup {NULL}
    BY LiveShut
  <2> DEFINE i == node[c]
             j == [i EXCEPT !.string = NoKey, !.isReference = TRUE, !.next = NULL, !.prev = NULL,
                            !.value = IF @ = "own" THEN "borrowed" ELSE @]
  <2>3. Reference(c) = j
    BY DEF Reference
  <2> HIDE DEF i
  <2>4. j \in Items /\ j.live /\ j.next = NULL /\ j.child = i.child /\ j.isReference
    BY <2>1 DEF Items, i
  <2> HIDE DEF j
  <2> QED
    BY <2>2, <2>3, <2>4 DEF Single, Items, i
<1>3. CASE AddItemReferenceToArray(p, c, r)
  <2>1. p \in Holders(node)
    BY <1>3 DEF AddItemReferenceToArray, Parents
  <2> QED
    BY <1>1, <1>2, <1>3, <2>1, MadeAdds DEF AddItemReferenceToArray, Result
<1>4. ASSUME NEW k \in Keys, NEW added \in BOOLEAN, AddItemReferenceToObject(p, k, c, r, added)
      PROVE  Becoming(node, node', held')
  <2>1. p \in Holders(node)
    BY <1>4 DEF AddItemReferenceToObject, Parents
  <2>2. CASE added
    <3> DEFINE i == Reference(c)
               g == AddItem(Named([node EXCEPT ![r] = i], r, k, FALSE), p, r)
    <3>1. node' = g /\ held' = held
      BY <1>4, <2>2 DEF AddItemReferenceToObject, Result
    <3>2. Single(node, i)
      BY <1>2
    <3> HIDE DEF i
    <3>3. Becoming(node, g, held)
      BY <1>1, <2>1, <3>2, MadeAdds
    <3> QED
      BY <3>1, <3>3
  <2>3. CASE ~added
    <3>1. node' = node /\ held' = held
      BY <1>4, <2>3 DEF AddItemReferenceToObject
    <3> QED
      BY <3>1 DEF Becoming, Ordered, InOrder
  <2> QED
    BY <2>2, <2>3
<1> QED
  BY <1>3, <1>4

\* cJSON_Delete.
LEMMA DeletesKeep ==
    ASSUME Trees(node, held), NEW c, DeleteItem(c)
    PROVE  Becoming(node, node', held')
  BY DeleteKeeps, UnmovedOrdered DEF DeleteItem, Result, Becoming

\* What a copy is.
Copying(g, c, S, f) ==
    /\ f \in Copies(S)
    /\ g = [y \in Cells |-> IF \E x \in DOMAIN f : f[x] = y
                            THEN Copy(f, c, CHOOSE x \in DOMAIN f : f[x] = y)
                            ELSE node[y]]

LEMMA CopyCopies ==
    ASSUME node \in Heaps, NEW S \in SUBSET Live(node), NEW c \in S, NEW f, NEW g,
           Copying(g, c, S, f)
    PROVE  Copied(node, g, c, S, f)
<1>1. /\ S \in SUBSET Cells /\ f \in [S -> Cells \ Live(node)] /\ DOMAIN f = S
      /\ \A x, y \in S : f[x] = f[y] => x = y
  BY DEF Copying, Copies, Live
<1>2. ASSUME NEW x \in S
      PROVE  /\ Copy(f, c, x) \in Items /\ Copy(f, c, x).live /\ ~Copy(f, c, x).isReference
             /\ Copy(f, c, x).child = Across(f, node[x].child)
             /\ Copy(f, c, x).next = IF x = c THEN NULL ELSE Across(f, node[x].next)
             /\ Copy(f, c, x).prev = IF x = c THEN NULL ELSE Across(f, node[x].prev)
  <2> DEFINE i == node[x]
             a == Across(f, i.child)
             b == IF x = c THEN NULL ELSE Across(f, i.next)
             d == IF x = c THEN NULL ELSE Across(f, i.prev)
             j == [i EXCEPT !.child = a, !.isReference = FALSE, !.next = b, !.prev = d,
                            !.value = IF @ = "none" THEN "none" ELSE "own"]
  <2>1. i \in Items /\ i.live
    BY DEF Heaps, Items, Live
  <2>2. \A y : Across(f, y) \in Links
    BY <1>1 DEF Across, Links
  <2>3. a \in Links /\ b \in Links /\ d \in Links
    BY <2>2 DEF Links
  <2>4. Copy(f, c, x) = j
    BY DEF Copy, Across
  <2> HIDE DEF i, a, b, d
  <2>5. j \in Items /\ j.live /\ ~j.isReference /\ j.child = a /\ j.next = b /\ j.prev = d
    BY <2>1, <2>3 DEF Items, Values
  <2> HIDE DEF j
  <2> QED
    BY <2>4, <2>5 DEF i, a, b, d
<1> DEFINE of(y) == CHOOSE x \in S : f[x] = y
<1>3. g = [y \in Cells |-> IF \E x \in S : f[x] = y THEN Copy(f, c, of(y)) ELSE node[y]]
  BY <1>1 DEF Copying
<1>4. \A x \in S : of(f[x]) = x /\ f[x] \in Cells
  BY <1>1
<1>5. \A y \in Cells : (\E x \in S : f[x] = y) => of(y) \in S
  BY <1>4
<1> HIDE DEF of
<1>6. g \in Heaps
  <2>1. \A y \in Cells : g[y] \in Items
    BY <1>2, <1>3, <1>5 DEF Heaps, Items
  <2>2. g = [y \in Cells |-> g[y]]
    BY <1>3
  <2> QED
    BY <2>1, <2>2 DEF Heaps, Items
<1>7. \A x \in S : g[f[x]] = Copy(f, c, x)
  BY <1>3, <1>4
<1>8. \A y \in Cells : (\A x \in S : f[x] # y) => g[y] = node[y]
  BY <1>3
<1> QED
  BY <1>1, <1>2, <1>6, <1>7, <1>8 DEF Copied

\* cJSON_Duplicate.
LEMMA DuplicatesKeep ==
    ASSUME Trees(node, held), NEW c \in Cells, NEW recurse \in BOOLEAN, Duplicate(c, recurse)
    PROVE  Becoming(node, node', held')
<1> DEFINE S == IF recurse THEN Below(node, c) ELSE {c}
<1>1. node \in Heaps /\ c \in Live(node) /\ Live(node) \subseteq Cells
  BY DEF Trees, Duplicate, Live
<1>2. PICK R \in SUBSET Cells : Rooted(node, c, R) /\ Below(node, c) = {c} \cup R
  BY <1>1, NotBelowItself DEF Duplicate
<1>3. PICK f : Copying(node', c, S, f) /\ held' = held \cup {f[c]}
  BY DEF Duplicate, Result, Copying
<1>4. S \in SUBSET Live(node) /\ c \in S
  BY <1>1, <1>2 DEF Rooted
<1> HIDE DEF S
<1>5. Copied(node, node', c, S, f)
  BY <1>1, <1>3, <1>4, CopyCopies
<1> DEFINE N == {f[x] : x \in S}
<1>6. Joined(node, node', N, f[c])
  <2>1. CASE recurse
    <3>1. S = {c} \cup R
      BY <1>2, <2>1 DEF S
    <3> QED
      BY <1>1, <1>2, <1>5, <3>1, CopyJoins
  <2>2. CASE ~recurse
    <3> DEFINE o == f[c]
               i == node'[o]
    <3>1. S = {c}
      BY <2>2 DEF S
    <3>2. /\ node' \in Heaps /\ o \in Cells \ Live(node) /\ DOMAIN f = {c}
          /\ \A y \in Cells \ {o} : node'[y] = node[y]
          /\ i.live /\ ~i.isReference /\ i.next = NULL /\ i.child = Across(f, node[c].child)
      BY <1>5, <3>1 DEF Copied
    <3>3. i.child = NULL
      <4>1. node[c].child # c
        BY <1>1, <1>2, TreeAssumption DEF Rooted
      <4> QED
        BY <3>2, <4>1 DEF Across
    <3>4. Single(node, i)
      <4>1. i \in Items
        BY <3>2 DEF Heaps, Items
      <4> HIDE DEF i
      <4> QED
        BY <3>2, <3>3, <4>1 DEF Single, Items
    <3>5. node' = [node EXCEPT ![o] = i]
      BY <1>1, <3>2 DEF Heaps, Items
    <3> HIDE DEF o, i
    <3>6. Joined(node, node', {o}, o)
      BY <3>2, <3>4, <3>5, SingleJoins
    <3>7. N = {o}
      BY <3>1 DEF o
    <3> QED
      BY <3>6, <3>7 DEF o
  <2> QED
    BY <2>1, <2>2
<1>7. Trees(node', held \cup {f[c]}) /\ Unmoved(node, node')
  <2> HIDE DEF N
  <2> QED
    BY <1>6, JoinKeeps
<1> QED
  BY <1>3, <1>7, UnmovedOrdered DEF Becoming

-----------------------------------------------------------------------------
(* The theorem.                                                             *)

Invariant == Trees(node, held) /\ leaked \in BOOLEAN

\* At first there are no items.
LEMMA InitInvariant == Init => Invariant
<1> SUFFICES ASSUME Init PROVE Invariant
  OBVIOUS
<1>1. Free \in Items /\ ~Free.live
  BY DEF Free, NewItem, Items, Links, Keys, NoKey, Values
<1>2. node \in Heaps /\ Live(node) = {} /\ held = {} /\ leaked = FALSE
  <2> HIDE DEF Free
  <2> QED
    BY <1>1 DEF Init, Heaps, Items, Live
<1>3. Holders(node) = {}
  BY <1>2 DEF Holders
<1>4. Forest({}, {}, Lists(node), {})
  BY DEF Forest
<1> QED
  BY <1>2, <1>3, <1>4 DEF Invariant, Trees

\* A call makes a forest of a forest, and keeps the order of its lists.
LEMMA NextInvariant ==
    ASSUME Invariant, Next
    PROVE  Invariant' /\ Ordered(node, node')
<1>1. Trees(node, held) /\ leaked \in BOOLEAN
  BY DEF Invariant
<1>2. Live(node) \subseteq Cells /\ Holders(node) \subseteq Live(node)
  BY DEF Live, Holders
<1>3. Becoming(node, node', held')
  <2>1. ASSUME NEW c \in Cells,
               \/ CreateItem(c) \/ CreateString(c) \/ CreateStringReference(c)
               \/ DeleteItem(c)
               \/ \E recurse \in BOOLEAN : Duplicate(c, recurse)
        PROVE  Becoming(node, node', held')
    BY <1>1, <2>1, CreatesKeep, DeletesKeep, DuplicatesKeep
  <2>2. ASSUME NEW a \in FreeCells, NEW c \in FreeCells, NEW d \in FreeCells,
               NEW v \in {"none", "own"},
               CreateArray(a, <<c>>, v) \/ CreateArray(a, <<c, d>>, v)
        PROVE  Becoming(node, node', held')
    BY <1>1, <2>2, CreateArrayKeeps
  <2>3. ASSUME NEW p \in Holders(node), NEW c \in FreeCells, NEW k \in Keys,
               NEW added \in BOOLEAN, AddNewToObject(p, k, c, added)
        PROVE  Becoming(node, node', held')
    BY <1>1, <2>3, MakesKeep
  <2>4. ASSUME NEW c \in held, NEW p \in Parents(node, c),
               \/ AddItemToArray(p, c)
               \/ \E k \in Keys, const \in BOOLEAN : AddItemToObject(p, k, const, c)
               \/ \E x \in Children(node, p) \cup {NULL} : InsertItemInArray(p, x, c)
               \/ \E x \in Children(node, p) : ReplaceItemInArray(p, x, c)
               \/ \E k \in Keys, cs, named \in BOOLEAN :
                     ReplaceItemInObject(p, k, cs, c, named)
        PROVE  Becoming(node, node', held')
    BY <1>1, <2>4, AddsKeep, ReplacesKeep DEF AddedTo
  <2>5. ASSUME NEW p \in Live(node), NEW c \in Live(node), NEW r \in FreeCells,
               \/ AddItemReferenceToArray(p, c, r)
               \/ \E k \in Keys, added \in BOOLEAN :
                     AddItemReferenceToObject(p, k, c, r, added)
        PROVE  Becoming(node, node', held')
    BY <1>1, <2>5, ReferencesKeep
  <2>6. ASSUME NEW p \in Holders(node),
               \/ \E c \in Children(node, p) : DetachFromArray(p, c) \/ DeleteFromArray(p, c)
               \/ \E k \in Keys, cs \in BOOLEAN :
                     DetachFromObject(p, k, cs) \/ DeleteFromObject(p, k, cs)
        PROVE  Becoming(node, node', held')
    BY <1>1, <2>6, DetachesKeep
  <2> QED
    BY <2>1, <2>2, <2>3, <2>4, <2>5, <2>6 DEF Next
<1>4. leaked' \in BOOLEAN
  <2>1. \A h, hs : Result(h, hs) => UNCHANGED leaked
    BY DEF Result
  <2>2. \A c, recurse : \/ CreateItem(c) \/ CreateString(c) \/ CreateStringReference(c)
                        \/ DeleteItem(c) \/ Duplicate(c, recurse)
                        => UNCHANGED leaked
    BY <2>1 DEF CreateItem, CreateString, CreateStringReference, Create, DeleteItem, Duplicate
  <2>3. \A a, s, v : CreateArray(a, s, v) => UNCHANGED leaked
    BY <2>1 DEF CreateArray
  <2>4. \A p, c, k, added : AddNewToObject(p, k, c, added) => UNCHANGED leaked
    BY <2>1 DEF AddNewToObject
  <2>5. \A p, c, k, const, x : \/ AddItemToArray(p, c) \/ AddItemToObject(p, k, const, c)
                               \/ InsertItemInArray(p, x, c)
                               => UNCHANGED leaked
    BY <2>1 DEF AddItemToArray, AddItemToObject, InsertItemInArray
  <2>6. \A p, c, k, cs, named, x : \/ ReplaceItemInArray(p, x, c)
                                   \/ ReplaceItemInObject(p, k, cs, c, named)
                                   => UNCHANGED leaked
    <3>1. \A h, p, x, c : Replaces(h, p, x, c) => UNCHANGED leaked
      BY <2>1 DEF Replaces
    <3>2. \A p, x, c : ReplaceItemInArray(p, x, c) => UNCHANGED leaked
      BY <3>1 DEF ReplaceItemInArray
    <3>3. ASSUME NEW p, NEW k, NEW cs, NEW c, NEW named, ReplaceItemInObject(p, k, cs, c, named)
          PROVE  UNCHANGED leaked
      <4> DEFINE h == Named(node, c, IF named THEN k ELSE NULL, FALSE)
                 x == Find(h, p, k, cs)
      <4>1. IF x = NULL THEN Result(h, held) ELSE Replaces(h, p, x, c)
        BY <3>3 DEF ReplaceItemInObject
      <4> HIDE DEF h, x
      <4> QED
        BY <2>1, <3>1, <4>1
    <3> QED
      BY <3>2, <3>3
  <2>7. \A p, c, r, k, added : \/ AddItemReferenceToArray(p, c, r)
                               \/ AddItemReferenceToObject(p, k, c, r, added)
                               => leaked' = TRUE \/ UNCHANGED leaked
    BY <2>1 DEF AddItemReferenceToArray, AddItemReferenceToObject
  <2>8. \A p, c, k, cs : \/ DetachFromArray(p, c) \/ DeleteFromArray(p, c)
                         \/ DetachFromObject(p, k, cs) \/ DeleteFromObject(p, k, cs)
                         => UNCHANGED leaked
    BY <2>1 DEF DetachFromArray, DeleteFromArray, DetachFromObject, DeleteFromObject,
                DeleteDetached
  <2>9. leaked' = TRUE \/ UNCHANGED leaked
    BY <2>2, <2>3, <2>4, <2>5, <2>6, <2>7, <2>8 DEF Next
  <2> QED
    BY <1>1, <2>9
<1> QED
  BY <1>3, <1>4 DEF Invariant, Becoming

\* What a forest promises: TreeSound of it.
Whole(h, hs) ==
    /\ \A p \in Holders(h) : Linked(h, p)
    /\ \A c \in Live(h) : IF c \in hs THEN Owners(h, c) = {} /\ h[c].next = NULL
                          ELSE \E p \in Cells : Owners(h, c) = {p}
    /\ hs \subseteq Live(h)
    /\ Live(h) = UNION {Deleted(h, c) : c \in hs}
    /\ \A r \in Live(h) : h[r].child # NULL => h[h[r].child].live

LEMMA TreesWhole ==
    ASSUME NEW h, NEW hs, Trees(h, hs)
    PROVE  Whole(h, hs)
<1>1. /\ h \in Heaps /\ Holders(h) \subseteq Cells /\ Holders(h) \subseteq Live(h)
      /\ hs \subseteq Live(h) /\ Live(h) \subseteq Cells
  BY DEF Trees, Forest, Holders, Live
<1>2. /\ \A q \in Holders(h) : Children(h, q) \cap hs = {}
      /\ \A q, r \in Holders(h) : q # r => Children(h, q) \cap Children(h, r) = {}
  BY <1>1 DEF Trees, Forest, Lists
<1>3. ASSUME NEW c \in Live(h)
      PROVE  IF c \in hs THEN Owners(h, c) = {} /\ h[c].next = NULL
             ELSE \E p \in Cells : Owners(h, c) = {p}
  <2>1. CASE c \in hs
    BY <1>2, <2>1 DEF Owners, Trees
  <2>2. CASE c \notin hs
    <3>1. PICK p \in Holders(h) : c \in Lists(h)[p]
      BY <2>2, ForestOwned DEF Trees
    <3>2. c \in Children(h, p) /\ p \in Cells
      BY <1>1, <3>1 DEF Lists
    <3>3. Owners(h, c) = {p}
      BY <1>2, <3>2 DEF Owners
    <3> QED
      BY <2>2, <3>2, <3>3
  <2> QED
    BY <2>1, <2>2
<1>4. \A c \in hs : Separate(h, hs, c, Deleted(h, c))
  BY DeletedSeparate
<1> DEFINE U == UNION {Deleted(h, c) : c \in hs}
<1>5. U \subseteq Live(h)
  BY <1>4 DEF Separate
<1>6. Live(h) \subseteq U
  <2>1. U \in SUBSET Cells /\ hs \subseteq U
    BY <1>1, <1>4, <1>5 DEF Separate
  <2>2. \A q \in Holders(h) \cap U : Lists(h)[q] \subseteq U
    <3> SUFFICES ASSUME NEW q \in Holders(h) \cap U PROVE Children(h, q) \subseteq U
      BY <1>1 DEF Lists
    <3>1. PICK c \in hs : q \in Deleted(h, c)
      OBVIOUS
    <3>2. Children(h, q) \subseteq Deleted(h, c)
      BY <1>4, <3>1 DEF Separate
    <3> QED
      BY <3>2
  <2> HIDE DEF U
  <2> QED
    BY <2>1, <2>2 DEF Trees, Forest
<1>7. Live(h) = U
  BY <1>5, <1>6
<1> QED
  BY <1>1, <1>3, <1>7 DEF Whole, Trees

\* cJSON's trees are sound after every call, in any heap: each item has one owner, nothing is
\* freed twice or lost, and the order of what a call is not about stays.
THEOREM TreesCorrect == Spec => TreesSound
<1>1. Init => Invariant
  BY InitInvariant
<1>2. Invariant /\ [Next]_vars => Invariant'
  <2> SUFFICES ASSUME Invariant, [Next]_vars PROVE Invariant'
    OBVIOUS
  <2>1. CASE Next
    BY <2>1, NextInvariant
  <2>2. CASE UNCHANGED vars
    BY <2>2 DEF vars, Invariant
  <2> QED
    BY <2>1, <2>2
<1>3. Invariant /\ Invariant' /\ [Next]_vars => [(TypeOK /\ TreeSound)' /\ OrderKept]_vars
  <2> SUFFICES ASSUME Invariant, Invariant', Next PROVE (TypeOK /\ TreeSound)' /\ OrderKept
    OBVIOUS
  <2>1. Ordered(node, node')
    BY NextInvariant
  <2>2. Trees(node', held') /\ leaked' \in BOOLEAN
    BY DEF Invariant
  <2>3. Whole(node', held')
    BY <2>2, TreesWhole
  <2>4. TreeSound'
    BY <2>3 DEF TreeSound, Whole
  <2>5. TypeOK'
    BY <2>2, <2>3 DEF TypeOK, Trees, Heaps, Items, Whole, Live
  <2>6. OrderKept
    BY <2>1 DEF OrderKept, Ordered, InOrder
  <2> QED
    BY <2>4, <2>5, <2>6
<1> QED
  BY <1>1, <1>2, <1>3, PTL DEF Spec, TreesSound

=============================================================================
