------------------------------- MODULE JsonTree -------------------------------
(***************************************************************************)
(* The trees of cJSON (cJSON.c), in which the gateway builds and reads     *)
(* every message: items on the heap, a list of children each, linked both  *)
(* ways, whose first item's prev is the last.  One action per function of  *)
(* the interface that changes a tree; each allocation may fail.            *)
(*                                                                         *)
(* Memory is manual.  The caller owns the items it holds and owes their    *)
(* deletion; one it adds to a tree is the tree's.  The caller is taken to  *)
(* keep the rules of cJSON.h: it adds what it holds and no item below      *)
(* itself, and does not delete what a reference shows.  Text and numbers   *)
(* are JsonText's.                                                         *)
(***************************************************************************)
EXTENDS Naturals, FiniteSets, Sequences

CONSTANTS
    Cells,      \* memory for items
    NULL,       \* none of them
    MaxStrings, \* memory for strings
    MaxReferences   \* items that are references

ASSUME TreeAssumption == NULL \notin Cells

Keys == {"pair", "PAIR"}
NoKey == [text |-> NULL, const |-> FALSE]

\* The comparison of two keys, neither of them NULL.
Same(k, l, caseSensitive) == caseSensitive => k = l

VARIABLES
    node,     \* the items
    held,     \* those the caller owns
    leaked    \* history: AddItemReferenceToObject lost its reference

vars == <<node, held, leaked>>

Links == Cells \cup {NULL}
Values == {"none", "own", "borrowed"}

\* cJSON_New_Item; and the memory of none.
NewItem ==
    [live |-> TRUE, child |-> NULL, next |-> NULL, prev |-> NULL,
     isReference |-> FALSE, string |-> NoKey, value |-> "none"]
Free == [NewItem EXCEPT !.live = FALSE]

TypeOK ==
    /\ node \in [Cells -> [live : BOOLEAN, child : Links, next : Links, prev : Links,
                           isReference : BOOLEAN,
                           string : [text : Keys \cup {NULL}, const : BOOLEAN],
                           value : Values]]
    /\ held \subseteq Cells /\ leaked \in BOOLEAN

Init ==
    /\ node = [c \in Cells |-> Free]
    /\ held = {} /\ leaked = FALSE

-----------------------------------------------------------------------------
(* A heap h, and what the functions make of it.                             *)

Live(h) == {c \in Cells : h[c].live}
OwnsKey(i) == i.string.text # NULL /\ ~i.string.const
OwnsValue(i) == i.value = "own"

\* Strings that are allocated.
Strings(h) == Cardinality({c \in Cells : OwnsKey(h[c])})
              + Cardinality({c \in Cells : OwnsValue(h[c])})

\* S holds a, unless that is NULL, and what its items lead to along next, and along child
\* from those of P; and the least such set.
Shut(h, a, P, S) ==
    /\ a \in S \cup {NULL}
    /\ \A c \in S : /\ h[c].next \in S \cup {NULL}
                    /\ c \in P => h[c].child \in S \cup {NULL}

Reach(h, a, P) ==
    IF a = NULL THEN {}
    ELSE Cells \ UNION {Cells \ S : S \in {T \in SUBSET Cells : Shut(h, a, P, T)}}

\* The list of p, and what comes behind c in one.  An index into a list is the item
\* that get_array_item finds at it, or NULL.
Children(h, p) == Reach(h, h[p].child, {})
Behind(h, c) == Reach(h, h[c].next, {})

Holders(h) == {p \in Live(h) : ~h[p].isReference}

\* get_object_item: a name without a match, or, with case, an item without a name,
\* ends the search.
Stops(i, k, cs) == IF i.string.text = NULL THEN cs ELSE Same(k, i.string.text, cs)
Find(h, p, k, cs) ==
    LET ends(c) == Stops(h[c], k, cs)
        read == Reach([c \in Cells |-> IF ends(c) THEN [h[c] EXCEPT !.next = NULL] ELSE h[c]],
                      h[p].child, {})
        found == {c \in read : ends(c) /\ h[c].string.text # NULL}
    IN  IF found = {} THEN NULL ELSE CHOOSE c \in found : TRUE

\* What cJSON_Delete frees, which goes on along next and below what is no reference.
Deleted(h, c) == Reach(h, c, {x \in Cells : ~h[x].isReference})

\* The items below c, seen through references too, and c.
Below(h, c) == {c} \cup Reach(h, h[c].child, Cells)

Delete(h, c) == LET gone == Deleted(h, c) IN [x \in Cells |-> IF x \in gone THEN Free ELSE h[x]]

\* add_item_to_array: behind the last item, which is prev of the first.
AddItem(h, p, c) ==
    LET first == h[p].child IN
    IF first = NULL
    THEN [h EXCEPT ![p].child = c, ![c].prev = c, ![c].next = NULL]
    ELSE IF h[first].prev = NULL THEN h
    ELSE [h EXCEPT ![h[first].prev].next = c, ![c].prev = h[first].prev,
                   ![first].prev = c]

\* cJSON_DetachItemViaPointer.
DetachItem(h, p, c) ==
    LET next == h[c].next
        a == IF c # h[p].child THEN [h EXCEPT ![h[c].prev].next = next] ELSE h
        b == IF next # NULL THEN [a EXCEPT ![next].prev = a[c].prev] ELSE a
        d == IF c = b[p].child THEN [b EXCEPT ![p].child = next]
             ELSE IF next = NULL THEN [b EXCEPT ![b[p].child].prev = b[c].prev]
             ELSE b
    IN  [d EXCEPT ![c].prev = NULL, ![c].next = NULL]

\* cJSON_InsertItemInArray: before x.
InsertItem(h, p, x, c) ==
    LET a == [h EXCEPT ![c].next = x, ![c].prev = h[x].prev, ![x].prev = c]
    IN  IF x = a[p].child THEN [a EXCEPT ![p].child = c]
        ELSE [a EXCEPT ![a[c].prev].next = c]

\* cJSON_ReplaceItemViaPointer, up to the deletion of x.
ReplaceItem(h, p, x, c) ==
    LET a == [h EXCEPT ![c].next = h[x].next, ![c].prev = h[x].prev]
        b == IF a[c].next # NULL THEN [a EXCEPT ![a[c].next].prev = c] ELSE a
        d == IF b[p].child = x
             THEN [b EXCEPT ![c].prev = IF b[x].prev = x THEN c ELSE @, ![p].child = c]
             ELSE [y \in Cells |->
                      [b[y] EXCEPT !.next = IF y = b[c].prev THEN c ELSE @,
                                   !.prev = IF y = b[p].child /\ b[c].next = NULL
                                            THEN c ELSE @]]
    IN  [d EXCEPT ![x].next = NULL, ![x].prev = NULL]

Named(h, c, k, const) == [h EXCEPT ![c].string = [text |-> k, const |-> const]]

\* Where the caller may put what it holds: nowhere below it, in no reference.
Parents(h, c) == Holders(h) \ Below(h, c)

\* What it may delete: nothing that a reference elsewhere shows.
Deletable(h, c) ==
    LET gone == Deleted(h, c) IN
    \A r \in Live(h) \ gone : h[r].isReference => h[r].child \notin gone

-----------------------------------------------------------------------------
(* The interface: p is an item, no reference, c one that the caller holds   *)
(* and may put into p, r free memory.                                       *)

FreeCells == Cells \ Live(node)

Result(h, hs) ==
    /\ node' = h /\ held' = hs
    /\ Strings(h) <= MaxStrings
    /\ UNCHANGED leaked

\* cJSON_Create...: a string for which there is no memory takes its item along.
Create(c, item) ==
    /\ c \in FreeCells
    /\ Result([node EXCEPT ![c] = item], held \cup {c})

CreateItem(c) == Create(c, NewItem)
CreateString(c) == Create(c, [NewItem EXCEPT !.value = "own"])
References == {c \in Live(node) : node[c].isReference}
MoreReferences == Cardinality(References) < MaxReferences

CreateStringReference(c) ==
    MoreReferences /\ Create(c, [NewItem EXCEPT !.value = "borrowed", !.isReference = TRUE])

\* cJSON_Create...Array of at least one element: all of them or nothing.
CreateArray(a, s, value) ==
    /\ \A i \in DOMAIN s : s[i] # a /\ \A j \in DOMAIN s : s[i] = s[j] => i = j
    /\ LET link(c) ==
             LET i == CHOOSE j \in DOMAIN s : s[j] = c
             IN  [NewItem EXCEPT
                    !.value = value,
                    !.next = IF i = Len(s) THEN NULL ELSE s[i + 1],
                    !.prev = IF i = 1 THEN s[Len(s)] ELSE s[i - 1]]
       IN  Result([c \in Cells |->
                      IF c = a THEN [NewItem EXCEPT !.child = s[1]]
                      ELSE IF \E i \in DOMAIN s : s[i] = c THEN link(c) ELSE node[c]],
                  held \cup {a})

AddItemToArray(p, c) ==
    /\ Result(AddItem(node, p, c), held \ {c})

\* Nothing happens when there is no memory for the key.
AddItemToObject(p, k, const, c) ==
    /\ Result(AddItem(Named(node, c, k, const), p, c), held \ {c})

\* Variant: what could not be added is forgotten.
AddNewToObject_NoDelete(p, k, c, added) ==
    LET made == [node EXCEPT ![c] = NewItem]
    IN  IF added THEN Result(AddItem(Named(made, c, k, FALSE), p, c), held)
        ELSE Result(made, held)

\* cJSON_AddNullToObject, ...: created and added, or deleted again.
AddNewToObject(p, k, c, added) ==
    LET made == [node EXCEPT ![c] = NewItem]
    IN  IF added THEN Result(AddItem(Named(made, c, k, FALSE), p, c), held)
        ELSE Result(Delete(made, c), held)

\* create_reference: value and children are the item's.
Reference(c) ==
    [node[c] EXCEPT !.string = NoKey, !.isReference = TRUE, !.next = NULL, !.prev = NULL,
                    !.value = IF @ = "own" THEN "borrowed" ELSE @]

AddItemReferenceToArray(p, c, r) ==
    /\ MoreReferences
    /\ p \in Parents(node, c)
    /\ Result(AddItem([node EXCEPT ![r] = Reference(c)], p, r), held)

\* Without memory for the key the reference is lost: nobody has it, or deletes it.
AddItemReferenceToObject(p, k, c, r, added) ==
    /\ MoreReferences
    /\ p \in Parents(node, c)
    /\ IF added
       THEN Result(AddItem(Named([node EXCEPT ![r] = Reference(c)], r, k, FALSE), p, r), held)
       ELSE leaked' = TRUE /\ UNCHANGED <<node, held>>

DetachFromArray(p, c) == Result(DetachItem(node, p, c), held \cup {c})

DetachFromObject(p, k, cs) ==
    /\ Find(node, p, k, cs) # NULL
    /\ Result(DetachItem(node, p, Find(node, p, k, cs)), held \cup {Find(node, p, k, cs)})

DeleteDetached(p, c) ==
    LET rest == DetachItem(node, p, c)
    IN  Deletable(rest, c) /\ Result(Delete(rest, c), held)

DeleteFromArray(p, c) == DeleteDetached(p, c)
DeleteFromObject(p, k, cs) ==
    /\ Find(node, p, k, cs) # NULL
    /\ DeleteDetached(p, Find(node, p, k, cs))

\* Beyond the end it is added behind the last.
InsertItemInArray(p, x, c) ==
    Result(IF x = NULL THEN AddItem(node, p, c) ELSE InsertItem(node, p, x, c), held \ {c})

Replaces(h, p, x, c) ==
    LET done == ReplaceItem(h, p, x, c)
    IN  Deletable(done, x) /\ Result(Delete(done, x), held \ {c})

ReplaceItemInArray(p, x, c) == Replaces(node, p, x, c)

\* The replacement gets the name before the item is looked for, and keeps it when
\* there is none; without memory it is left without a name.
ReplaceItemInObject(p, k, cs, c, named) ==
    /\ LET h == Named(node, c, IF named THEN k ELSE NULL, FALSE)
           x == Find(h, p, k, cs)
       IN  IF x = NULL THEN Result(h, held) ELSE Replaces(h, p, x, c)

DeleteItem(c) ==
    /\ c \in held /\ Deletable(node, c)
    /\ Result(Delete(node, c), held \ {c})

\* cJSON_Duplicate: a copy with strings of its own.  A copy for which there is not
\* enough memory leaves nothing behind.  (Of items that show the children of others
\* no copies are made here.)
Copies(S) == {f \in [S -> {c \in Cells : ~node[c].live}] :
                 \A x, y \in S : f[x] = f[y] => x = y}

Copy(f, c, x) ==
    LET to(y) == IF y \in DOMAIN f THEN f[y] ELSE NULL IN
    [node[x] EXCEPT
        !.child = to(@), !.isReference = FALSE,
        !.next = IF x = c THEN NULL ELSE to(@),
        !.prev = IF x = c THEN NULL ELSE to(@),
        !.value = IF @ = "none" THEN "none" ELSE "own"]

Duplicate(c, recurse) ==
    /\ node[c].live
    /\ \A x \in Below(node, c) : node[x].isReference => node[x].child = NULL
    /\ \E f \in Copies(IF recurse THEN Below(node, c) ELSE {c}) :
          Result([y \in Cells |-> IF \E x \in DOMAIN f : f[x] = y
                                  THEN Copy(f, c, CHOOSE x \in DOMAIN f : f[x] = y)
                                  ELSE node[y]],
                 held \cup {f[c]})

-----------------------------------------------------------------------------
Next ==
    \/ \E c \in Cells :
          \/ CreateItem(c) \/ CreateString(c) \/ CreateStringReference(c)
          \/ DeleteItem(c)
          \/ \E recurse \in BOOLEAN : Duplicate(c, recurse)
    \/ \E a, c, d \in FreeCells, v \in {"none", "own"} :
          CreateArray(a, <<c>>, v) \/ CreateArray(a, <<c, d>>, v)
    \/ \E p \in Holders(node), c \in FreeCells, k \in Keys, added \in BOOLEAN :
          AddNewToObject(p, k, c, added)
    \/ \E c \in held : \E p \in Parents(node, c) :
          \/ AddItemToArray(p, c)
          \/ \E k \in Keys, const \in BOOLEAN : AddItemToObject(p, k, const, c)
          \/ \E x \in Children(node, p) \cup {NULL} : InsertItemInArray(p, x, c)
          \/ \E x \in Children(node, p) : ReplaceItemInArray(p, x, c)
          \/ \E k \in Keys, cs, named \in BOOLEAN :
                ReplaceItemInObject(p, k, cs, c, named)
    \/ \E p, c \in Live(node), r \in FreeCells :
          \/ AddItemReferenceToArray(p, c, r)
          \/ \E k \in Keys, added \in BOOLEAN :
                AddItemReferenceToObject(p, k, c, r, added)
    \/ \E p \in Holders(node) : \E c \in Children(node, p) :
          DetachFromArray(p, c) \/ DeleteFromArray(p, c)
    \/ \E p \in Holders(node), k \in Keys, cs \in BOOLEAN :
          DetachFromObject(p, k, cs) \/ DeleteFromObject(p, k, cs)

Spec == Init /\ [][Next]_vars

-----------------------------------------------------------------------------
\* Each list is linked both ways, its first item knows the last, and none of its items
\* is free memory.
Linked(h, p) ==
    LET s == Children(h, p)
        first == h[p].child
    IN  /\ \A c \in s : h[c].live /\ (h[c].next # NULL => h[h[c].next].prev = c)
        /\ first # NULL => h[first].prev \in s /\ h[h[first].prev].next = NULL

\* Every item has one owner, the caller or the item it is a child of, and is below one of
\* the caller's.  So nothing is freed twice, and nothing is lost but the reference that
\* leaked tells of.
Owners(h, c) == {p \in Holders(h) : c \in Children(h, p)}
TreeSound ==
    /\ \A p \in Holders(node) : Linked(node, p)
    /\ \A c \in Live(node) : IF c \in held THEN Owners(node, c) = {} /\ node[c].next = NULL
                             ELSE \E p \in Cells : Owners(node, c) = {p}
    /\ held \subseteq Live(node)
    /\ Live(node) = UNION {Deleted(node, c) : c \in held}
    /\ \A r \in Live(node) : node[r].child # NULL => node[node[r].child].live

\* No call disturbs the order of the items it is not about.
OrderKept ==
    \A p \in Holders(node) \cap Holders(node') :
        \A c, d \in Children(node, p) \cap Children(node', p) :
            d \in Behind(node, c) => d \in Behind(node', c)

\* cJSON: TreeSound after every call, and OrderKept by it.
TreesSound == [][(TypeOK /\ TreeSound)' /\ OrderKept]_vars
=============================================================================
