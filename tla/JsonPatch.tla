------------------------------ MODULE JsonPatch ------------------------------
(***************************************************************************)
(* cJSON_Utils.c, on the trees of JsonText: pointers into a tree, the      *)
(* merge sort of an object, JSON patches and merge patches, made from two  *)
(* trees and applied to one.                                               *)
(*                                                                         *)
(* A patch is a record of what its object holds, of path, from and value   *)
(* {} if it is missing.  What the sort of a comparison leaves behind, the  *)
(* order of an object's items, is of no meaning and left out; so are       *)
(* failed allocations.                                                     *)
(***************************************************************************)
EXTENDS JsonText

Tilde == 126
Zero == 48
Nine == 57
Dash == 45

\* compare_strings: which of two names comes first, 0 for neither.
RECURSIVE Order(_, _)
Order(k, l) ==
    IF k = <<>> \/ l = <<>> THEN (IF l # <<>> THEN -1 ELSE IF k # <<>> THEN 1 ELSE 0)
    ELSE IF k[1] # l[1] THEN (IF k[1] < l[1] THEN -1 ELSE 1)
    ELSE Order(Tail(k), Tail(l))
CompareStrings(k, l, cs) == IF cs THEN Order(k, l) ELSE Order(LowerCase(k), LowerCase(l))

From(s, k) == SubSeq(s, k, Len(s))

-----------------------------------------------------------------------------
(* Pointers: a tree's item lies at a sequence of positions.                 *)

RECURSIVE EncodedPointer(_)
EncodedPointer(name) ==
    IF name = <<>> THEN <<>>
    ELSE (IF name[1] = Slash THEN <<Tilde, Zero + 1>>
          ELSE IF name[1] = Tilde THEN <<Tilde, Zero>> ELSE <<name[1]>>)
         \o EncodedPointer(Tail(name))

\* compare_pointers: the next part of pointer p names the item.
RECURSIVE ComparePointers(_, _, _)
ComparePointers(name, p, cs) ==
    LET more == p # <<>> /\ p[1] # Slash
        escape == IF Len(p) = 1 THEN <<>>
                  ELSE IF p[2] = Zero THEN <<Tilde>>
                  ELSE IF p[2] = Zero + 1 THEN <<Slash>> ELSE <<>>
    IN  IF name = <<>> \/ ~more THEN more = (name # <<>>)
        ELSE IF p[1] = Tilde
        THEN escape = <<name[1]>> /\ ComparePointers(Tail(name), From(p, 3), cs)
        ELSE /\ SameKey(<<name[1]>>, <<p[1]>>, cs)
             /\ ComparePointers(Tail(name), Tail(p), cs)

\* decode_array_index_from_pointer: the loop tests the first byte for a digit, and of
\* the others only that they are not less than one.
ArrayIndex(p) ==
    LET digits == IF p # <<>> /\ p[1] > Nine THEN 0
                  ELSE Lowest({k \in 0..Len(p) : k = Len(p) \/ p[k + 1] < Zero})
        value[k \in 0..digits] == IF k = 0 THEN 0 ELSE 10 * value[k - 1] + (p[k] - Zero)
        ends(k) == k > Len(p) \/ p[k] = Slash
    IN  IF (p # <<>> /\ p[1] = Zero /\ ~ends(2)) \/ ~ends(digits + 1) THEN {}
        ELSE {value[digits]}

\* get_item_from_pointer
RECURSIVE Locate(_, _, _)
Locate(tree, p, cs) ==
    LET q == Tail(p)
        slash == {k \in DOMAIN q : q[k] = Slash}
        rest == IF slash = {} THEN <<>> ELSE From(q, Lowest(slash))
        named == {i \in DOMAIN tree.items : ComparePointers(tree.items[i].key, q, cs)}
        at == IF tree.type = "array" THEN {i + 1 : i \in ArrayIndex(q)} \cap DOMAIN tree.items
              ELSE IF tree.type = "object" /\ named # {} THEN {Lowest(named)} ELSE {}
    IN  IF p = <<>> \/ p[1] # Slash THEN {<<>>}
        ELSE {<<i>> \o a : i \in at, a \in IF at = {} THEN {}
                                           ELSE Locate(tree.items[Lowest(at)].value, rest, cs)}

Decimal(n) == IF n < 10 THEN <<Zero + n>> ELSE <<Zero + (n \div 10), Zero + (n % 10)>>

\* cJSONUtils_FindPointerFromObjectTo the item at a.
RECURSIVE PointerTo(_, _)
PointerTo(tree, a) ==
    IF a = <<>> THEN <<>>
    ELSE <<Slash>>
         \o (IF tree.type = "array" THEN Decimal(a[1] - 1) ELSE EncodedPointer(tree.items[a[1]].key))
         \o PointerTo(tree.items[a[1]].value, Tail(a))

RECURSIVE Subtree(_, _), Changed(_, _, _)
Subtree(tree, a) == IF a = <<>> THEN tree ELSE Subtree(tree.items[a[1]].value, Tail(a))
Changed(tree, a, items) ==
    IF a = <<>> THEN [tree EXCEPT !.items = items]
    ELSE [tree EXCEPT !.items[a[1]].value = Changed(@, Tail(a), items)]

\* decode_pointer_inplace, reading at r and writing at w: what is no escape is not moved
\* to where it is written, and ~1 writes one byte too far.
RECURSIVE DecodedFrom(_, _, _)
DecodedFrom(b, r, w) ==
    IF r > Len(b) THEN SubSeq(b, 1, w - 1)
    ELSE IF b[r] # Tilde THEN DecodedFrom(b, r + 1, w + 1)
    ELSE IF r < Len(b) /\ b[r + 1] = Zero THEN DecodedFrom([b EXCEPT ![w] = Tilde], r + 2, w + 1)
    ELSE IF r < Len(b) /\ b[r + 1] = Zero + 1
    THEN DecodedFrom([b EXCEPT ![w + 1] = Slash], r + 2, w + 1)
    ELSE b
DecodedPointer(s) == DecodedFrom(s, 1, 1)

\* A path, split at its last slash.
Slashes(path) == {k \in DOMAIN path : path[k] = Slash}
ParentPointer(path) ==
    IF Slashes(path) = {} THEN path ELSE SubSeq(path, 1, Highest(Slashes(path)) - 1)
ChildPointer(path) == DecodedPointer(From(path, Highest(Slashes(path)) + 1))

WithoutItem(items, i) == SubSeq(items, 1, i - 1) \o From(items, i + 1)

\* detach_path, which looks for names without regard to case.
DetachPath(tree, path, cs) ==
    UNION {LET parent == Subtree(tree, a)
               child == ChildPointer(path)
               at == IF parent.type = "array"
                     THEN {i + 1 : i \in ArrayIndex(child)} \cap DOMAIN parent.items
                     ELSE IF parent.type = "object" THEN FirstNamed(parent.items, child, FALSE)
                     ELSE {}
           IN  {[tree |-> Changed(tree, a, WithoutItem(parent.items, i)),
                 item |-> parent.items[i].value] : i \in at} :
              a \in IF Slashes(path) = {} THEN {} ELSE Locate(tree, ParentPointer(path), cs)}

-----------------------------------------------------------------------------
(* Sorting, and comparing.                                                  *)

RECURSIVE Merged(_, _, _), Sorted(_, _)
Merged(k, l, cs) ==
    IF k = <<>> THEN l
    ELSE IF l = <<>> THEN k
    ELSE IF CompareStrings(k[1].key, l[1].key, cs) < 0
    THEN <<k[1]>> \o Merged(Tail(k), l, cs)
    ELSE <<l[1]>> \o Merged(k, Tail(l), cs)

\* sort_list
Sorted(items, cs) ==
    LET n == Len(items)
        half == (n + 1) \div 2
    IN  IF \A i \in 1..n - 1 : CompareStrings(items[i].key, items[i + 1].key, cs) < 0
        THEN items
        ELSE Merged(Sorted(SubSeq(items, 1, half), cs), Sorted(From(items, half + 1), cs), cs)

SortObject(tree, cs) == [tree EXCEPT !.items = Sorted(@, cs)]

\* compare_json
RECURSIVE CompareJson(_, _, _)
CompareJson(a, b, cs) ==
    LET k == IF a.type = "object" THEN Sorted(a.items, cs) ELSE a.items
        l == IF b.type = "object" THEN Sorted(b.items, cs) ELSE b.items
    IN  /\ a.type = b.type
        /\ a.type \in {"number", "string"} => a.text = b.text
        /\ a.type \in {"array", "object"} =>
              /\ Len(k) = Len(l)
              /\ \A i \in DOMAIN k :
                    /\ a.type = "object" => CompareStrings(k[i].key, l[i].key, cs) = 0
                    /\ CompareJson(k[i].value, l[i].value, cs)

-----------------------------------------------------------------------------
(* Patches applied.                                                         *)

Operations == {"add", "remove", "replace", "move", "copy", "test"}
Invalid == Leaf("invalid", <<>>)

Result(status, tree) == [status |-> status, tree |-> tree]
Only(S) == CHOOSE x \in S : TRUE

\* Variant: the item that an object had by that name stays.
InsertValue_KeepsOld(tree, path, value, cs) ==
    LET parents == IF Slashes(path) = {} THEN {} ELSE Locate(tree, ParentPointer(path), cs)
        parent == Subtree(tree, Only(parents))
        child == ChildPointer(path)
        items(s) == Result(0, Changed(tree, Only(parents), s))
    IN  IF parents = {} \/ parent.type \notin {"array", "object"} THEN Result(9, tree)
        ELSE items(Append(parent.items,
                          Item(IF parent.type = "array" THEN <<>> ELSE child, value)))

\* The end of apply_patch: the value is added at the path.
InsertValue(tree, path, value, cs) ==
    LET parents == IF Slashes(path) = {} THEN {} ELSE Locate(tree, ParentPointer(path), cs)
        parent == Subtree(tree, Only(parents))
        child == ChildPointer(path)
        index == ArrayIndex(child)
        items(s) == Result(0, Changed(tree, Only(parents), s))
        old == FirstNamed(parent.items, child, cs)
        others == IF old = {} THEN parent.items ELSE WithoutItem(parent.items, Only(old))
    IN  IF parents = {} THEN Result(9, tree)
        ELSE IF parent.type = "object" THEN items(Append(others, Item(child, value)))
        ELSE IF parent.type # "array" THEN Result(9, tree)
        ELSE IF child = <<Dash>> THEN items(Append(parent.items, Item(<<>>, value)))
        ELSE IF index = {} THEN Result(11, tree)
        ELSE IF Only(index) > Len(parent.items) THEN Result(10, tree)
        ELSE items(SubSeq(parent.items, 1, Only(index)) \o <<Item(<<>>, value)>>
                   \o From(parent.items, Only(index) + 1))

\* A patch that fails half-way leaves the tree without what it took out.
ApplyAt(tree, path, patch, cs) ==
    LET gone == DetachPath(tree, path, cs)
        moved == DetachPath(tree, Only(patch.from), cs)
        copied == Locate(tree, Only(patch.from), cs)
    IN  CASE patch.op = "remove" ->
                IF gone = {} THEN Result(13, tree) ELSE Result(0, Only(gone).tree)
          [] patch.op = "replace" ->
                IF gone = {} THEN Result(13, tree)
                ELSE IF patch.value = {} THEN Result(7, Only(gone).tree)
                ELSE InsertValue(Only(gone).tree, path, Only(patch.value), cs)
          [] patch.op = "add" ->
                IF patch.value = {} THEN Result(7, tree)
                ELSE InsertValue(tree, path, Only(patch.value), cs)
          [] patch.op = "move" ->
                IF patch.from = {} THEN Result(4, tree)
                ELSE IF moved = {} THEN Result(5, tree)
                ELSE InsertValue(Only(moved).tree, path, Only(moved).item, cs)
          [] patch.op = "copy" ->
                IF patch.from = {} THEN Result(4, tree)
                ELSE IF copied = {} THEN Result(5, tree)
                ELSE InsertValue(tree, path, Subtree(tree, Only(copied)), cs)

\* apply_patch
ApplyPatch(tree, patch, cs) ==
    LET path == Only(patch.path)
        same == \E a \in Locate(tree, path, cs), v \in patch.value :
                    CompareJson(Subtree(tree, a), v, cs)
    IN  IF patch.path = {} THEN Result(2, tree)
        ELSE IF patch.op \notin Operations THEN Result(3, tree)
        ELSE IF patch.op = "test" THEN Result(IF same THEN 0 ELSE 1, tree)
        ELSE IF path = <<>> /\ patch.op = "remove" THEN Result(0, Invalid)
        ELSE IF path = <<>> /\ patch.op \in {"replace", "add"}
        THEN IF patch.value = {} THEN Result(7, tree) ELSE Result(0, Only(patch.value))
        ELSE ApplyAt(tree, path, patch, cs)

\* cJSONUtils_ApplyPatches, up to the first that fails.
RECURSIVE ApplyPatches(_, _, _)
ApplyRest(r, patches, cs) == IF r.status # 0 THEN r ELSE ApplyPatches(r.tree, patches, cs)
ApplyPatches(tree, patches, cs) ==
    IF patches = <<>> THEN Result(0, tree)
    ELSE ApplyRest(ApplyPatch(tree, patches[1], cs), Tail(patches), cs)

-----------------------------------------------------------------------------
(* Patches made from two trees.                                             *)

ComposePatch(op, path, value) == [op |-> op, path |-> {path}, from |-> {}, value |-> value]
Longer(path, name) == path \o <<Slash>> \o EncodedPointer(name)

RECURSIVE CreatePatches(_, _, _, _), ArrayPatches(_, _, _, _, _), ObjectPatches(_, _, _, _)

ArrayPatches(path, k, l, index, cs) ==
    IF k # <<>> /\ l # <<>>
    THEN CreatePatches(Longer(path, Decimal(index)), k[1].value, l[1].value, cs)
         \o ArrayPatches(path, Tail(k), Tail(l), index + 1, cs)
    ELSE [i \in DOMAIN k |-> ComposePatch("remove", Longer(path, Decimal(index)), {})]
         \o [i \in DOMAIN l |-> ComposePatch("add", Longer(path, <<Dash>>), {l[i].value})]

ObjectPatches(path, k, l, cs) ==
    LET diff == IF k = <<>> THEN 1 ELSE IF l = <<>> THEN -1
                ELSE CompareStrings(k[1].key, l[1].key, cs)
    IN  IF k = <<>> /\ l = <<>> THEN <<>>
        ELSE IF diff = 0
        THEN CreatePatches(Longer(path, k[1].key), k[1].value, l[1].value, cs)
             \o ObjectPatches(path, Tail(k), Tail(l), cs)
        ELSE IF diff < 0
        THEN <<ComposePatch("remove", Longer(path, k[1].key), {})>>
             \o ObjectPatches(path, Tail(k), l, cs)
        ELSE <<ComposePatch("add", Longer(path, l[1].key), {l[1].value})>>
             \o ObjectPatches(path, k, Tail(l), cs)

CreatePatches(path, from, to, cs) ==
    IF from.type # to.type \/ (from.type \in {"number", "string"} /\ from.text # to.text)
    THEN <<ComposePatch("replace", path, {to})>>
    ELSE IF from.type = "array" THEN ArrayPatches(path, from.items, to.items, 0, cs)
    ELSE IF from.type = "object"
    THEN ObjectPatches(path, Sorted(from.items, cs), Sorted(to.items, cs), cs)
    ELSE <<>>

GeneratePatches(from, to, cs) == CreatePatches(<<>>, from, to, cs)

-----------------------------------------------------------------------------
(* Merge patches.  No target, and no patch, are {}.                         *)

RECURSIVE MergePatch(_, _, _), MergeItems(_, _, _)

MergeItems(items, patch, cs) ==
    IF patch = <<>> THEN items
    ELSE LET old == FirstNamed(items, patch[1].key, cs)
             others == IF old = {} THEN items ELSE WithoutItem(items, Only(old))
             target == {items[i].value : i \in old}
             new == Item(patch[1].key, MergePatch(target, patch[1].value, cs))
         IN  MergeItems(IF patch[1].value.type = "null" THEN others ELSE Append(others, new),
                        Tail(patch), cs)

MergePatch(target, patch, cs) ==
    IF patch.type # "object" THEN patch
    ELSE LET items == IF \E t \in target : t.type = "object" THEN Only(target).items ELSE <<>>
         IN  Branch("object", MergeItems(items, patch.items, cs))

\* generate_merge_patch: names are sorted with or without regard to case but always
\* compared with it; below the first level without.
RECURSIVE GenerateMergePatch(_, _, _), MergePatchItems(_, _, _)

MergePatchItems(k, l, cs) ==
    LET diff == IF k = <<>> THEN 1 ELSE IF l = <<>> THEN -1 ELSE Order(k[1].key, l[1].key)
        deeper == IF CompareJson(k[1].value, l[1].value, cs) THEN {}
                  ELSE GenerateMergePatch(k[1].value, l[1].value, FALSE)
    IN  IF k = <<>> /\ l = <<>> THEN <<>>
        ELSE IF diff < 0
        THEN <<Item(k[1].key, Leaf("null", <<>>))>> \o MergePatchItems(Tail(k), l, cs)
        ELSE IF diff > 0 THEN <<l[1]>> \o MergePatchItems(k, Tail(l), cs)
        ELSE (IF deeper = {} THEN <<>> ELSE <<Item(l[1].key, Only(deeper))>>)
             \o MergePatchItems(Tail(k), Tail(l), cs)

GenerateMergePatch(from, to, cs) ==
    IF to.type # "object" \/ from.type # "object" THEN {to}
    ELSE LET items == MergePatchItems(Sorted(from.items, cs), Sorted(to.items, cs), cs)
         IN  IF items = <<>> THEN {} ELSE {Branch("object", items)}

-----------------------------------------------------------------------------
RECURSIVE Addresses(_), Names(_), HasNullItem(_)
Addresses(tree) ==
    {<<>>} \cup UNION {{<<i>> \o a : a \in Addresses(tree.items[i].value)} : i \in DOMAIN tree.items}
Names(tree) ==
    {tree.items[i].key : i \in DOMAIN tree.items}
    \cup UNION {Names(tree.items[i].value) : i \in DOMAIN tree.items}
HasNullItem(tree) ==
    \E i \in DOMAIN tree.items : \/ tree.type = "object" /\ tree.items[i].value.type = "null"
                                 \/ HasNullItem(tree.items[i].value)

\* Names that every part of the code treats alike: in lower case, without ~ and /.
Plain(tree) == \A k \in Names(tree) : LowerCase(k) = k /\ \A i \in DOMAIN k : k[i] \notin {Tilde, Slash}

\* The pointer to an item leads to that item, whatever its name.
PointersLead(tree) ==
    DistinctNames(tree) =>
        \A a \in Addresses(tree) : Locate(tree, PointerTo(tree, a), TRUE) = {a}

\* Sorting keeps the items and puts their names in order.
SortExact(tree) ==
    \A cs \in BOOLEAN :
        LET s == SortObject(tree, cs).items
            times(t, x) == Cardinality({i \in DOMAIN t : t[i] = x})
        IN  /\ \A i \in DOMAIN s, j \in DOMAIN s :
                  i < j => CompareStrings(s[i].key, s[j].key, cs) <= 0
            /\ Len(s) = Len(tree.items)
            /\ \A i \in DOMAIN s : times(s, s[i]) = times(tree.items, s[i])

\* The patches made from two trees turn the one into the other, and so does the merge
\* patch if the other has no null among its items; without any there is no difference.
PatchesExact(a, b) ==
    \A cs \in BOOLEAN :
        LET r == ApplyPatches(a, GeneratePatches(a, b, cs), cs)
            m == GenerateMergePatch(a, b, cs)
        IN  (DistinctNames(a) /\ DistinctNames(b) /\ Plain(a) /\ Plain(b)) =>
               /\ r.status = 0 /\ Meaning(r.tree) = Meaning(b)
               /\ CompareJson(a, b, cs) <=> GeneratePatches(a, b, cs) = <<>>
               /\ HasNullItem(b) \/ Meaning(IF m = {} THEN a ELSE MergePatch({a}, Only(m), cs))
                                        = Meaning(b)

\* To move an item is to copy it and remove it, and a copy is what was copied.
MovesTo(tree, from, item, to, cs) ==
    LET patch(op, path, source, value) ==
            [op |-> op, path |-> {path}, from |-> source, value |-> value]
        copy == patch("copy", to, {from}, {})
    IN  \A copied \in {ApplyPatches(tree, <<copy, patch("test", to, {}, {item})>>, cs)},
           removed \in {ApplyPatches(tree, <<copy, patch("remove", from, {}, {})>>, cs)},
           moved \in {ApplyPatches(tree, <<patch("move", to, {from}, {})>>, cs)} :
            /\ copied.status = 0 /\ removed.status = 0 /\ moved.status = 0
            /\ Meaning(moved.tree) = Meaning(removed.tree)
MovesExact(tree) ==
    (tree.type = "object" /\ DistinctNames(tree) /\ Plain(tree)) =>
        \A a \in Addresses(tree) \ {<<>>}, cs \in BOOLEAN :
            MovesTo(tree, PointerTo(tree, a), Subtree(tree, a), <<Slash, 122>>, cs)
=============================================================================
