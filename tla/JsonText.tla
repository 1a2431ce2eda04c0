------------------------------- MODULE JsonText -------------------------------
(***************************************************************************)
(* The text of cJSON's trees (cJSON.c): the parser that reads every        *)
(* message of the gateway, the printer that writes them into a buffer of   *)
(* some length, Minify and Compare; and Denoted, the grammar they are      *)
(* measured against.                                                       *)
(*                                                                         *)
(* A text is a sequence of bytes.  A tree here is a value: its numbers are *)
(* kept as text, strtod and "%1.15g" being exact on the few that occur.    *)
(* How a tree lies in memory is JsonTree's; allocations fail only where a  *)
(* buffer grows.                                                           *)
(***************************************************************************)
EXTENDS Integers, FiniteSets, Sequences

CONSTANTS
    CJSON_NESTING_LIMIT,
    NumberBuffer    \* characters of a number that parse_number copies: 63

Quote == 34
Backslash == 92
Slash == 47
Comma == 44
Colon == 58
OpenArray == 91
CloseArray == 93
OpenObject == 123
CloseObject == 125
Space == 32
Tab == 9
Newline == 10
Minus == 45
Plus == 43
Point == 46

null == <<110, 117, 108, 108>>
false == <<102, 97, 108, 115, 101>>
true == <<116, 114, 117, 101>>
BOM == <<239, 187, 191>>

Digits == 48..57
Exponent == {69, 101}

Leaf(type, text) == [type |-> type, text |-> text, items |-> <<>>]
Branch(type, items) == [type |-> type, text |-> <<>>, items |-> items]
Item(key, value) == [key |-> key, value |-> value]

\* Escapes of one letter, and what they stand for.
Escapes == <<<<98, 8>>, <<102, 12>>, <<110, 10>>, <<114, 13>>, <<116, 9>>,
             <<Quote, Quote>>, <<Backslash, Backslash>>, <<Slash, Slash>>>>
Unescaped(c) == {Escapes[i][2] : i \in {j \in 1..8 : Escapes[j][1] = c}}

HexDigit(c) ==
    IF c \in Digits THEN {c - 48}
    ELSE IF c \in 65..70 THEN {c - 55}
    ELSE IF c \in 97..102 THEN {c - 87} ELSE {}

Hex4(h) ==
    IF \E k \in 1..4 : HexDigit(h[k]) = {} THEN {}
    ELSE LET d(k) == CHOOSE x \in HexDigit(h[k]) : TRUE
         IN  {d(1) * 4096 + d(2) * 256 + d(3) * 16 + d(4)}

\* The UTF-8 bytes of a code point.
Utf8(c) ==
    LET low(n) == 128 + ((c \div n) % 64)
    IN  IF c < 128 THEN <<c>>
        ELSE IF c < 2048 THEN <<192 + (c \div 64), low(1)>>
        ELSE IF c < 65536 THEN <<224 + (c \div 4096), low(64), low(1)>>
        ELSE <<240 + (c \div 262144), low(4096), low(64), low(1)>>

High == 55296..56319
Low == 56320..57343
Pair(high, low) == 65536 + (high % 1024) * 1024 + (low % 1024)

Lowest(S) == CHOOSE x \in S : \A y \in S : x <= y
Highest(S) == CHOOSE x \in S : \A y \in S : x >= y

\* What strtod takes for a number.
IsDigits(s) == s # <<>> /\ \A k \in DOMAIN s : s[k] \in Digits
Unsigned(s) == IF s # <<>> /\ s[1] \in {Minus, Plus} THEN Tail(s) ELSE s
IsNumber(s) ==
    \E e \in 0..Len(s) :
        LET mantissa == Unsigned(SubSeq(s, 1, e))
            digits == SelectSeq(mantissa, LAMBDA c : c # Point)
        IN  /\ IsDigits(digits) /\ Len(digits) >= Len(mantissa) - 1
            /\ e < Len(s) => /\ s[e + 1] \in Exponent
                             /\ IsDigits(Unsigned(SubSeq(s, e + 2, Len(s))))

NumberCharacters == Digits \cup Exponent \cup {Minus, Plus, Point}

-----------------------------------------------------------------------------
(* The parser.  Offsets count from 0.  A result holds the offset reached:  *)
(* behind the value, or where it failed.                                   *)

Ok(at, tree) == [ok |-> TRUE, at |-> at, tree |-> tree]
Fail(at) == [ok |-> FALSE, at |-> at, tree |-> Leaf("none", <<>>)]

CanAccess(s, i) == i < Len(s)
Byte(s, i) == s[i + 1]
At(s, i, c) == CanAccess(s, i) /\ Byte(s, i) = c
Reads(s, i, word) == i + Len(word) <= Len(s) /\ SubSeq(s, i + 1, i + Len(word)) = word

\* At the end of the text it steps back to the last byte.
SkipWhitespace(s, i) ==
    IF ~CanAccess(s, i) THEN i
    ELSE LET j == Lowest({k \in i..Len(s) : k = Len(s) \/ Byte(s, k) > Space})
         IN  IF j = Len(s) THEN j - 1 ELSE j

SkipBom(s) == IF CanAccess(s, 4) /\ SubSeq(s, 1, 3) = BOM THEN 3 ELSE 0

\* parse_hex4 takes what is not hexadecimal for 0.
Code(s, p) ==
    LET v == Hex4(SubSeq(s, p + 3, p + 6)) IN IF v = {} THEN 0 ELSE CHOOSE x \in v : TRUE

\* utf16_literal_to_utf8: how many bytes it reads at p, 0 of them for a failure.
Utf16Literal(s, p, end) ==
    LET none == [length |-> 0, bytes |-> <<>>] IN
    IF end - p < 6 \/ Code(s, p) \in Low THEN none
    ELSE IF Code(s, p) \notin High THEN [length |-> 6, bytes |-> Utf8(Code(s, p))]
    ELSE IF end - (p + 6) < 6 \/ ~Reads(s, p + 6, <<Backslash, 117>>)
            \/ Code(s, p + 6) \notin Low
    THEN none
    ELSE [length |-> 12, bytes |-> Utf8(Pair(Code(s, p), Code(s, p + 6)))]

\* Variant: the first quote closes, escaped or not.
Closing_FirstQuote(s, p) ==
    LET Q == {k \in p..Len(s) - 1 : Byte(s, k) = Quote}
    IN  IF Q = {} THEN {} ELSE {Lowest(Q)}

\* The closing quote, looked for from p, where an escaped byte never closes; or none.
RECURSIVE Closing(_, _)
Closing(s, p) ==
    IF ~CanAccess(s, p) THEN {}
    ELSE IF Byte(s, p) = Quote THEN {p}
    ELSE IF Byte(s, p) = Backslash
    THEN IF CanAccess(s, p + 1) THEN Closing(s, p + 2) ELSE {}
    ELSE Closing(s, p + 1)

\* The loop through the string literal from p to end, out being written so far.
RECURSIVE Unescape(_, _, _, _)
Unescape(s, p, end, out) ==
    IF p >= end THEN [ok |-> TRUE, at |-> end + 1, out |-> out]
    ELSE LET c == Byte(s, p + 1)
             utf == Utf16Literal(s, p, end)
             failed == [ok |-> FALSE, at |-> p, out |-> out]
         IN  IF Byte(s, p) # Backslash THEN Unescape(s, p + 1, end, Append(out, Byte(s, p)))
             ELSE IF c = 117
             THEN IF utf.length = 0 THEN failed
                  ELSE Unescape(s, p + utf.length, end, out \o utf.bytes)
             ELSE IF Unescaped(c) = {} THEN failed
             ELSE Unescape(s, p + 2, end, out \o <<CHOOSE x \in Unescaped(c) : TRUE>>)

\* parse_string, which looks at its first byte wherever it lies, once behind the text.
\* What is read from the copy later ends at a byte of 0.
CString(b) ==
    LET n == {k \in DOMAIN b : b[k] = 0} IN IF n = {} THEN b ELSE SubSeq(b, 1, Lowest(n) - 1)

ParseString(s, i, behind) ==
    LET first == IF CanAccess(s, i) THEN Byte(s, i) ELSE behind
        closing == Closing(s, i + 1)
        r == Unescape(s, i + 1, CHOOSE e \in closing : TRUE, <<>>)
    IN  IF first # Quote \/ closing = {} THEN Fail(i + 1)
        ELSE IF r.ok THEN Ok(r.at, Leaf("string", CString(r.out))) ELSE Fail(r.at)

ParseNumber(s, i) ==
    LET run == Lowest({k \in i..Len(s) : \/ k = Len(s) \/ k = i + NumberBuffer
                                         \/ Byte(s, k) \notin NumberCharacters})
        taken == {k \in i + 1..run : IsNumber(SubSeq(s, i + 1, k))}
    IN  IF taken = {} THEN Fail(i)
        ELSE Ok(Highest(taken), Leaf("number", SubSeq(s, i + 1, Highest(taken))))

RECURSIVE ParseValue(_, _, _, _), ParseItems(_, _, _, _, _, _)

\* What follows the value v.
ParseRest(s, key, v, next, depth, named, behind, items) ==
    IF ~v.ok THEN v
    ELSE IF At(s, next, Comma)
    THEN ParseItems(s, next, depth, named, behind, Append(items, Item(key, v.tree)))
    ELSE IF At(s, next, IF named THEN CloseObject ELSE CloseArray)
    THEN Ok(next + 1, Branch(IF named THEN "object" ELSE "array", Append(items, Item(key, v.tree))))
    ELSE Fail(next)

ParseItem(s, key, v, depth, named, behind, items) ==
    ParseRest(s, key, v, SkipWhitespace(s, v.at), depth, named, behind, items)

\* What follows the name k.
ParseNamed(s, k, colon, depth, behind, items) ==
    IF ~k.ok THEN k
    ELSE IF ~At(s, colon, Colon) THEN Fail(colon)
    ELSE ParseItem(s, k.tree.text, ParseValue(s, SkipWhitespace(s, colon + 1), depth, behind),
                   depth, TRUE, behind, items)

ParseName(s, k, depth, behind, items) ==
    ParseNamed(s, k, SkipWhitespace(s, k.at), depth, behind, items)

\* One item after the other, i being before the first, or at a comma; named in objects.
ParseItems(s, i, depth, named, behind, items) ==
    IF named
    THEN ParseName(s, ParseString(s, SkipWhitespace(s, i + 1), behind), depth, behind, items)
    ELSE ParseItem(s, <<>>, ParseValue(s, SkipWhitespace(s, i + 1), depth, behind),
                   depth, FALSE, behind, items)

ParseBranch(s, i, depth, type, close, behind) ==
    LET first == SkipWhitespace(s, i + 1)
    IN  IF depth >= CJSON_NESTING_LIMIT THEN Fail(i)
        ELSE IF At(s, first, close) THEN Ok(first + 1, Branch(type, <<>>))
        ELSE IF ~CanAccess(s, first) THEN Fail(first - 1)
        ELSE ParseItems(s, first - 1, depth + 1, type = "object", behind, <<>>)

ParseArray(s, i, depth, behind) == ParseBranch(s, i, depth, "array", CloseArray, behind)
ParseObject(s, i, depth, behind) == ParseBranch(s, i, depth, "object", CloseObject, behind)

ParseValue(s, i, depth, behind) ==
    IF Reads(s, i, null) THEN Ok(i + 4, Leaf("null", <<>>))
    ELSE IF Reads(s, i, false) THEN Ok(i + 5, Leaf("false", <<>>))
    ELSE IF Reads(s, i, true) THEN Ok(i + 4, Leaf("true", <<>>))
    ELSE IF At(s, i, Quote) THEN ParseString(s, i, behind)
    ELSE IF CanAccess(s, i) /\ Byte(s, i) \in Digits \cup {Minus} THEN ParseNumber(s, i)
    ELSE IF At(s, i, OpenArray) THEN ParseArray(s, i, depth, behind)
    ELSE IF At(s, i, OpenObject) THEN ParseObject(s, i, depth, behind)
    ELSE Fail(i)

\* cJSON_ParseWithLengthOpts.  A failure is reported at a byte of the text.
FailIn(s, i) == Fail(IF i < Len(s) THEN i ELSE IF s = <<>> THEN 0 ELSE Len(s) - 1)
ParseEnd(s, r, rest, terminated) ==
    IF ~r.ok THEN FailIn(s, r.at)
    ELSE IF ~terminated THEN r
    ELSE IF At(s, rest, 0) THEN Ok(rest, r.tree) ELSE FailIn(s, rest)
ParseRead(s, r, terminated) == ParseEnd(s, r, SkipWhitespace(s, r.at), terminated)
ParseWithLengthOpts(s, terminated, behind) ==
    IF s = <<>> THEN FailIn(s, 0)
    ELSE ParseRead(s, ParseValue(s, SkipWhitespace(s, SkipBom(s)), 0, behind), terminated)

ParseWithLength(s, behind) == ParseWithLengthOpts(s, FALSE, behind)

\* cJSON_ParseWithOpts, of a text that ends with a byte of 0.
ParseWithOpts(s, terminated) == ParseWithLengthOpts(Append(s, 0), terminated, 0)

-----------------------------------------------------------------------------
(* The printer.  p is the buffer: what is printed lies before p.offset, and *)
(* ends with a byte of 0 where update_offset looks for one.                 *)

Garbage == 255

Buffer(length, format, noalloc, memory) ==
    [buf |-> [i \in 1..length |-> Garbage], offset |-> 0, depth |-> 0,
     noalloc |-> noalloc, format |-> format, memory |-> memory,
     ok |-> TRUE, wild |-> FALSE]

Refused(p) == [p EXCEPT !.ok = FALSE]

\* Variant: what was printed already is not counted.
Ensure_NoOffset(p, needed) ==
    LET want == needed + 1
        length == Len(p.buf)
        grown == [i \in 1..2 * want |-> IF i <= length THEN p.buf[i] ELSE Garbage]
    IN  IF ~p.ok \/ (length > 0 /\ p.offset >= length) THEN Refused(p)
        ELSE IF want <= length THEN p
        ELSE IF p.noalloc THEN Refused(p)
        ELSE IF 2 * want > p.memory THEN [Refused(p) EXCEPT !.buf = <<>>]
        ELSE [p EXCEPT !.buf = grown]

\* ensure: room for needed bytes and one more.  A buffer that cannot grow is gone.
Ensure(p, needed) ==
    LET want == needed + p.offset + 1
        length == Len(p.buf)
        grown == [i \in 1..2 * want |-> IF i <= length THEN p.buf[i] ELSE Garbage]
    IN  IF ~p.ok \/ (length > 0 /\ p.offset >= length) THEN Refused(p)
        ELSE IF want <= length THEN p
        ELSE IF p.noalloc THEN Refused(p)
        ELSE IF 2 * want > p.memory THEN [Refused(p) EXCEPT !.buf = <<>>]
        ELSE [p EXCEPT !.buf = grown]

\* Bytes are stored at the offset, which then moves: wild, if they do not lie inside.
Store(p, bytes, moves) ==
    IF ~p.ok THEN p
    ELSE IF p.offset + Len(bytes) > Len(p.buf) THEN [Refused(p) EXCEPT !.wild = TRUE]
    ELSE [p EXCEPT !.buf = [i \in DOMAIN p.buf |->
                               IF i - p.offset \in DOMAIN bytes THEN bytes[i - p.offset]
                               ELSE p.buf[i]],
                   !.offset = @ + moves]

Write(p, needed, bytes, moves) == Store(Ensure(p, needed), bytes, moves)

UpdateOffset(p) ==
    LET ends == {k \in p.offset + 1..Len(p.buf) : p.buf[k] = 0}
    IN  IF ~p.ok THEN p
        ELSE IF ends = {} THEN [Refused(p) EXCEPT !.wild = TRUE]
        ELSE [p EXCEPT !.offset = Lowest(ends) - 1]

Tabs(n) == [i \in 1..n |-> Tab]
If(condition, bytes) == IF condition THEN bytes ELSE <<>>

Hex(d) == IF d < 10 THEN 48 + d ELSE 87 + d
Letters(c) == {Escapes[k][1] : k \in {j \in 1..7 : Escapes[j][2] = c}}
Escaped(c) ==
    IF Letters(c) # {} THEN <<Backslash, CHOOSE l \in Letters(c) : TRUE>>
    ELSE IF c < Space THEN <<Backslash, 117, 48, 48, Hex(c \div 16), Hex(c % 16)>>
    ELSE <<c>>

RECURSIVE EscapedText(_)
EscapedText(s) == IF s = <<>> THEN <<>> ELSE Escaped(Head(s)) \o EscapedText(Tail(s))

PrintString(p, s) ==
    LET text == EscapedText(s)
    IN  Write(p, Len(text) + 3, <<Quote>> \o text \o <<Quote, 0>>, 0)

\* What is not finite, here a number without text, is printed as null.
PrintNumber(p, s) ==
    LET text == IF s = <<>> THEN null ELSE s
    IN  Write(p, Len(text) + 1, Append(text, 0), Len(text))

PrintWord(p, word) == Write(p, Len(word) + 1, Append(word, 0), 0)

RECURSIVE PrintValue(_, _), PrintElements(_, _), PrintMembers(_, _)

PrintElements(p, items) ==
    IF items = <<>> THEN p
    ELSE LET q == UpdateOffset(PrintValue(p, items[1].value))
             comma == <<Comma>> \o If(p.format, <<Space>>)
         IN  IF Len(items) = 1 THEN q
             ELSE PrintElements(Write(q, Len(comma) + 1, Append(comma, 0), Len(comma)),
                                Tail(items))

Deeper(p) == [p EXCEPT !.depth = @ + 1]
Shallower(p) == [p EXCEPT !.depth = @ - 1]

PrintArray(p, items) ==
    LET q == PrintElements(Deeper(Write(p, 1, <<OpenArray>>, 1)), items)
    IN  Shallower(Write(q, 2, <<CloseArray, 0>>, 0))

PrintMembers(p, items) ==
    IF items = <<>> THEN p
    ELSE LET tabs == IF p.format THEN Write(p, p.depth, Tabs(p.depth), p.depth) ELSE p
             key == UpdateOffset(PrintString(tabs, items[1].key))
             colon == <<Colon>> \o If(p.format, <<Tab>>)
             value == UpdateOffset(PrintValue(Write(key, Len(colon), colon, Len(colon)),
                                              items[1].value))
             end == If(Len(items) > 1, <<Comma>>) \o If(p.format, <<Newline>>)
         IN  PrintMembers(Write(value, Len(end) + 1, Append(end, 0), Len(end)), Tail(items))

PrintObject(p, items) ==
    LET open == <<OpenObject>> \o If(p.format, <<Newline>>)
        q == PrintMembers(Deeper(Write(p, Len(open) + 1, open, Len(open))), items)
    IN  Shallower(Write(q, IF p.format THEN q.depth + 1 ELSE 2,
                        If(p.format, Tabs(q.depth - 1)) \o <<CloseObject, 0>>, 0))

PrintValue(p, tree) ==
    CASE tree.type = "null" -> PrintWord(p, null)
      [] tree.type = "false" -> PrintWord(p, false)
      [] tree.type = "true" -> PrintWord(p, true)
      [] tree.type = "raw" -> PrintWord(p, tree.text)
      [] tree.type = "number" -> PrintNumber(p, tree.text)
      [] tree.type = "string" -> PrintString(p, tree.text)
      [] tree.type = "array" -> PrintArray(p, tree.items)
      [] tree.type = "object" -> PrintObject(p, tree.items)

\* cJSON_Print and cJSON_PrintUnformatted begin with a buffer of some length too.
PrintText(tree, format, length, memory) ==
    UpdateOffset(PrintValue(Buffer(length, format, FALSE, memory), tree))
PrintBuffered(tree, length, format, memory) ==
    PrintValue(Buffer(length, format, FALSE, memory), tree)
PrintPreallocated(tree, length, format) ==
    PrintValue(Buffer(length, format, TRUE, 0), tree)

-----------------------------------------------------------------------------
(* cJSON_Minify, on a text that ends with a byte of 0.                      *)

\* The offset behind a comment at i.
AfterComment(s, i, end) ==
    LET ends == {k \in i + 2..Len(s) : Reads(s, k, end)}
    IN  IF ends = {} THEN Len(s) - 1 ELSE Lowest(ends) + Len(end)

\* minify_string, behind the opening quote: the offset where it stops.
RECURSIVE AfterString(_, _)
AfterString(s, i) ==
    IF Byte(s, i) = 0 THEN i
    ELSE IF Byte(s, i) = Quote THEN i + 1
    ELSE IF Reads(s, i, <<Backslash, Quote>>) THEN AfterString(s, i + 2)
    ELSE AfterString(s, i + 1)

RECURSIVE MinifyFrom(_, _)
MinifyFrom(s, i) ==
    LET c == Byte(s, i)
        end == AfterString(s, i + 1)
    IN  IF c = 0 THEN <<>>
        ELSE IF c \in {Space, Tab, 13, Newline} THEN MinifyFrom(s, i + 1)
        ELSE IF Reads(s, i, <<Slash, Slash>>)
        THEN MinifyFrom(s, AfterComment(s, i, <<Newline>>))
        ELSE IF Reads(s, i, <<Slash, 42>>)
        THEN MinifyFrom(s, AfterComment(s, i, <<42, Slash>>))
        ELSE IF c = Slash THEN MinifyFrom(s, i + 1)
        ELSE IF c = Quote THEN SubSeq(s, i + 1, end) \o MinifyFrom(s, end)
        ELSE <<c>> \o MinifyFrom(s, i + 1)

Minify(s) == MinifyFrom(Append(s, 0), 0)

-----------------------------------------------------------------------------
(* cJSON_Compare, of two trees that share no item.                          *)

LowerCase(s) == [k \in DOMAIN s |-> IF s[k] \in 65..90 THEN s[k] + 32 ELSE s[k]]
SameKey(k, l, caseSensitive) ==
    IF caseSensitive THEN k = l ELSE LowerCase(k) = LowerCase(l)

\* Where the first item of that name is, and the item.
FirstNamed(items, key, caseSensitive) ==
    LET S == {i \in DOMAIN items : SameKey(key, items[i].key, caseSensitive)}
    IN  IF S = {} THEN {} ELSE {Lowest(S)}
ItemsNamed(tree, key, caseSensitive) ==
    {tree.items[i].value : i \in FirstNamed(tree.items, key, caseSensitive)}

RECURSIVE Compare(_, _, _)
Compare(a, b, cs) ==
    LET covers(x, y) == \A i \in DOMAIN x.items :
            \E v \in ItemsNamed(y, x.items[i].key, cs) : Compare(x.items[i].value, v, cs)
    IN  /\ a.type = b.type
        /\ a.type \in {"number", "string", "raw"} => a.text = b.text
        /\ a.type = "array" =>
              /\ Len(a.items) = Len(b.items)
              /\ \A i \in DOMAIN a.items : Compare(a.items[i].value, b.items[i].value, cs)
        /\ a.type = "object" => covers(a, b) /\ covers(b, a)

-----------------------------------------------------------------------------
(* The grammar: the trees that a text stands for, at most one.  Bytes up to *)
(* that of a space may stand around every value and name.                   *)

RECURSIVE Trim(_)
Trim(s) ==
    IF s = <<>> THEN s
    ELSE IF s[1] <= Space THEN Trim(Tail(s))
    ELSE IF s[Len(s)] <= Space THEN Trim(SubSeq(s, 1, Len(s) - 1))
    ELSE s

\* What the inside of a string stands for.
RECURSIVE Unquoted(_)
Unquoted(s) ==
    LET after(n, bytes) == {bytes \o t : t \in Unquoted(SubSeq(s, n + 1, Len(s)))}
        escape(n) == Len(s) >= n + 6 /\ Reads(s, n, <<Backslash, 117>>)
        code(n) == IF escape(n) THEN Hex4(SubSeq(s, n + 3, n + 6)) ELSE {}
    IN  IF s = <<>> THEN {<<>>}
        ELSE IF s[1] = Quote THEN {}
        ELSE IF s[1] # Backslash THEN after(1, <<s[1]>>)
        ELSE UNION {after(2, <<c>>) : c \in IF Len(s) > 1 THEN Unescaped(s[2]) ELSE {}}
             \cup UNION {after(6, Utf8(c)) : c \in code(0) \ (High \cup Low)}
             \cup UNION {UNION {after(12, Utf8(Pair(c, d))) : d \in code(6) \cap Low} :
                            c \in code(0) \cap High}

Inside(s) == SubSeq(s, 2, Len(s) - 1)
Enclosed(s, open, close) == Len(s) >= 2 /\ s[1] = open /\ s[Len(s)] = close
Quoted(s) == IF Enclosed(s, Quote, Quote) THEN Unquoted(Inside(s)) ELSE {}

Positions(s, c) == {k \in DOMAIN s : s[k] = c}
Before(s, k) == SubSeq(s, 1, k - 1)
Behind(s, k) == SubSeq(s, k + 1, Len(s))

RECURSIVE Denoted(_, _), DenotedItem(_, _, _), DenotedItems(_, _, _)

DenotedItem(s, depth, named) ==
    IF ~named THEN {Item(<<>>, v) : v \in Denoted(s, depth)}
    ELSE UNION {{Item(k, v) : k \in Quoted(Trim(Before(s, c))), v \in Denoted(Behind(s, c), depth)} :
                   c \in Positions(s, Colon)}

DenotedItems(s, depth, named) ==
    {<<i>> : i \in DenotedItem(s, depth, named)} \cup
    UNION {{<<i>> \o rest : i \in DenotedItem(Before(s, c), depth, named),
                            rest \in DenotedItems(Behind(s, c), depth, named)} :
              c \in Positions(s, Comma)}

Denoted(text, depth) ==
    LET s == Trim(text)
        branch(type, open, close) ==
            IF ~Enclosed(s, open, close) \/ depth >= CJSON_NESTING_LIMIT THEN {}
            ELSE {Branch(type, l) : l \in
                    IF Trim(Inside(s)) = <<>> THEN {<<>>}
                    ELSE DenotedItems(Inside(s), depth + 1, type = "object")}
        number == /\ s # <<>> /\ s[1] \in Digits \cup {Minus}
                  /\ Len(s) <= NumberBuffer /\ IsNumber(s)
    IN  (IF s = null THEN {Leaf("null", <<>>)} ELSE {})
        \cup (IF s = false THEN {Leaf("false", <<>>)} ELSE {})
        \cup (IF s = true THEN {Leaf("true", <<>>)} ELSE {})
        \cup (IF number THEN {Leaf("number", s)} ELSE {})
        \cup {Leaf("string", t) : t \in Quoted(s)}
        \cup branch("array", OpenArray, CloseArray)
        \cup branch("object", OpenObject, CloseObject)

-----------------------------------------------------------------------------
\* Escapes \u that four hexadecimal digits do not follow are read as 0, which ends a
\* string: nothing is said of them.
Proper(s) ==
    \A k \in DOMAIN s : Reads(s, k - 1, <<Backslash, 117>>) =>
                            Len(s) >= k + 5 /\ Hex4(SubSeq(s, k + 2, k + 5)) # {}

\* What r says of the text, which is read from some offset on, is what the grammar says.
MeantBy(r, s, from) ==
    /\ ~r.ok => r.at \in 0..Len(s)
    /\ Proper(s) => IF r.ok THEN r.tree \in Denoted(SubSeq(s, from + 1, r.at), 0)
                    ELSE \A k \in from + 1..Len(s) : Denoted(SubSeq(s, from + 1, k), 0) = {}

\* The parser reads what the grammar says, up to where it stops, and refuses a text only
\* if no beginning of it means anything; the byte behind the text makes no difference, and
\* a failure is reported at a byte of the text.
ParseAgrees(s) ==
    \A r \in {ParseWithLength(s, 0)} :
        ParseWithLength(s, Quote) = r /\ MeantBy(r, s, SkipBom(s))

\* With a byte of 0 required behind it, a text is read as a whole or not at all.
TerminatedAgrees(s) ==
    \A r \in {ParseWithOpts(s, TRUE)},
       meant \in {Denoted(SubSeq(s, SkipBom(Append(s, 0)) + 1, Len(s)), 0)} :
        Proper(s) => IF r.ok THEN r.tree \in meant ELSE meant = {}

\* Some string or name ends with a backslash.
RECURSIVE EndsWithBackslash(_)
EndsWithBackslash(tree) ==
    LET ends(t) == t # <<>> /\ t[Len(t)] = Backslash
    IN  ends(tree.text) \/ \E i \in DOMAIN tree.items :
            ends(tree.items[i].key) \/ EndsWithBackslash(tree.items[i].value)

\* What is printed is read as the same tree again, whether it was formatted or not.  No
\* buffer is written beyond its end; one given by the caller is enough if it has the
\* 5 bytes to spare that cJSON.h asks for; one that grows ends up with the same text.
\* Minify makes the one text of the other, but for strings that end with a backslash,
\* whose last quote it takes for an escaped one.
PrintExact(tree) ==
    \A format \in BOOLEAN :
        LET p == PrintText(tree, format, 8, 1000)
            text == SubSeq(p.buf, 1, p.offset)
            short == PrintText(tree, FALSE, 8, 1000)
            same(q) == ~q.wild /\ (q.ok => CString(q.buf) = text)
        IN  /\ p.ok /\ ParseWithOpts(text, TRUE).tree = tree
            /\ EndsWithBackslash(tree) \/ Minify(text) = SubSeq(short.buf, 1, short.offset)
            /\ \A length \in 0..Len(text) + 6 :
                  LET q == PrintPreallocated(tree, length, format)
                  IN  same(q) /\ (length = Len(text) + 6 => q.ok)
            /\ \A length \in {0, 5}, memory \in {10, 1000} :
                  LET q == PrintBuffered(tree, length, format, memory)
                  IN  same(q) /\ (memory = 1000 => q.ok)

\* What a tree means: objects are sets of names with values.
RECURSIVE Meaning(_)
Meaning(tree) ==
    IF tree.type = "object"
    THEN <<"object", {<<tree.items[i].key, Meaning(tree.items[i].value)>> : i \in DOMAIN tree.items}>>
    ELSE <<tree.type, tree.text, [i \in DOMAIN tree.items |-> Meaning(tree.items[i].value)]>>

RECURSIVE DistinctNames(_)
DistinctNames(tree) ==
    /\ \A i \in DOMAIN tree.items : DistinctNames(tree.items[i].value)
    /\ tree.type = "object" => \A i, j \in DOMAIN tree.items :
                                  tree.items[i].key = tree.items[j].key => i = j

\* The comparison is symmetric, and exact where an object's names are distinct.
CompareExact(a, b) ==
    /\ \A cs \in BOOLEAN : Compare(a, b, cs) = Compare(b, a, cs)
    /\ DistinctNames(a) /\ DistinctNames(b) => (Compare(a, b, TRUE) <=> Meaning(a) = Meaning(b))

=============================================================================
