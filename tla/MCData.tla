-------------------------------- MODULE MCData --------------------------------
(* The data the gateway exchanges: the items of its messages on the heap,     *)
(* without references ("items") and with one ("references"); texts, longer    *)
(* piece by piece ("text"); and values, alone and in pairs ("values").  The   *)
(* variables of one rest while another runs.  Cells are interchangeable.      *)
EXTENDS JsonTree, TLC

CONSTANTS MaxPieces, CJSON_NESTING_LIMIT, NumberBuffer

VARIABLES part, kind, pieces, value

Json == INSTANCE JsonPatch
S == INSTANCE SequencesExt

textVars == <<kind, pieces, value>>
allVars == <<part, vars, textVars>>

-----------------------------------------------------------------------------
(* Texts of three kinds; 48 to 57 are digits, 97 an a, 98 a b.              *)

A == <<97>>
B == <<98>>
One == <<49>>
Two == <<50>>
Escape == <<Json!Backslash, 117>>
QuotedA == <<Json!Quote>> \o A \o <<Json!Quote>>

Pieces ==
    [structure |-> {<<Json!OpenObject>>, <<Json!CloseObject>>, <<Json!OpenArray>>,
                    <<Json!CloseArray>>, <<Json!Colon>>, <<Json!Comma>>, QuotedA, One,
                    <<Json!Space>>},
     nesting |-> {<<Json!OpenObject>> \o QuotedA \o <<Json!Colon>>, <<Json!CloseObject>>,
                  <<Json!OpenArray>>, <<Json!CloseArray>>, <<Json!Comma>>, Json!null,
                  <<Json!Comma>> \o QuotedA \o <<Json!Colon>>},
     strings |-> {Escape, <<48, 48, 48, 49>>, <<48, 48, 101, 57>>, <<100, 56, 51, 100>>,
                  <<100, 101, 48, 48>>, <<Json!Backslash, 110>>, <<Json!Quote>>,
                  <<Json!Backslash>>},
     numbers |-> {One, <<Json!Minus>>, <<101>>, <<Json!Point>>, <<Json!Comma>>,
                  <<Json!CloseArray>>}]

Opening(k) ==
    CASE k = "structure" -> {<<>>, Json!BOM}
      [] k = "nesting" -> {<<>>}
      [] k = "strings" -> {<<Json!Quote>>}
      [] k = "numbers" -> {<<>>, <<Json!OpenArray>>}

Text == S!FlattenSeq(pieces)

-----------------------------------------------------------------------------
(* Values.                                                                  *)

Null == Json!Leaf("null", <<>>)
Number(t) == Json!Leaf("number", t)
String(t) == Json!Leaf("string", t)
Lists(X, n) == UNION {[1..k -> X] : k \in 0..n}
Arrays(X, n) == {Json!Branch("array", l) : l \in Lists({Json!Item(<<>>, v) : v \in X}, n)}
Objects(K, X, n) ==
    {Json!Branch("object", l) : l \in Lists({Json!Item(k, v) : k \in K, v \in X}, n)}

Scalars == {Null, Number(One), Number(Two), String(A)}
Simple == Scalars \cup Arrays({Number(One), Number(Two)}, 2) \cup Objects({A, B}, {Null, Number(One)}, 1)
List1 == Json!Branch("array", <<Json!Item(<<>>, Number(One))>>)

\* Those that are compared and patched in pairs.
Pairs ==
    Simple \cup Arrays({Number(One), Number(Two)}, 3) \cup Objects({A, B}, Simple, 1)
           \cup Arrays({Number(One), Json!Branch("object", <<Json!Item(A, Number(One))>>)}, 2)
           \cup Objects({A, B}, {Number(One), List1}, 2)
           \cup {Json!Branch("object", <<Json!Item(<<99>>, x), Json!Item(A, y), Json!Item(B, z)>>) :
                    x, y, z \in {Number(One), List1}}

\* Others: names in both cases, with ~ and /, twice, or all out of order; text to escape.
Strange ==
    Objects({<<65>>, A, <<Json!Tilde>>, <<Json!Slash, 48>>}, {Number(One), List1}, 2)
    \cup {Json!Branch("object", [i \in 1..5 |-> Json!Item(<<102 - i>>, Number(One))])}
    \cup Objects({<<Json!Newline>>}, {String(<<>>), String(<<Json!Quote, 1>>),
                 String(<<Json!Newline, Json!Backslash>>), String(<<195, 169>>),
                 Json!Leaf("true", <<>>), Number(<<45, 49>>)}, 2)

-----------------------------------------------------------------------------
TextRests == kind = "none" /\ pieces = <<>> /\ value = Null

DataInit ==
    /\ Init
    /\ \/ part \in {"items", "references"} /\ TextRests
       \/ /\ part = "text" /\ value = Null
          /\ kind \in DOMAIN Pieces
          /\ pieces \in {<<o>> : o \in Opening(kind)}
       \/ /\ part = "values" /\ kind = "none" /\ pieces = <<>>
          /\ value \in Pairs \cup Strange

Extend ==
    /\ Len(pieces) <= MaxPieces
    /\ \E p \in Pieces[kind] : pieces' = Append(pieces, p)
    /\ UNCHANGED <<kind, value>>

\* Bounds: without references, one key may be constant; with one, none is.
ItemsNext ==
    /\ Next
    /\ References' = {} /\ ~leaked'
    /\ \A c \in Cells : node'[c].string # [text |-> "pair", const |-> TRUE]

ReferencesNext == Next /\ \A c \in Cells : ~node'[c].string.const

DataNext ==
    \/ part = "items" /\ ItemsNext /\ UNCHANGED <<part, textVars>>
    \/ part = "references" /\ ReferencesNext /\ UNCHANGED <<part, textVars>>
    \/ part = "text" /\ Extend /\ UNCHANGED <<part, vars>>

DataSpec == DataInit /\ [][DataNext]_allVars

Interchangeable == Permutations(Cells)

-----------------------------------------------------------------------------
\* JsonText: a text is read for what it means.
TextsRead == part = "text" => Json!ParseAgrees(Text) /\ Json!TerminatedAgrees(Text)

\* JsonText: a value is printed so that it is read again, in any buffer, and compared
\* by what it means.
ValuesPrinted ==
    part = "values" =>
        Json!PrintExact(value) /\ \A other \in Simple \cup Strange : Json!CompareExact(value, other)

\* JsonPatch: pointers lead to what they name, objects are sorted, and patches turn one
\* value into another.
ValuesPatched ==
    part = "values" =>
        /\ Json!PointersLead(value) /\ Json!SortExact(value) /\ Json!MovesExact(value)
        /\ value \in Pairs => \A other \in Pairs : Json!PatchesExact(value, other)
=============================================================================
