-------------------------------- MODULE Json --------------------------------
(***************************************************************************)
(* JSON texts from their makers to the parser.  A text is either           *)
(*   - any sequence of bytes that a client may send (checkcmd() hands what *)
(*     it got to init_json_parser()), grown one byte at a time from one of *)
(*     several openings, or                                                *)
(*   - what json_to_string() prints of a tree that server code has built   *)
(*     with json_set_property_*() and perhaps copied (json_item_copy())    *)
(*     and then built on, as sm_send_raw() does.                           *)
(* The same parser reads both.                                             *)
(***************************************************************************)
EXTENDS JsonParser, JsonTree, FiniteSets

CONSTANTS
  Openings,   \* [prefix, bytes, max]: what a client's text begins and goes on with
  Completions,\* what is tried behind a refused text, to see that it was hopeless
  Keys,       \* the keys that server code uses
  Leaves,     \* the items without children that it makes
  MaxItems    \* bound: items of a built tree

ASSUME MaxItemsAssumption == MaxItems \in Nat
ASSUME OpeningsAssumption ==
  \A o \in Openings : o.prefix \in Seq(Bytes) /\ o.bytes \subseteq Bytes /\ o.max <= MaxText

VARIABLES
  opening,   \* the opening of a client's text; a record without bytes for a built one
  built,     \* the heap of the tree that is being built, empty for a client's text
  printed    \* history: what json_to_string() made of it, empty before

vars == <<pvars, opening, built, printed>>

NoOpening == [prefix |-> << >>, bytes |-> {}, max |-> 0]

Init ==
  /\ ParserInit
  /\ printed = << >>
  /\ \/ opening \in Openings /\ built = << >>
     \/ opening = NoOpening /\ built \in {<<json_new_object>>, <<json_new_array>>}

Building == built # << >> /\ printed = << >>

(* An element of an array has no key.                                      *)
KeysOf(obj) == IF built[obj].ctype = "OBJ" THEN {Text(k) : k \in Keys} ELSE {NoText}

Containers == {i \in DOMAIN built : built[i].ctype \in ContainerTypes}

SetLeaf ==
  /\ Building /\ Len(built) < MaxItems
  /\ \E obj \in Containers, item \in Leaves : \E key \in KeysOf(obj) :
       built' = SetProperty(built, obj, key, item)
  /\ UNCHANGED <<pvars, opening, printed>>

SetContainer ==
  /\ Building /\ Len(built) < MaxItems
  /\ \E obj \in Containers, item \in {json_new_object, json_new_array} :
       \E key \in KeysOf(obj) : built' = SetProperty(built, obj, key, item)
  /\ UNCHANGED <<pvars, opening, printed>>

(* The tree goes on as its copy.                                           *)
Copy ==
  /\ Building
  /\ built' = json_item_copy(built)
  /\ UNCHANGED <<pvars, opening, printed>>

Stringify ==
  /\ Building
  /\ printed' = json_to_string(built, 1)
  /\ UNCHANGED <<pvars, opening, built>>

(* The next byte of the text, as long as there is one.                     *)
Coming ==
  IF built # << >>
  THEN IF Len(text) < Len(printed) THEN {printed[Len(text) + 1]} ELSE {}
  ELSE IF Len(text) < Len(opening.prefix) THEN {opening.prefix[Len(text) + 1]}
  ELSE IF Len(text) < opening.max THEN opening.bytes
  ELSE {}

Read ==
  /\ ~Building
  /\ \E c \in Coming : Char(c)
  /\ UNCHANGED <<opening, built, printed>>

End ==
  /\ ~Building
  /\ built # << >> => Len(text) = Len(printed)
  /\ Done
  /\ UNCHANGED <<opening, built, printed>>

Next == SetLeaf \/ SetContainer \/ Copy \/ Stringify \/ Read \/ End

Spec == Init /\ [][Next]_vars

-----------------------------------------------------------------------------
(* What a tree stands for, as the sequence of its tokens: a key and a      *)
(* string with its bytes, a number with its value or its text.             *)

Token(t, s, n) == <<[t |-> t, s |-> s, n |-> n]>>

(* Numbers are compared without the zeros that end a fraction.             *)
Trimmed(s) ==
  IF \E i \in DOMAIN s : s[i] \in {69, 101} THEN s
  ELSE SubSeq(s, 1, CHOOSE i \in DOMAIN s :
         /\ s[i] # 48
         /\ \A j \in i + 1 .. Len(s) : s[j] = 48)

RECURSIVE Tokens(_, _)
Tokens(heap, i) ==
  IF i = 0 THEN << >>
  ELSE LET item == heap[i]
           key  == IF item.key = NoText THEN << >> ELSE Token("key", item.key[1], 0)
           val  == CASE item.ctype \in ContainerTypes ->
                          Token(item.ctype, << >>, 0) \o Tokens(heap, item.child)
                            \o Token("END", << >>, 0)
                     [] item.type = "STRING" -> Token("STRING", item.str[1], 0)
                     [] item.type = "INTEGER" -> Token("INTEGER", << >>, item.int)
                     [] item.type = "FLOAT" /\ item.flt = << >> -> Token("FLOAT", << >>, 0)
                     [] item.type = "FLOAT" /\ item.flt # << >> ->
                          Token("FLOAT", Trimmed(item.flt), 0)
                     [] OTHER -> Token(item.type, << >>, 0)
       IN  key \o val \o Tokens(heap, item.next)

-----------------------------------------------------------------------------
(* The grammar, by recursive descent: what the text from position p on     *)
(* begins with, as the tokens and the position behind them.  It is JSON    *)
(* but for two numbers: "1." is one, "0e1" is not.                         *)

Failed == [ok |-> FALSE, end |-> 0, toks |-> << >>]
Found(end, toks) == [ok |-> TRUE, end |-> end, toks |-> toks]

At(s, p) == IF p <= Len(s) THEN s[p] ELSE 0

RECURSIVE Skip(_, _)
Skip(s, p) == IF At(s, p) \in White \cup {32} THEN Skip(s, p + 1) ELSE p

AllDigits(s) == \A i \in DOMAIN s : s[i] \in Digits

IsIntegerText(s) ==
  \/ s = <<48>>
  \/ s # << >> /\ AllDigits(s) /\ s[1] # 48

IsExponentText(s) ==
  /\ Len(s) > 1 /\ s[1] \in {69, 101}
  /\ LET rest == IF s[2] \in {43, 45} THEN Tail(Tail(s)) ELSE Tail(s)
     IN  rest # << >> /\ AllDigits(rest)

(* int, int frac, int exp, int frac exp                                    *)
IsUnsignedText(s) ==
  \/ IsIntegerText(s)
  \/ \E i \in 1 .. Len(s) :
       LET whole == SubSeq(s, 1, i)
           more  == SubSeq(s, i + 1, Len(s))
       IN  /\ IsIntegerText(whole)
           /\ \/ whole # <<48>> /\ IsExponentText(more)
              \/ /\ more # << >> /\ more[1] = 46
                 /\ \E j \in 1 .. Len(more) :
                      LET frac == SubSeq(more, 2, j)
                          exp  == SubSeq(more, j + 1, Len(more))
                      IN  AllDigits(frac) /\ (exp = << >> \/ IsExponentText(exp))

IsNumberText(s) == IsUnsignedText(s) \/ (s # << >> /\ s[1] = 45 /\ IsUnsignedText(Tail(s)))

NumberToken(t) ==
  CASE AllDigits(t) \/ (t[1] = 45 /\ AllDigits(Tail(t))) ->
         Token("INTEGER", << >>, IntegerOf(t))
    [] OTHER -> Token("FLOAT", IF FloatOf(t) = << >> THEN << >> ELSE Trimmed(t), 0)

LongestNumber(s, p, ends) ==
  IF ends = {} THEN Failed
  ELSE LET q == CHOOSE q \in ends : \A r \in ends : r <= q
       IN  Found(q + 1, NumberToken(SubSeq(s, p, q)))

NumberAt(s, p) ==
  LongestNumber(s, p, {q \in p .. Len(s) : IsNumberText(SubSeq(s, p, q))})

HexDigits == Digits \cup 65 .. 70 \cup 97 .. 102

UnitAt(s, p) ==
  IF p + 5 <= Len(s) /\ s[p] = Backslash /\ s[p + 1] = LetterU
     /\ \A i \in 2 .. 5 : s[p + i] \in HexDigits
  THEN CodeUnit(SubSeq(s, p, p + 5))
  ELSE 0 - 1

(* The rest of a string, and its bytes.                                    *)
RECURSIVE StringAt(_, _, _)
StringAt(s, p, bytes) ==
  LET c == At(s, p)
      u == UnitAt(s, p)
  IN  CASE c = Quote -> Found(p + 1, bytes)
        [] c < 32 \/ c >= 128 -> Failed
        [] c # Quote /\ c \in 32 .. 127 /\ c # Backslash ->
             StringAt(s, p + 1, Append(bytes, c))
        [] u \in HighSurrogates ->
             IF UnitAt(s, p + 6) \in LowSurrogates
             THEN StringAt(s, p + 12, bytes \o Utf8(PairOf(u, UnitAt(s, p + 6))))
             ELSE Failed
        [] u >= 0 /\ u \notin HighSurrogates /\ u \notin LowSurrogates ->
             StringAt(s, p + 6, bytes \o Utf8(u))
        [] c = Backslash /\ At(s, p + 1) \in DOMAIN Unescaped ->
             StringAt(s, p + 2, Append(bytes, Unescaped[At(s, p + 1)]))
        [] OTHER -> Failed

WordAt(s, p, word, t) ==
  IF p + Len(word) - 1 <= Len(s) /\ SubSeq(s, p, p + Len(word) - 1) = word
  THEN Found(p + Len(word), Token(t, << >>, 0))
  ELSE Failed

Quoted(r)         == IF r.ok THEN Found(r.end, Token("STRING", r.toks, 0)) ELSE Failed
Enclosed(r, ctype) ==
  IF r.ok THEN Found(r.end, Token(ctype, << >>, 0) \o r.toks \o Token("END", << >>, 0))
  ELSE Failed
Prefixed(toks, r) == IF r.ok THEN Found(r.end, toks \o r.toks) ELSE Failed

RECURSIVE ValueAt(_, _, _), ItemsAt(_, _, _, _)

(* The name of a member was read; its colon is expected at p.              *)
MemberAt(s, name, p, depth) ==
  IF name.ok /\ At(s, p) = 58
  THEN Prefixed(Token("key", name.toks, 0), ValueAt(s, Skip(s, p + 1), depth))
  ELSE Failed

NamedAt(s, name, depth) == MemberAt(s, name, Skip(s, name.end), depth)

(* A member of an object or an element of an array.                        *)
ItemAt(s, p, ctype, depth) ==
  CASE ctype = "ARR" -> ValueAt(s, p, depth)
    [] ctype = "OBJ" /\ At(s, p) = Quote -> NamedAt(s, StringAt(s, p + 1, << >>), depth)
    [] OTHER -> Failed

(* An item was read; a comma and more, or the bracket, is expected at p.   *)
MoreAt(s, item, p, ctype, depth) ==
  CASE item.ok /\ At(s, p) = 44 ->
         Prefixed(item.toks, ItemsAt(s, Skip(s, p + 1), ctype, depth))
    [] item.ok /\ <<ctype, At(s, p)>> \in {<<"OBJ", 125>>, <<"ARR", 93>>} ->
         Found(p + 1, item.toks)
    [] OTHER -> Failed

RestAt(s, item, ctype, depth) == MoreAt(s, item, Skip(s, item.end), ctype, depth)

(* The items of a container, one or more, with the bracket that ends them. *)
ItemsAt(s, p, ctype, depth) == RestAt(s, ItemAt(s, p, ctype, depth), ctype, depth)

(* All of a container behind its opening bracket.                          *)
ContentsAt(s, p, ctype, depth) ==
  IF <<ctype, At(s, p)>> \in {<<"OBJ", 125>>, <<"ARR", 93>>} THEN Found(p + 1, << >>)
  ELSE ItemsAt(s, p, ctype, depth)

ContainerAt(s, p, depth) ==
  LET ctype == IF At(s, p) = 123 THEN "OBJ" ELSE "ARR"
  IN  Enclosed(ContentsAt(s, Skip(s, p + 1), ctype, depth), ctype)

ValueAt(s, p, depth) ==
  LET c == At(s, p)
  IN  CASE c \in {91, 123} /\ depth > 0 -> ContainerAt(s, p, depth - 1)
        [] c = Quote -> Quoted(StringAt(s, p + 1, << >>))
        [] c = 116 -> WordAt(s, p, <<116, 114, 117, 101>>, "TRUE")
        [] c = 102 -> WordAt(s, p, <<102, 97, 108, 115, 101>>, "FALSE")
        [] c = 110 -> WordAt(s, p, <<110, 117, 108, 108>>, "NULL")
        [] c \in Digits \cup {45} -> NumberAt(s, p)
        [] OTHER -> Failed

(* A whole text: a container, or nothing at all.                           *)
Whole(s, v) == IF v.ok /\ Skip(s, v.end) > Len(s) THEN v ELSE Failed

Grammar(s) ==
  LET p == Skip(s, 1)
  IN  CASE p > Len(s) -> Found(p, << >>)
        [] At(s, p) \in {91, 123} -> Whole(s, ValueAt(s, p, Depth))
        [] OTHER -> Failed

Denotes(derived, toks) == derived.ok /\ derived.toks = toks

-----------------------------------------------------------------------------
(* The parser accepts what the grammar derives and nothing else, and the   *)
(* tree that json_callback() has built then is the one the text denotes:   *)
(* init_json_parser() neither loses nor moves nor invents an item, however *)
(* containers are nested, empty or mixed.  A refused text is the beginning *)
(* of none that the grammar derives.                                       *)
ReadsTheGrammar ==
  /\ verdict = "accepted" => Denotes(Grammar(text), Tokens(cx.items, cx.head))
  /\ verdict = "incomplete" => ~Grammar(text).ok
  /\ verdict = "refused" => \A more \in Completions : ~Grammar(text \o more).ok

(* free_json_item() frees every item once: of the tree that a refused text *)
(* leaves unfinished, of a parsed one and of one built and copied by calls. *)
FreedOnce ==
  verdict # "reading" \/ Building =>
  \A heap \in {cx.items, built} :
    LET freed == free_json_item(heap, IF heap = << >> THEN 0 ELSE 1)
    IN  /\ Len(freed) = Len(heap)
        /\ {freed[i] : i \in DOMAIN freed} = DOMAIN heap

(* What json_to_string() prints of a tree that server code built, a client *)
(* reads as that tree: unless it has an empty container (printed as 0) or  *)
(* a string with an apostrophe (printed with a backslash no JSON knows).   *)
(* And it writes no further than what json_evaluate_string_size() made it  *)
(* allocate, final zero included.                                          *)
Printable(heap) ==
  \A i \in DOMAIN heap :
    /\ heap[i].ctype \in ContainerTypes => heap[i].child # 0
    /\ heap[i].str # NoText => \A j \in DOMAIN heap[i].str[1] : heap[i].str[1][j] # 39

RoundTrip ==
  /\ (built # << >> /\ verdict # "reading" /\ Printable(built)) =>
       /\ verdict = "accepted"
       /\ Tokens(cx.items, cx.head) = Tokens(built, 1)
  /\ Building =>
       Len(json_to_string(built, 1)) <= 2 * json_evaluate_string_size(built, 1)

(* json_lookup() finds the value that a path of keys leads to, and nothing *)
(* when there is none, in a tree with no key twice among the same items.   *)
Siblings(heap, i, j) == heap[i].father = heap[j].father /\ i # j

Under(heap, i, path) ==
  LET last == Len(path)
      Chain(j) == IF last = 1 THEN heap[j].father = i
                  ELSE heap[j].father # 0 /\ heap[heap[j].father].father = i
                       /\ heap[heap[j].father].key # NoText
                       /\ Lower(heap[heap[j].father].key[1]) = Lower(path[1])
  IN  {j \in DOMAIN heap : heap[j].key # NoText
                           /\ Lower(heap[j].key[1]) = Lower(path[last]) /\ Chain(j)}

LookupFinds ==
  (verdict = "accepted" /\ built # << >>
     /\ \A i, j \in DOMAIN cx.items :
          Siblings(cx.items, i, j) /\ cx.items[i].key # NoText /\ cx.items[j].key # NoText
            => Lower(cx.items[i].key[1]) # Lower(cx.items[j].key[1])) =>
    \A path \in {<<k>> : k \in Keys} \cup {<<k, l>> : k, l \in Keys} :
      LET found == json_lookup(cx.items, cx.items[1].child, path)
          there == Under(cx.items, 1, path)
      IN  IF there = {} THEN found = 0
          ELSE \E j \in there :
                 found = IF cx.items[j].child # 0 THEN cx.items[j].child ELSE j
=============================================================================
