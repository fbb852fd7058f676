------------------------------ MODULE JsonTree ------------------------------
(***************************************************************************)
(* What src/src/json.c does with a tree of JSON items once it is built:    *)
(* print it (json_to_string), copy it (json_item_copy), free it            *)
(* (free_json_item) and find an item by its path (json_lookup).            *)
(*                                                                         *)
(* A definition Name_Fault states a plausible slip in the code of Name.    *)
(***************************************************************************)
EXTENDS JsonItem

-----------------------------------------------------------------------------
(* Printing.                                                               *)

(* The bytes that get a backslash, and what follows it.                    *)
EscapeOf ==
  [c \in {8, 9, 10, 12, 13, 34, 39, 92} |->
     CASE c = 8 -> 98 [] c = 9 -> 116 [] c = 10 -> 110
       [] c = 12 -> 102 [] c = 13 -> 114 [] OTHER -> c]

(* A backslash printed as it is.                                           *)
Escaped_NoBackslash(s) ==
  LET out[i \in 0 .. Len(s)] ==
        IF i = 0 THEN << >>
        ELSE IF s[i] \in DOMAIN EscapeOf \ {92}
             THEN out[i - 1] \o <<92, EscapeOf[s[i]]>>
             ELSE Append(out[i - 1], s[i])
  IN  out[Len(s)]

(* escape_json_string()                                                    *)
Escaped(s) ==
  LET out[i \in 0 .. Len(s)] ==
        IF i = 0 THEN << >>
        ELSE IF s[i] \in DOMAIN EscapeOf
             THEN out[i - 1] \o <<92, EscapeOf[s[i]]>>
             ELSE Append(out[i - 1], s[i])
  IN  out[Len(s)]

(* itos(): the digits of a number other than 0.                            *)
RECURSIVE DigitsOf(_)
DigitsOf(n) == IF n = 0 THEN << >> ELSE Append(DigitsOf(n \div 10), 48 + (n % 10))

itos(n) == IF n < 0 THEN <<45>> \o DigitsOf(0 - n) ELSE DigitsOf(n)

(* snprintf("%f") of a number written with at most six decimals: six of    *)
(* them, and no more than sixteen bytes.                                   *)
FloatText(s) ==
  LET point  == CHOOSE i \in DOMAIN s : s[i] = 46
      padded == s \o [i \in 1 .. 6 - (Len(s) - point) |-> 48]
  IN  SubSeq(padded, 1, IF Len(padded) > 16 THEN 16 ELSE Len(padded))

Opening(ctype) == IF ctype = "OBJ" THEN <<123>> ELSE IF ctype = "ARR" THEN <<91>> ELSE << >>
Closing(ctype) == IF ctype = "OBJ" THEN <<125>> ELSE IF ctype = "ARR" THEN <<93>> ELSE << >>

(* The value of an item without children.  A container without children    *)
(* has none and is printed as 0.                                           *)
ValueText(item) ==
  CASE item.str # NoText -> <<34>> \o Escaped(item.str[1]) \o <<34>>
    [] item.str = NoText /\ item.int # 0 -> itos(item.int)
    [] item.str = NoText /\ item.int = 0 /\ item.flt # << >> -> FloatText(item.flt)
    [] OTHER ->
         CASE item.type = "TRUE" -> <<116, 114, 117, 101>>
           [] item.type = "FALSE" -> <<102, 97, 108, 115, 101>>
           [] item.type = "NULL" -> <<110, 117, 108, 108>>
           [] item.type \notin {"TRUE", "FALSE", "NULL"} /\ item.child = 0 -> <<48>>
           [] OTHER -> << >>

KeyText(item) ==
  IF item.key = NoText THEN << >> ELSE <<34>> \o item.key[1] \o <<34, 58>>

(* json_to_string() of the list that begins with item i.                   *)
RECURSIVE json_to_string(_, _)
json_to_string(heap, i) ==
  IF i = 0 THEN << >>
  ELSE LET item  == heap[i]
           inner == IF item.child = 0 THEN << >>
                    ELSE Opening(item.ctype) \o json_to_string(heap, item.child)
           after == IF item.father = 0 THEN << >>
                    ELSE IF item.next # 0 THEN <<44>>
                    ELSE Closing(heap[item.father].ctype)
       IN  KeyText(item) \o ValueText(item) \o inner \o after
             \o json_to_string(heap, item.next)

StringSize(s) == Len(s) + 3

KeySize(item) == IF item.key = NoText THEN 0 ELSE Len(item.key[1]) + 3

(* json_evaluate_string_size(): half of what json_to_string() allocates.   *)
RECURSIVE json_evaluate_string_size(_, _)
json_evaluate_string_size(heap, i) ==
  IF i = 0 THEN 2
  ELSE LET item == heap[i]
       IN  KeySize(item)
             + (IF item.str # NoText THEN StringSize(item.str[1])
                ELSE IF item.child = 0 THEN 16 ELSE 0)
             + (IF item.child # 0 THEN json_evaluate_string_size(heap, item.child) ELSE 0)
             + json_evaluate_string_size(heap, item.next)

-----------------------------------------------------------------------------
(* Copying, freeing, finding.                                              *)

(* json_item_copy() leaving the tail pointer of the father alone.          *)
TailSet_Left(heap, father, n) == heap

TailSet(heap, father, n) == IF father = 0 THEN heap ELSE [heap EXCEPT ![father].head = n]

(* json_item_copy() of the list that begins with item i of src, appended   *)
(* to dst behind item prev.                                                *)
RECURSIVE Copied(_, _, _, _, _)
Copied(src, i, dst, father, prev) ==
  IF i = 0 THEN dst
  ELSE LET n     == Len(dst) + 1
           item  == src[i]
           new   == [init_json_item EXCEPT
                       !.father = father, !.type = item.type, !.ctype = item.ctype,
                       !.key = item.key, !.str = item.str,
                       !.int = IF item.str = NoText THEN item.int ELSE 0,
                       !.flt = IF item.str = NoText /\ item.int = 0 THEN item.flt ELSE << >>]
           grown == IF prev = 0 THEN Append(dst, new)
                    ELSE [Append(dst, new) EXCEPT ![prev].next = n]
           full  == IF item.child = 0 THEN grown
                    ELSE [Copied(src, item.child, grown, n, 0) EXCEPT ![n].child = n + 1]
       IN  Copied(src, item.next, TailSet(full, father, n), father, n)

json_item_copy(src) == Copied(src, 1, << >>, 0, 0)

(* free_json_item(): the items in the order they are freed.                *)
RECURSIVE free_json_item(_, _)
free_json_item(heap, i) ==
  IF i = 0 THEN << >>
  ELSE free_json_item(heap, heap[i].child) \o <<i>> \o free_json_item(heap, heap[i].next)

Lower(s) == [i \in DOMAIN s |-> IF s[i] \in 65 .. 90 THEN s[i] + 32 ELSE s[i]]

(* The item itself, also when it has children.                             *)
Hit_Item(heap, i) == i

Hit(heap, i) == IF heap[i].child # 0 THEN heap[i].child ELSE i

(* json_lookup() from item i; the path is the sequence of the names that   *)
(* the dots separate.                                                      *)
RECURSIVE json_lookup(_, _, _)
json_lookup(heap, i, path) ==
  IF i = 0 THEN 0
  ELSE LET item == heap[i]
           hit  == item.key # NoText /\ Lower(item.key[1]) = Lower(path[1])
       IN  IF hit /\ Len(path) = 1 THEN Hit(heap, i)
           ELSE IF hit THEN json_lookup(heap, item.child, Tail(path))
           ELSE json_lookup(heap, item.next, path)
=============================================================================
