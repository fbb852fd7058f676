------------------------------ MODULE JsonItem ------------------------------
(***************************************************************************)
(* The items of a JSON document (json_item in src/src/json.h) and the two  *)
(* ways src/src/json.c links them into a tree: the json_set_property_*     *)
(* calls of code that builds a document, and json_callback(), which builds *)
(* one while the parser reads it.                                          *)
(*                                                                         *)
(* A heap is the sequence of the items allocated so far and a pointer an   *)
(* index into it, 0 for NULL.  A text that may be missing (key.val,        *)
(* jval.vu.str.value) is a sequence of at most one sequence of bytes.      *)
(***************************************************************************)
EXTENDS Integers, Sequences

NoText  == << >>
Text(s) == <<s>>

ContainerTypes == {"OBJ", "ARR"}

(* init_json_item().  flt is the text of a number with a point or an       *)
(* exponent, empty for 0.0.                                                *)
init_json_item ==
  [father |-> 0, child |-> 0, head |-> 0, ctype |-> "NULL", next |-> 0,
   key |-> NoText, str |-> NoText, int |-> 0, flt |-> << >>, type |-> "NONE"]

json_new_object == [init_json_item EXCEPT !.ctype = "OBJ"]
json_new_array  == [init_json_item EXCEPT !.ctype = "ARR"]

-----------------------------------------------------------------------------
(* Building by calls.  What the calls differ in is the item they make; all *)
(* of them then hang it behind the last child of the object.               *)

IntItem(n)  == [init_json_item EXCEPT !.int = n, !.type = "INTEGER"]
FloatItem(s) == [init_json_item EXCEPT !.flt = s, !.type = "FLOAT"]
BoolItem(b) == [init_json_item EXCEPT !.type = IF b THEN "TRUE" ELSE "FALSE"]
NullItem    == [init_json_item EXCEPT !.type = "NULL"]
StrItem(s)  == [init_json_item EXCEPT !.str = Text(s), !.type = "STRING"]

(* json_set_property_objN() forgetting to move the tail pointer.           *)
Attach_TailKept(heap, obj, key, v) ==
  LET linked == [heap EXCEPT ![v].father = obj, ![v].key = key]
  IN  IF linked[obj].child = 0
      THEN [linked EXCEPT ![obj].child = v, ![obj].head = v]
      ELSE [linked EXCEPT ![linked[obj].head].next = v]

(* Item v of the heap becomes the last child of obj.                       *)
Attach(heap, obj, key, v) ==
  LET linked == [heap EXCEPT ![v].father = obj, ![v].key = key]
      hung   == IF linked[obj].child = 0
                THEN [linked EXCEPT ![obj].child = v]
                ELSE [linked EXCEPT ![linked[obj].head].next = v]
  IN  [hung EXCEPT ![obj].head = v]

(* json_set_property_intN() and the like: a new item, hung at once.  An    *)
(* element of an array has no key.                                         *)
SetProperty(heap, obj, key, item) ==
  Attach(Append(heap, item), obj, key, Len(heap) + 1)

-----------------------------------------------------------------------------
(* Building while parsing.  A context is json_context together with the    *)
(* heap.                                                                   *)

NewContext ==
  [items |-> << >>, head |-> 0, cur |-> 0, startDepth |-> FALSE, keyUnder |-> FALSE]

(* The new item becomes the first child of the current one when a          *)
(* container has just begun, else its next sibling.                        *)
Placed(cx, item) ==
  LET n     == Len(cx.items) + 1
      up    == IF cx.cur = 0 THEN 0
               ELSE IF cx.startDepth THEN cx.cur ELSE cx.items[cx.cur].father
      grown == Append(cx.items, [item EXCEPT !.father = up])
      tied  == IF cx.cur = 0 THEN grown
               ELSE IF cx.startDepth THEN [grown EXCEPT ![cx.cur].child = n]
               ELSE [grown EXCEPT ![cx.cur].next = n]
  IN  [cx EXCEPT !.items = tied, !.cur = n, !.head = IF @ = 0 THEN n ELSE @]

(* JSON_T_OBJECT_BEGIN, JSON_T_ARRAY_BEGIN                                 *)
OnBegin(cx, ctype) ==
  LET at == IF cx.keyUnder THEN cx ELSE Placed(cx, init_json_item)
  IN  [at EXCEPT !.items[at.cur].ctype = ctype,
                 !.startDepth = TRUE, !.keyUnder = FALSE]

(* Going back to the father even from a container without children.        *)
OnEnd_EmptyToo(cx) ==
  [cx EXCEPT !.cur = IF cx.items[cx.cur].father # 0 THEN cx.items[cx.cur].father ELSE @,
             !.startDepth = FALSE, !.keyUnder = FALSE]

(* JSON_T_OBJECT_END, JSON_T_ARRAY_END: back to the father, unless the     *)
(* container that ends got no child and is the current item itself.        *)
OnEnd(cx) ==
  LET father == cx.items[cx.cur].father
  IN  [cx EXCEPT !.cur = IF father # 0 /\ ~cx.startDepth THEN father ELSE @,
                 !.startDepth = FALSE, !.keyUnder = FALSE]

(* JSON_T_KEY                                                              *)
OnKey(cx, s) ==
  [Placed(cx, [init_json_item EXCEPT !.key = Text(s)]) EXCEPT
     !.startDepth = FALSE, !.keyUnder = TRUE]

(* The other types: the value of the key just read, or an item of its own. *)
(* v has the fields of jval: str, int, flt.                                *)
OnValue(cx, type, v) ==
  LET at == IF cx.keyUnder THEN cx
            ELSE [Placed(cx, init_json_item) EXCEPT !.startDepth = FALSE]
  IN  [at EXCEPT !.items[at.cur].type = type,
                 !.items[at.cur].str = v.str,
                 !.items[at.cur].int = v.int,
                 !.items[at.cur].flt = v.flt,
                 !.keyUnder = FALSE]
=============================================================================
