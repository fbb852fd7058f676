------------------------------- MODULE Extend -------------------------------
(***************************************************************************)
(* The lists of named properties that users, channels, pipes and the       *)
(* server carry: src/src/extend.c.                                         *)
(*                                                                         *)
(* A list is a sequence, newest first.  Values are identities: a string or *)
(* a JSON tree is the allocation that holds it, a pointer whatever it      *)
(* points to.  The operations are functions of the list; Dropped is what   *)
(* a deletion frees with the cell.                                          *)
(***************************************************************************)
EXTENDS Naturals, Sequences, SequencesExt

CONSTANT
  LongKeys  \* the keys of more than EXTEND_KEY_LENGTH characters

EXTEND_STR     == "STR"
EXTEND_JSON    == "JSON"
EXTEND_POINTER == "POINTER"
EXTEND_TYPE    == {EXTEND_STR, EXTEND_JSON, EXTEND_POINTER}

(* The walk for a key ends at the first cell that has it, if there is one. *)
Found(list, key) ==
  {i \in 1 .. Len(list) : /\ list[i].key = key
                          /\ \A j \in 1 .. i - 1 : list[j].key # key}

get_property(list, key) == {list[i] : i \in Found(list, key)}
get_property_val(list, key) == (CHOOSE e \in get_property(list, key) : TRUE).val

(* The cell goes, and the walk ends there.                                 *)
del_property(list, key) ==
  IF Found(list, key) = {} THEN list
  ELSE RemoveAt(list, CHOOSE i \in Found(list, key) : TRUE)

(* A string and a JSON tree are freed with their cell, a pointer is not.   *)
OwnedAt(list, at) == {list[i].val : i \in {j \in at : list[j].type # EXTEND_POINTER}}
Owned(list) == OwnedAt(list, 1 .. Len(list))
Dropped(list, key) == OwnedAt(list, Found(list, key))

(* add_property(): a long key changes nothing; an older property of the    *)
(* same key goes first; a pointer is private whatever the caller says.     *)
Property(key, type, val, public) ==
  [key |-> key, type |-> type, val |-> val,
   public |-> public /\ type # EXTEND_POINTER]

add_property_KeepsOld(list, key, type, val, public) ==
  IF key \in LongKeys THEN list
  ELSE <<Property(key, type, val, public)>> \o list
add_property(list, key, type, val, public) ==
  IF key \in LongKeys THEN list
  ELSE <<Property(key, type, val, public)>> \o del_property(list, key)

(* clear_properties(): what goes with the list.                             *)
clear_properties(list) == Owned(list)

(* What getProperty() returns: a string or a tree, but no pointer.         *)
Value(list, key) == OwnedAt(list, Found(list, key))

(* get_json_object_user(), _channel() and _pipe_custom(): the properties   *)
(* that are shown to clients, key and value.                                *)
Shown(list) == {<<list[i].key, list[i].val>> : i \in {j \in 1 .. Len(list) :
                                                        list[j].public}}

=============================================================================
