----------------------------- MODULE HashTable -----------------------------
(***************************************************************************)
(* The hash tables of src/src/hash.c, which the server finds its sessions, *)
(* channels and pipes with.  Keys are compared without regard to case.     *)
(*                                                                         *)
(* A table is a record: item[c] is the cell c (its key, the address it     *)
(* holds and its two links in the list of all cells), table[b] the chain   *)
(* of the cells of bucket b, as the sequence its "next" links spell, and   *)
(* first the head of the list of all cells.  The operations are functions  *)
(* from tables to tables, used by the module that owns the table.          *)
(***************************************************************************)
EXTENDS Naturals, FiniteSets, Sequences, SequencesExt, TLC

CONSTANTS
  Lower,    \* what tolower() makes of every key
  Bucket,   \* hach_string(): the bucket of a key in lower case
  NULL

ASSUME HashAssumption ==
  /\ \A k \in DOMAIN Lower : /\ Lower[k] \in DOMAIN Lower \cap DOMAIN Bucket
                              /\ Lower[Lower[k]] = Lower[k]
  /\ NULL \notin Nat

Buckets == {Bucket[k] : k \in DOMAIN Bucket}
SameKey(k1, k2) == Lower[k1] = Lower[k2]
hach_string(k) == Bucket[Lower[k]]

hashtbl_init ==
  [item |-> << >>, table |-> [b \in Buckets |-> << >>], first |-> NULL]

Cells(h) == DOMAIN h.item

(* Where in its chain a walk for k ends: at the first cell with the key.   *)
Chain(h, k) == h.table[hach_string(k)]
Hits(h, k) ==
  LET chain == Chain(h, k)
      has(i) == SameKey(h.item[chain[i]].key, k)
  IN  {i \in 1 .. Len(chain) : has(i) /\ \A j \in 1 .. i - 1 : ~has(j)}
Place(h, k) == CHOOSE i \in Hits(h, k) : TRUE
Hit(h, k)   == Chain(h, k)[Place(h, k)]

hashtbl_seek(h, k) ==
  LET hits == Hits(h, k)
  IN  IF hits = {} THEN NULL
      ELSE h.item[Chain(h, k)[CHOOSE i \in hits : TRUE]].addrs

-----------------------------------------------------------------------------
(* hashtbl_append(): a key that is there already gets the new address; a   *)
(* new cell goes to the front of its chain and of the list.                *)
Fresh(h) == CHOOSE c \in 1 .. Cardinality(Cells(h)) + 1 : c \notin Cells(h)

WithCell(h, k, a) ==
  LET c   == Fresh(h)
      new == [key |-> k, addrs |-> a, lnext |-> h.first, lprev |-> NULL]
  IN  [item  |-> [d \in Cells(h) \cup {c} |->
                    IF d = c THEN new
                    ELSE [h.item[d] EXCEPT !.lprev = IF d = h.first THEN c ELSE @]],
       table |-> [h.table EXCEPT ![hach_string(k)] = <<c>> \o @],
       first |-> c]

hashtbl_append(h, k, a) ==
  IF Hits(h, k) = {} THEN WithCell(h, k, a)
  ELSE [h EXCEPT !.item[Hit(h, k)].addrs = a]

-----------------------------------------------------------------------------
(* hashtbl_erase(): the cell leaves its chain, its neighbours in the list  *)
(* are joined, and it is freed.                                             *)
Relinked_OneWay(h, c) ==
  LET i == h.item[c]
  IN  [d \in Cells(h) \ {c} |->
         [h.item[d] EXCEPT !.lnext = IF d = i.lprev THEN i.lnext ELSE @]]
Relinked(h, c) ==
  LET i == h.item[c]
  IN  [d \in Cells(h) \ {c} |->
         [h.item[d] EXCEPT !.lnext = IF d = i.lprev THEN i.lnext ELSE @,
                           !.lprev = IF d = i.lnext THEN i.lprev ELSE @]]

WithoutCell(h, k, c) ==
  [item  |-> Relinked(h, c),
   table |-> [h.table EXCEPT ![hach_string(k)] = RemoveAt(@, Place(h, k))],
   first |-> IF h.item[c].lprev = NULL THEN h.item[c].lnext ELSE h.first]

hashtbl_erase(h, k) ==
  IF Hits(h, k) = {} THEN h ELSE WithoutCell(h, k, Hit(h, k))

-----------------------------------------------------------------------------
(* What a table promises: it is the finite map m from keys in lower case   *)
(* to addresses, and the list of all cells visits each cell once.          *)

Walk(h) ==
  LET at[n \in 0 .. Cardinality(Cells(h))] ==
        IF n = 0 THEN h.first
        ELSE LET c == at[n - 1] IN IF c = NULL THEN NULL ELSE h.item[c].lnext
  IN  at

ListSound(h) ==
  LET at == Walk(h)
      n  == Cardinality(Cells(h))
  IN  /\ {at[i] : i \in 0 .. n} \ {NULL} = Cells(h)
      /\ at[n] = NULL
      /\ \A i \in 0 .. n - 1 :
           h.item[at[i]].lprev = IF i = 0 THEN NULL ELSE at[i - 1]

IsMap(h, m) ==
  /\ \A k \in DOMAIN Lower :
       hashtbl_seek(h, k) = IF Lower[k] \in DOMAIN m THEN m[Lower[k]] ELSE NULL
  /\ Cardinality(Cells(h)) = Cardinality(DOMAIN m)
  /\ ListSound(h)

=============================================================================
