------------------------------- MODULE MCJson -------------------------------
(* Small instances of Json.                                                 *)
EXTENDS Json

(* { } [ ] : , " and 1: how containers are nested.                          *)
Structure == [prefix |-> << >>, max |-> 7,
              bytes |-> {123, 125, 91, 93, 58, 44, 34, 49}]

(* The same with blanks, in shorter texts.                                  *)
Spaced == [prefix |-> << >>, max |-> 5, bytes |-> Structure.bytes \cup {32}]

(* - 0 1 . e + , ] and a line end, in an array: numbers.                    *)
Numbers == [prefix |-> <<91>>, max |-> 6,
            bytes |-> {45, 48, 49, 46, 101, 43, 44, 93, 10}]

(* t r u e f a l s n , ] : the words, in an array.                          *)
Words == [prefix |-> <<91>>, max |-> 7,
          bytes |-> {116, 114, 117, 101, 102, 97, 108, 115, 110, 44, 93}]

(* A key; then escapes, control bytes and bytes beyond ASCII in a string.   *)
Strings == [prefix |-> <<123, 34>>, max |-> 6,
            bytes |-> {92, 34, 110, 47, 39, 1, 9, 200, 58, 125}]

(* \u and four of 0 7 8 c D, so that every length of UTF-8 occurs.          *)
CodePoints == [prefix |-> <<91, 34, 92, 117>>, max |-> 9,
               bytes |-> {48, 55, 56, 99, 68, 34, 93}]

(* \uD8.. and what may follow it.                                           *)
Surrogates == [prefix |-> <<91, 34, 92, 117, 68, 56, 48, 49>>, max |-> 16,
               bytes |-> {92, 117, 68, 99, 48, 34, 93}]

MCOpenings == {Structure, Spaced, Numbers, Words, Strings, CodePoints, Surrogates}
(* These, and what json_to_string() prints.                                 *)
MCBytes == UNION {o.bytes : o \in MCOpenings} \cup {65, 98, 50, 53, 120}

(* nothing ] } 1] 1} "] :1} "a":1} ":1} 0"] e] l] ue] lse] *)
MCCompletions ==
  {<< >>, <<93>>, <<125>>, <<49, 93>>, <<49, 125>>, <<34, 93>>, <<58, 49, 125>>,
   <<34, 97, 34, 58, 49, 125>>, <<34, 58, 49, 125>>, <<48, 48, 34, 93>>, <<101, 93>>,
   <<108, 93>>, <<108, 108, 93>>, <<117, 101, 93>>, <<115, 101, 93>>}

MCKeys == {<<97>>, <<65, 98>>}
MCLeaves ==
  {IntItem(0), IntItem(0 - 12), FloatItem(<<49, 46, 53>>), BoolItem(TRUE),
   StrItem(<<34, 92, 10>>)}
=============================================================================
