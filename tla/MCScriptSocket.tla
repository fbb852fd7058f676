--------------------------- MODULE MCScriptSocket ---------------------------
(* A small instance of ScriptSocket: two script objects with letters of    *)
(* their own.                                                              *)
EXTENDS ScriptSocket

MCSays ==
  <<{<< << >>, FALSE >>, << <<"a">>, FALSE >>, << <<"a", "b">>, FALSE >>, << <<"a", "b">>, TRUE >>},
    {<< <<"c">>, FALSE >>}>>

MCTraffic == <<3, 1>>

MCCalls == MCSays[1] \cup MCSays[2]
=============================================================================
