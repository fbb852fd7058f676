---------------------------- MODULE MCHttpParser ----------------------------
(* Small instances of HttpParser.                                          *)
EXTENDS HttpParser, TLC

Line(s) == <<s, LineEnd>>

(* Up to two header lines, in any order; one may hold a zero byte.          *)
HeaderTexts ==
  {<< >>} \cup {Line(a) : a \in HeaderLines \cup {Zero}}
          \cup {Line(a) \o Line(b) : a, b \in HeaderLines}

(* Bodies of up to three bytes: shorter than, as long as, and longer than  *)
(* announced, with at most one zero byte, at any place.                     *)
Bodies ==
  {[i \in 1 .. b |-> IF i = z THEN Zero ELSE Byte] : b \in 0 .. 3, z \in 0 .. 3}

AllRequests(R, H) == {Line(r) \o h \o <<LineEnd>> \o b : r \in R, h \in H, b \in Bodies}

MCStreams == AllRequests(RequestLines, HeaderTexts)
=============================================================================
