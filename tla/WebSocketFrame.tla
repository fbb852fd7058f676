--------------------------- MODULE WebSocketFrame ---------------------------
(***************************************************************************)
(* The frame parsers of the two IETF WebSocket drafts in src/src/http.c    *)
(* (process_websocket_frame_06 and process_websocket_frame), as            *)
(* process_websocket() calls them after every read().                      *)
(*                                                                         *)
(* Frames arrive in pieces of any size, several in one piece or one in     *)
(* several.  The parser works on the buffer byte by byte, undoes the mask  *)
(* in place and keeps its place between calls; the buffer is emptied when  *)
(* a frame ends where the data does.                                       *)
(*                                                                         *)
(* Draft 06 masks the whole frame, with the key in front; draft 07 masks   *)
(* the payload, with the key behind the length.  A definition Name_Fault   *)
(* states a plausible slip in the code of Name; no action uses it.         *)
(***************************************************************************)
EXTENDS Integers, Sequences, SequencesExt, Bitwise

CONSTANTS
  Versions,   \* the drafts that peers speak: a subset of {6, 7}
  Traffic,    \* what peers send: sequences of frames
  MaxBuffer,  \* more than this in the buffer ends the connection (502400)
  Huge        \* the value of extended_length when 0 is decremented (2^64 - 1)

ASSUME VersionAssumption == Versions \subseteq {6, 7}
ASSUME BufferAssumption == MaxBuffer \in Nat /\ Huge \in Nat

VARIABLES
  version, \* the draft that checkrecv() found in the handshake
  frames,  \* what the peer sends
  wire,    \* the bytes of it
  read,    \* number of bytes of it that were read
  ws,      \* websocket_state, and the buffer
  out,     \* what the parser handed to parser->onready() or answered
  conn     \* "open", or "shut" by the server

vars == <<version, frames, wire, read, ws, out, conn>>

-----------------------------------------------------------------------------
(* The peer's side: a frame on the wire.  Its length takes one byte, or    *)
(* three, or nine (form 0, 126, 127).                                      *)
Kind06 == [text |-> 4, close |-> 1, ping |-> 2, pong |-> 3]
Kind07 == [text |-> 1, close |-> 8, ping |-> 9, pong |-> 10]
Opcode(k) == IF version = 6 THEN Kind06[k] ELSE Kind07[k]

LengthBytes(f) ==
  LET n == Len(f.payload)
      m == IF version = 6 THEN 0 ELSE 128
  IN  CASE f.form = 0   -> <<m + n>>
        [] f.form = 126 -> <<m + 126, 0, n>>
        [] f.form = 127 -> <<m + 127, 0, 0, 0, 0, 0, 0, 0, n>>

Masked(s, key) == [i \in 1 .. Len(s) |-> s[i] ^^ key[((i - 1) % 4) + 1]]

Encode(f) ==
  LET head == <<128 + Opcode(f.kind)>> \o LengthBytes(f)
  IN  IF version = 6 THEN f.key \o Masked(head \o f.payload, f.key)
                     ELSE head \o f.key \o Masked(f.payload, f.key)

Wire(fs) == FlattenSeq([i \in 1 .. Len(fs) |-> Encode(fs[i])])

-----------------------------------------------------------------------------
(* The parser, one byte: w is the state, b the byte at w.offset.            *)
FirstStep == IF version = 6 THEN "KEY" ELSE "START"
AfterLength == IF version = 6 THEN "DATA" ELSE "KEY"
HeadSkip == IF version = 6 THEN 4 ELSE 0

(* The mask over the byte at hand.                                          *)
Unmasked(w, b) ==
  CASE version = 6 /\ w.step # "KEY"  -> b ^^ w.key[((w.frame_pos - 4) % 4) + 1]
    [] version = 7 /\ w.step = "DATA" -> b ^^ w.key[(w.data_inkey % 4) + 1]
    [] OTHER                          -> b

Forward(w) == [w EXCEPT !.frame_pos = @ + 1, !.offset = @ + 1]
Return(w)  == [w EXCEPT !.return = TRUE]

Key(w, b) ==
  LET full == IF version = 6 THEN w.frame_pos = 3 ELSE w.key_pos = 3
      at   == IF version = 6 THEN w.frame_pos + 1 ELSE w.key_pos + 1
  IN  Forward([w EXCEPT
        !.key[at] = b,
        !.key_pos = IF version = 6 THEN @ ELSE @ + 1,
        !.data_inkey = IF full THEN 0 ELSE @,
        !.step = IF ~full THEN @ ELSE IF version = 6 THEN "START" ELSE "DATA"])

Start(w, b) == Forward([w EXCEPT !.start = b, !.step = "LENGTH"])

(* Draft 07 stops at a frame that is not masked.                            *)
Length(w, b) ==
  IF version = 7 /\ b < 128 THEN Return(w)
  ELSE CASE b % 128 = 126 -> Forward([w EXCEPT !.step = "SHORT_LENGTH"])
         [] b % 128 = 127 -> Forward([w EXCEPT !.step = "EXTENDED_LENGTH"])
         [] OTHER -> Forward([w EXCEPT !.length = b % 128, !.step = AfterLength])

(* The bytes of a longer length are told apart by their place in the frame; *)
(* of eight, the last four count.                                            *)
ShortLength(w, b) ==
  LET l == Append(w.digits, b)
  IN  IF w.frame_pos - HeadSkip # 3 THEN Forward([w EXCEPT !.digits = l])
      ELSE Forward([w EXCEPT !.digits = << >>, !.length = l[1] * 256 + l[2],
                             !.step = AfterLength])

ExtendedLength(w, b) ==
  LET l == Append(w.digits, b)
  IN  IF w.frame_pos - HeadSkip # 9 THEN Forward([w EXCEPT !.digits = l])
      ELSE Forward([w EXCEPT !.digits = << >>,
                             !.length = l[5] * 16777216 + l[6] * 65536 + l[7] * 256 + l[8],
                             !.step = AfterLength])

(* The end of a frame: the state for the next one, and what the frame asks *)
(* for.  A Close ends the loop, as does a ping that is too long; the       *)
(* buffer is emptied when the frame ends where the data does.               *)
NextFrame_KeepsKeyPos(w) ==
  [w EXCEPT !.step = FirstStep, !.frame_pos = -1, !.length = 0, !.data_pos = 0]
NextFrame(w) ==
  [w EXCEPT !.step = FirstStep, !.frame_pos = -1, !.length = 0, !.data_pos = 0,
            !.key_pos = 0]

Emptied(w) ==
  IF w.offset + 1 = Len(w.buffer)
  THEN Return([w EXCEPT !.offset = 0, !.buffer = << >>, !.frame_pos = 0, !.key_pos = 0])
  ELSE Forward(w)

EndFrame(w) ==
  LET data  == SubSeq(w.buffer, w.data_pos + 1, w.offset + 1)
      says(t, p, v) == [v EXCEPT !.out = Append(@, [kind |-> t, payload |-> p])]
      op    == w.start % 16
      n     == NextFrame(w)
  IN  CASE op = Opcode("close") -> Return(says("close", << >>, n))
        [] op = Opcode("ping") /\ Len(data) > 125 ->
             Return(says("close", << >>, [n EXCEPT !.burn = TRUE]))
        [] op = Opcode("ping") /\ Len(data) <= 125 -> Emptied(says("pong", data, n))
        [] op = Opcode("pong") -> Emptied(n)
        [] OTHER -> Emptied(says("text", data, n))

Data(w) ==
  LET v == [w EXCEPT !.data_pos = IF @ = 0 THEN w.offset ELSE @,
                     !.data_inkey = @ + 1,
                     !.length = IF @ = 0 THEN Huge ELSE @ - 1]
  IN  IF v.length = 0 THEN EndFrame(v) ELSE Forward(v)

(* One turn of the loop.                                                    *)
Turn(w) ==
  LET b == Unmasked(w, w.buffer[w.offset + 1])
      v == [w EXCEPT !.buffer[w.offset + 1] = b]
  IN  CASE w.step = "KEY"             -> Key(v, b)
        [] w.step = "START"           -> Start(v, b)
        [] w.step = "LENGTH"          -> Length(v, b)
        [] w.step = "SHORT_LENGTH"    -> ShortLength(v, b)
        [] w.step = "EXTENDED_LENGTH" -> ExtendedLength(v, b)
        [] w.step = "DATA"            -> Data(v)

process_websocket_frame(w) ==
  FoldLeft(LAMBDA v, i : IF v.return THEN v ELSE Turn(v), w,
           [i \in 1 .. Len(w.buffer) - w.offset |-> i])

-----------------------------------------------------------------------------
(* parser_init_stream(), and the first step that checkrecv() sets.          *)
Init ==
  /\ version \in Versions
  /\ frames \in Traffic
  /\ wire = Wire(frames)
  /\ read = 0
  /\ ws = [step |-> FirstStep, frame_pos |-> 0, key |-> <<0, 0, 0, 0>>, key_pos |-> 0,
           data_inkey |-> 0, data_pos |-> 0, start |-> 0, length |-> 0,
           digits |-> << >>, offset |-> 0, buffer |-> << >>]
  /\ out = << >>
  /\ conn = "open"

(* read() of k bytes, and process_websocket().                              *)
Read(k) ==
  LET given == [ws EXCEPT !.buffer = @ \o SubSeq(wire, read + 1, read + k)]
      done  == process_websocket_frame(
                 given @@ [return |-> FALSE, burn |-> FALSE, out |-> << >>])
  IN  /\ conn = "open"
      /\ read' = read + k
      /\ IF Len(given.buffer) > MaxBuffer
         THEN ws' = given /\ conn' = "shut" /\ UNCHANGED out
         ELSE /\ ws' = [f \in DOMAIN ws |-> done[f]]
              /\ conn' = IF done.burn THEN "shut" ELSE "open"
              /\ out' = out \o done.out
      /\ UNCHANGED <<version, frames, wire>>

Next == \E k \in 1 .. Len(wire) - read : Read(k)

Spec == Init /\ [][Next]_vars

-----------------------------------------------------------------------------
(* Properties.                                                             *)

(* The frames that have been read to their last byte.                       *)
Overhead(f) == 6 + (CASE f.form = 0 -> 0 [] f.form = 126 -> 2 [] f.form = 127 -> 8)
End[n \in 0 .. Len(frames)] ==
  IF n = 0 THEN 0 ELSE End[n - 1] + Overhead(frames[n]) + Len(frames[n].payload)
Complete == {n \in 0 .. Len(frames) : End[n] <= read}
Whole == SubSeq(frames, 1, CHOOSE n \in Complete : n + 1 \notin Complete)

(* What the server does about a frame: text is handed on, a ping comes     *)
(* back as a pong, a Close as a Close, a pong is dropped.                   *)
Effect(f) ==
  CASE f.kind = "text"  -> <<[kind |-> "text", payload |-> f.payload]>>
    [] f.kind = "ping"  -> <<[kind |-> "pong", payload |-> f.payload]>>
    [] f.kind = "close" -> <<[kind |-> "close", payload |-> << >>]>>
    [] f.kind = "pong"  -> << >>

(* However the frames are cut into pieces, each one is acted upon once, in *)
(* order, with its own payload unmasked by its own key, as soon as its     *)
(* last byte has been read (process_websocket_frame, ..._06).               *)
FramesDecoded ==
  conn = "open" =>
    out = FlattenSeq([i \in 1 .. Len(Whole) |-> Effect(Whole[i])])

=============================================================================
