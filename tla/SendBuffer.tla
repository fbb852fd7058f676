----------------------------- MODULE SendBuffer -----------------------------
(***************************************************************************)
(* The output side of one socket: sendbin(), sendqueue(), safe_shutdown()  *)
(* and the EVENT_WRITE branch of sockroutine() in src/src/sock.c.          *)
(*                                                                         *)
(* sendbin() hands bytes to the kernel until it refuses; the rest goes     *)
(* into a buffer that sendqueue() drains when the socket is writable, and  *)
(* until it has, later bytes must queue behind it.  A shutdown asked for   *)
(* in the meantime waits for the buffer.                                   *)
(*                                                                         *)
(* A definition Name_Fault states a plausible slip in the code of Name; no *)
(* action uses it.                                                         *)
(***************************************************************************)
EXTENDS Naturals, Sequences

CONSTANTS
  Bytes,     \* what is sent
  Calls,     \* the calls of sendbin(): a string and burn_after_writing
  Block,     \* allocation unit of the buffer (2048 in the code)
  MaxSent    \* bound on the number of bytes sent

ASSUME CallAssumption == Calls \subseteq Seq(Bytes) \X BOOLEAN
ASSUME BlockAssumption == Block \in Nat \ {0}
ASSUME MaxSentAssumption == MaxSent \in Nat

VARIABLES
  sent,   \* history: the bytes handed to sendbin() while the socket was open
  wire,   \* history: the bytes the kernel took
  buf,    \* bufout.buf, empty when it is NULL
  alloc,  \* bufout.allocsize
  burn,   \* burn_after_writing of the socket
  conn    \* "open", "shut" (in good order) or "broken" (by the peer, or cut off)

vars == <<sent, wire, buf, alloc, burn, conn>>

TypeOK ==
  /\ sent \in Seq(Bytes)
  /\ wire \in Seq(Bytes)
  /\ buf \in Seq(Bytes)
  /\ alloc \in Nat
  /\ burn \in BOOLEAN
  /\ conn \in {"open", "shut", "broken"}

Init ==
  /\ sent = << >>
  /\ wire = << >>
  /\ buf = << >>
  /\ alloc = 0
  /\ burn = FALSE
  /\ conn = "open"

-----------------------------------------------------------------------------
(* The first k bytes of a string, and the others.                          *)
Taken(m, k) == SubSeq(m, 1, k)
Left(m, k)  == SubSeq(m, k + 1, Len(m))

(* (n + 0x07ff) & ~0x07ff: up to a multiple of Block.                       *)
RoundUp_Down(n) == (n \div Block) * Block
RoundUp(n) == ((n + Block - 1) \div Block) * Block

(* The size of the buffer once it holds n bytes; an existing buffer grows  *)
(* only when it has to.                                                     *)
Grown(n) == IF buf = << >> \/ n > alloc THEN RoundUp(n) ELSE alloc

(* sendbin() with nothing buffered: the kernel takes k bytes of m.  If     *)
(* that is all, the socket is shut down when the caller asked for it (b);  *)
(* otherwise the rest is kept and so is the wish.                           *)
WriteThrough(m, k, b) ==
  /\ wire' = wire \o Taken(m, k)
  /\ buf' = buf \o Left(m, k)
  /\ alloc' = IF k = Len(m) THEN alloc ELSE Grown(Len(buf) + Len(m) - k)
  /\ conn' = IF b /\ k = Len(m) THEN "shut" ELSE conn
  /\ burn' = (burn \/ (b /\ k < Len(m)))

(* sendbin() behind a buffer: no write() is tried.                          *)
MustQueue_OnlyIfFull == buf # << >> /\ Len(buf) >= alloc
MustQueue == buf # << >>

Enqueue(m, b) ==
  /\ MustQueue
  /\ buf' = buf \o m
  /\ alloc' = Grown(Len(buf) + Len(m))
  /\ burn' = (burn \/ b)
  /\ UNCHANGED <<wire, conn>>

(* sendbin() of the empty string: its loop is not entered, so a shutdown   *)
(* that is asked for does not wait for what is buffered.                    *)
SendNothing(b) ==
  /\ conn' = IF b THEN "shut" ELSE conn
  /\ UNCHANGED <<wire, buf, alloc, burn>>

sendbin(m, b) ==
  /\ conn = "open"
  /\ Len(sent) + Len(m) <= MaxSent
  /\ sent' = sent \o m
  /\ \/ m = << >> /\ SendNothing(b)
     \/ m # << >> /\ Enqueue(m, b)
     \/ m # << >> /\ ~MustQueue /\ \E k \in 0 .. Len(m) : WriteThrough(m, k, b)

(* safe_shutdown().                                                         *)
safe_shutdown_Now ==
  /\ conn = "open"
  /\ conn' = "shut"
  /\ UNCHANGED <<sent, wire, buf, alloc, burn>>
safe_shutdown ==
  /\ conn = "open"
  /\ IF buf = << >> THEN conn' = "shut" /\ UNCHANGED burn
                    ELSE burn' = TRUE /\ UNCHANGED conn
  /\ UNCHANGED <<sent, wire, buf, alloc>>

(* EVENT_WRITE with a buffer: sendqueue() writes k bytes of it and moves   *)
(* the others to its start; once it is empty a shutdown that waited is     *)
(* carried out.                                                             *)
Rest(k) == Left(buf, k)

sendqueue_ForgetsBurn ==
  /\ conn = "open"
  /\ buf # << >>
  /\ \E k \in 1 .. Len(buf) : wire' = wire \o Taken(buf, k) /\ buf' = Rest(k)
  /\ UNCHANGED <<sent, alloc, burn, conn>>
sendqueue ==
  /\ conn = "open"
  /\ buf # << >>
  /\ \E k \in 1 .. Len(buf) :
       /\ wire' = wire \o Taken(buf, k)
       /\ buf' = Rest(k)
       /\ conn' = IF k = Len(buf) /\ burn THEN "shut" ELSE conn
  /\ UNCHANGED <<sent, alloc, burn>>

(* The peer is gone, or a script cuts the connection off: writes fail from  *)
(* now on and what is buffered is lost.                                     *)
(* Calls on a socket that is not open change nothing of this state.         *)
PeerGone ==
  /\ conn = "open"
  /\ conn' = "broken"
  /\ UNCHANGED <<sent, wire, buf, alloc, burn>>

Next ==
  \/ \E c \in Calls : sendbin(c[1], c[2])
  \/ safe_shutdown
  \/ sendqueue
  \/ PeerGone

Spec == Init /\ [][Next]_vars

-----------------------------------------------------------------------------
(* Properties.                                                             *)

(* Bytes reach the kernel once and in the order of the calls, however      *)
(* direct writes, partial writes and drained buffers follow each other:    *)
(* what was written, followed by what is buffered, is what was sent.       *)
InOrder == wire \o buf = sent

(* The server never cuts its own answer off: when it shuts a socket down   *)
(* itself, every byte handed to sendbin() before has been written.  (Not   *)
(* of a script that writes the empty string and asks for a shutdown.)       *)
CompleteBeforeShutdown == conn = "shut" => wire = sent

(* The buffer never holds more than was allocated for it.                   *)
WithinAllocation == buf # << >> => Len(buf) <= alloc
=============================================================================
