----------------------------- MODULE FileStream -----------------------------
(***************************************************************************)
(* What /peer/view promises the clients of a node: each receives a header  *)
(* and then the bytes it asked for, in order and in chunks, and its        *)
(* connection is closed as finished only after the last of them.  A chunk  *)
(* that is short is filled up with bytes that are not part of the answer;  *)
(* it is the last, and nothing comes behind it.  How the chunks travel is  *)
(* left to ChunkTransfer.                                                  *)
(***************************************************************************)
EXTENDS Integers, Sequences

CONSTANTS
  Client,   \* the TCP clients that ask for a file
  Path,     \* the files of the peers
  Chunk,    \* PACKET_DATA_SIZE
  Size,     \* Size[f]: bytes in f, -1 when fopen fails
  Want      \* Want[c]: what c asks for

Request == [path : Path, range : BOOLEAN, start : Int, end : Int]

(* A range is "s-e" with s <= e, "s-" (end = -1), or ends in 0, which the  *)
(* code takes for "no end given".  A request without a range is for bytes  *)
(* 0 to -1.                                                                *)
ASSUME StreamAssumption ==
  /\ Chunk \in Nat \ {0}
  /\ Size \in [Path -> Nat \union {-1}]
  /\ Want \in [Client -> Request]
  /\ \A c \in Client :
       IF Want[c].range THEN \/ Want[c].end \in {-1, 0}
                             \/ Want[c].start <= Want[c].end
                        ELSE Want[c].start = 0 /\ Want[c].end = -1

VARIABLES
  body,     \* body[c]: what c has received
  ended     \* ended[c]: whether its connection is open, or how it was closed

streamVars == <<body, ended>>

(* The first and the last byte c is to get.                                *)
FileSize(c) == Size[Want[c].path]
First(c) == Want[c].start
Last(c) == IF Want[c].end \in 1 .. FileSize(c) - 1
           THEN Want[c].end ELSE FileSize(c) - 1

Smaller(x, y) == IF x < y THEN x ELSE y

(* The i-th thing c receives: the header, then the chunks one by one.      *)
Item(c, i) ==
  IF i = 1
  THEN [kind |-> "head", path |-> Want[c].path,
        from |-> First(c), size |-> FileSize(c), pad |-> 0]
  ELSE LET from == First(c) + (i - 2) * Chunk
           size == Smaller(Chunk, Last(c) - from + 1)
       IN [kind |-> "data", path |-> Want[c].path,
           from |-> from, size |-> size, pad |-> Chunk - size]

Stream(c, k) == [i \in 1 .. k |-> Item(c, i)]

(* k items are all there is: the next chunk would start behind the end.    *)
IsWhole(c, k) == k >= 2 /\ First(c) + (k - 1) * Chunk > Last(c)

StreamInit ==
  /\ body = [c \in Client |-> << >>]
  /\ ended = [c \in Client |-> "open"]

(* The next chunk, with the header before the first one.                   *)
Deliver(c, k) ==
  /\ ended[c] = "open"
  /\ ~IsWhole(c, Len(body[c]))
  /\ k > Len(body[c]) /\ k <= Len(body[c]) + 2
  /\ body' = [body EXCEPT ![c] = Stream(c, k)]

Continue(c) ==
  /\ \E k \in Len(body[c]) + 1 .. Len(body[c]) + 2 : Deliver(c, k)
  /\ UNCHANGED ended

Finish(c) ==
  /\ \E k \in Len(body[c]) + 1 .. Len(body[c]) + 2 :
       Deliver(c, k) /\ IsWhole(c, k)
  /\ ended' = [ended EXCEPT ![c] = "done"]

(* The node gives up on c.                                                 *)
Cut(c) ==
  /\ ended[c] = "open"
  /\ ended' = [ended EXCEPT ![c] = "cut"]
  /\ UNCHANGED body

StreamNext == \E c \in Client : Continue(c) \/ Finish(c) \/ Cut(c)

StreamSpec == StreamInit /\ [][StreamNext]_streamVars
=============================================================================
