-------------------------- MODULE MCChunkTransfer --------------------------
(* Small instances of ChunkTransfer: chunks of 2 bytes instead of 1024.    *)
EXTENDS ChunkTransfer, TLC

CONSTANTS c1, c2, c3, c4, odd, even, gone

(* Two chunks and a rest; exactly two chunks; no file.                     *)
MCSize == odd :> 5 @@ even :> 4 @@ gone :> -1

(* A chunk and a rest; exactly one chunk; no file.                         *)
MCSizeShort == odd :> 3 @@ even :> 2 @@ gone :> -1

Whole(f) == [path |-> f, range |-> FALSE, start |-> 0, end |-> -1]
Part(f, s, e) == [path |-> f, range |-> TRUE, start |-> s, end |-> e]

(* A whole file; a range that ends inside a chunk; an open-ended range.    *)
MCWantRest == [c \in Client |->
  CASE c = c1 -> Whole(odd) [] c = c2 -> Part(even, 1, 3)
    [] OTHER -> Part(odd, 2, -1)]

(* The last bytes of a file, one way or another: answered by one chunk.    *)
MCWantShort == [c \in Client |->
  CASE c = c1 -> Part(odd, 2, 2) [] c = c2 -> Part(even, 1, 1) [] OTHER -> Part(odd, 2, -1)]

(* With a file that is a whole number of chunks; one that does not exist.  *)
MCWantMixed == [c \in Client |->
  CASE c = c1 -> Whole(odd) [] c = c2 -> Part(odd, 1, 3) [] c = c3 -> Whole(even)
    [] OTHER -> Whole(gone)]

(* A whole number of chunks, and nothing else.                             *)
MCWantEven == [c \in Client |-> Whole(even)]
=============================================================================
