---------------------------- MODULE RangeAnswer ----------------------------
(***************************************************************************)
(* transfer_file_chunk of hw1 and hw4: which bytes of a local file answer a*)
(* request, by its Range header.  A range is "first-last", "first-", or    *)
(* "-last", which RFC 7233 reads as the last bytes of the file and the code*)
(* does not: it cuts the text at the '-' and reads an empty number as 0.   *)
(***************************************************************************)
EXTENDS Integers

(* What a request asks for; none is a request without a Range header.      *)
RangeType == [kind : {"none", "closed", "from", "suffix"}, first : Nat, last : Nat]

Least2(x, y) == IF x < y THEN x ELSE y

FirstByte(r) == IF r.kind \in {"closed", "from"} THEN r.first ELSE 0

Satisfiable(r, size) == r.kind = "none" \/ FirstByte(r) < size

LastByte(r, size) ==
  IF r.kind \in {"closed", "suffix"} THEN Least2(r.last, size - 1) ELSE size - 1

Status(r, size) ==
  IF r.kind = "none" THEN 200 ELSE IF Satisfiable(r, size) THEN 206 ELSE 416

(* bytes_to_read; not positive when the range ends before it starts.       *)
BytesToRead(r, size) == LastByte(r, size) - FirstByte(r) + 1

(* The reference, RFC 7233 2.1: the bytes that a range selects.  One that  *)
(* ends before it starts is invalid, and such a Range header is ignored.   *)
Invalid(r) == r.kind = "closed" /\ r.last < r.first

Selected(r, size) ==
  IF r.kind = "none" \/ Invalid(r) THEN 0 .. size - 1
  ELSE {b \in 0 .. size - 1 :
          /\ r.kind \in {"closed", "from"} => b >= r.first
          /\ r.kind = "closed" => b <= r.last
          /\ r.kind = "suffix" => b >= size - r.last}

(* The ranges in which the code sees what RFC 7233 does.  It answers an    *)
(* invalid one with status 206 and no byte, a suffix with the first bytes. *)
Understood(r) == r.kind # "suffix" /\ ~Invalid(r)
=============================================================================
