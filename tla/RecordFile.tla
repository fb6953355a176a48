----------------------------- MODULE RecordFile -----------------------------
(***************************************************************************)
(* What the run-time library's buffered record I/O promises its caller: a  *)
(* file of fixed-length records that can be read and written in any order, *)
(* whole or in part, in which a byte reads back as it was last written.    *)
(*                                                                         *)
(* `content' maps the file addresses whose byte is promised to that byte.  *)
(* Addresses outside its domain (records skipped over, bytes of a write    *)
(* that reported failure) may hold anything.                               *)
(***************************************************************************)
EXTENDS Integers

CONSTANTS
  RecSize,      \* bytes in a record
  NRec,         \* bound: records 0..NRec-1 are read and written
  Byte,         \* values of a byte
  Requests,     \* the <<start, length>> pairs a caller asks for
  Images,       \* contents of a caller's record buffer
  NoLabels,     \* TRUE iff the file has no VICAR labels
  NominalSize   \* size in bytes that the image's label calls for

VARIABLES op, content, status, userbuf

vars == <<op, content, status, userbuf>>

Modes == {"READ", "WRITE", "UPDATE"}

Asked(req) == req[1] .. (req[1] + req[2] - 1)
Span(rec, req) == {rec * RecSize + j : j \in Asked(req)}

Keep(f, S) == [a \in DOMAIN f \cap S |-> f[a]]

(* No transfer has put anything in the caller's buffer.                    *)
NoData == [j \in {} |-> 0]

-----------------------------------------------------------------------------
Init ==
  /\ op = "CLOSED"
  /\ content = NoData
  /\ status = "SUCCESS"
  /\ userbuf = NoData

(* Opening for output forgets what was there; opening for input promises   *)
(* what an earlier close left, in whole records, and perhaps more.         *)
Open(mode) ==
  /\ op = "CLOSED"
  /\ op' = mode
  /\ mode = "WRITE" => content' = NoData
  /\ mode # "WRITE" =>
       \A a \in DOMAIN content :
         a \in DOMAIN content' /\ content'[a] = content[a]
  /\ status' = "SUCCESS"
  /\ userbuf' = NoData

Read(rec, req) ==
  /\ op \in {"READ", "UPDATE"}
  /\ status' = "SUCCESS"
  /\ DOMAIN userbuf' = Asked(req)
  /\ \A j \in Asked(req) :
       rec * RecSize + j \in DOMAIN content =>
         userbuf'[j] = content[rec * RecSize + j]
  /\ UNCHANGED <<op, content>>

(* The end of the file lies before every byte of the record.               *)
ReadPastEnd(rec, req) ==
  /\ op \in {"READ", "UPDATE"}
  /\ status' = "END_OF_FILE"
  /\ userbuf' = NoData
  /\ Span(rec, req) \cap DOMAIN content = {}
  /\ UNCHANGED <<op, content>>

ReadFails ==
  /\ op \in {"READ", "UPDATE"}
  /\ status' = "IO_ERROR"
  /\ userbuf' = NoData
  /\ UNCHANGED <<op, content>>

Write(rec, req, image) ==
  /\ op \in {"WRITE", "UPDATE"}
  /\ status' = "SUCCESS"
  /\ userbuf' = NoData
  /\ content' = [a \in DOMAIN content \cup Span(rec, req) |->
                   IF a \in Span(rec, req) THEN image[a - rec * RecSize]
                                           ELSE content[a]]
  /\ UNCHANGED op

(* A failed write leaves the bytes it aimed at in doubt and no others.     *)
WriteFails(rec, req) ==
  /\ op \in {"WRITE", "UPDATE"}
  /\ status' = "IO_ERROR"
  /\ userbuf' = NoData
  /\ content' = Keep(content, DOMAIN content \ Span(rec, req))
  /\ UNCHANGED op

(* Nothing is lost by closing, but for what lies beyond the size that the  *)
(* label calls for.                                                        *)
Close ==
  /\ op # "CLOSED"
  /\ status' = "SUCCESS"
  /\ userbuf' = NoData
  /\ op' = "CLOSED"
  /\ content' = IF op = "READ" \/ (NoLabels /\ op = "WRITE") THEN content
                ELSE Keep(content, 0 .. (NominalSize - 1))

CloseFails ==
  /\ op # "CLOSED"
  /\ status' = "IO_ERROR"
  /\ userbuf' = NoData
  /\ UNCHANGED <<op, content>>

Next ==
  \/ \E mode \in Modes : Open(mode)
  \/ \E rec \in 0 .. (NRec - 1), req \in Requests :
       \/ Read(rec, req)
       \/ ReadPastEnd(rec, req)
       \/ WriteFails(rec, req)
       \/ \E image \in Images : Write(rec, req, image)
  \/ ReadFails
  \/ Close
  \/ CloseFails

Spec == Init /\ [][Next]_vars
=============================================================================
