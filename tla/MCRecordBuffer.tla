--------------------------- MODULE MCRecordBuffer ---------------------------
(* Small instances of RecordBuffer.  A byte is a tag and its place in the  *)
(* record, so that a misplaced piece of a record shows.                    *)
EXTENDS RecordBuffer

CONSTANT Tags, FileSizes

MCZero == <<"zero", 0>>
MCGarbage == <<"garbage", 0>>
MCByte == {MCZero, MCGarbage} \cup (Tags \cup {"old"}) \X (0 .. (RecSize - 1))
MCImages == {[j \in 0 .. (RecSize - 1) |-> <<t, j>>] : t \in Tags}

(* Files of each size, full of old records.                                *)
MCInitialFiles ==
  {[size  |-> n,
    bytes |-> [a \in Addr |-> IF a < n THEN <<"old", a % RecSize>> ELSE MCZero]] :
     n \in FileSizes}

(* Whole records, the first byte of one, and all but that.                 *)
MCHead == {<<0, RecSize>>, <<0, 1>>}
MCTail == {<<1, RecSize - 1>>}
MCWhole == {<<0, RecSize>>}
MCNoShortWrites == {}
MCShortWrites == {BufSize - 2}
=============================================================================
