---------------------------- MODULE BufferWindow ----------------------------
(***************************************************************************)
(* The geometry of the run-time library's record buffer.                   *)
(*                                                                         *)
(* A disk file is read and written in blocks; the buffer holds the         *)
(* NBlocks consecutive blocks that start at block number `location', the   *)
(* window.  Records are RecSize bytes long and need not line up with       *)
(* blocks, so a window may begin and end in the middle of a record.        *)
(*                                                                         *)
(* The operators are the fields of struct bufstate that                    *)
(* v2_update_bufstate recomputes each time the window moves (they are a    *)
(* function of the window's block number and of the file's sizes), and     *)
(* the sizes that v2_initialize_buffer chooses when a disk file is opened. *)
(***************************************************************************)
EXTENDS Integers

CONSTANTS
  RecSize,     \* bytes in a record (RECSIZE)
  BlockSize,   \* bytes in a block of the file system (st_blksize)
  MinBufSize,  \* RANDOM_BUFFER_SIZE or APPROX_BUFFER_SIZE
  Sequential   \* TRUE iff OPEN_METHOD is SEQ

ASSUME SizesArePositive ==
  /\ RecSize \in Nat \ {0}
  /\ BlockSize \in Nat \ {0}
  /\ MinBufSize \in Nat \ {0}
  /\ Sequential \in BOOLEAN

Larger(a, b) == IF a >= b THEN a ELSE b
Ceil(a, b) == (a + b - 1) \div b

-----------------------------------------------------------------------------
(* v2_initialize_buffer, for a disk file.                                  *)

(* Enough blocks for the preferred size or for one record, and one more    *)
(* when a record alone needs them all: a record never fills the window.    *)
NBlocks ==
  LET n == Ceil(Larger(MinBufSize, RecSize), BlockSize)
  IN  IF Ceil(RecSize, BlockSize) = n THEN n + 1 ELSE n

BufSize == NBlocks * BlockSize

(* BUF_ALIGN: the window only ever starts at a multiple of its own size.   *)
Aligned == RecSize % BufSize = 0 \/ BufSize % RecSize = 0

RecsPerBuf == BufSize \div RecSize

-----------------------------------------------------------------------------
(* v2_update_bufstate: where records lie in the window at block `loc'.     *)

(* Where a window may start.                                               *)
IsLocation(loc) == loc \in Nat /\ (Aligned => loc % NBlocks = 0)

Base(loc) == loc * BlockSize          \* byteloc
End(loc)  == Base(loc) + BufSize - 1  \* endloc

FirstRec(loc) ==
  IF Aligned THEN (loc \div NBlocks) * RecsPerBuf ELSE Base(loc) \div RecSize

FirstRecPos(loc) == IF Aligned THEN 0 ELSE Base(loc) % RecSize

RecOffset(loc) ==
  IF FirstRecPos(loc) = 0 THEN 0 ELSE RecSize - FirstRecPos(loc)

LastRec(loc) ==
  IF Aligned THEN FirstRec(loc) + RecsPerBuf - 1 ELSE End(loc) \div RecSize

LastRecLen(loc) == IF Aligned THEN RecSize ELSE (End(loc) % RecSize) + 1

LastRecPos(loc) ==
  IF Aligned THEN (RecsPerBuf - 1) * RecSize ELSE BufSize - LastRecLen(loc)

FirstCompleteRec(loc) ==
  IF Aligned THEN FirstRec(loc) ELSE (Base(loc) + RecSize - 1) \div RecSize

LastCompleteRec(loc) ==
  IF Aligned THEN LastRec(loc) ELSE (End(loc) - RecSize + 1) \div RecSize

-----------------------------------------------------------------------------
(* The pieces of a record that v2_read_rec and v2_write_rec hand to        *)
(* v2_movetrans: bytes from..from+len-1 of the record, which lie in the    *)
(* buffer from byte `at' on.                                               *)

Complete(loc, rec) ==
  FirstCompleteRec(loc) <= rec /\ rec <= LastCompleteRec(loc)

WholeRec(loc, rec) ==
  [at   |-> RecOffset(loc) + (rec - FirstCompleteRec(loc)) * RecSize,
   from |-> 0,
   len  |-> RecSize]

LastPartOfFirst(loc) ==
  [at |-> 0, from |-> FirstRecPos(loc), len |-> RecOffset(loc)]

FirstPartOfLast(loc) ==
  [at |-> LastRecPos(loc), from |-> 0, len |-> LastRecLen(loc)]

InPiece(piece, j) == piece.from <= j /\ j < piece.from + piece.len

NoPiece == [at |-> 0, from |-> 0, len |-> 0]

(* What the current window holds of a record that is not complete in it,   *)
(* and, once the window has moved to loc for it, the rest of the record.   *)
OldPiece(loc, firstPart, lastPart) ==
  IF lastPart THEN LastPartOfFirst(loc)
  ELSE IF firstPart THEN FirstPartOfLast(loc)
  ELSE NoPiece

(* Mutant: the previous window is taken to end with the record's start.    *)
NewPieceUnclamped(loc, rec, firstPart, lastPart) ==
  IF firstPart THEN LastPartOfFirst(loc)
  ELSE IF lastPart THEN FirstPartOfLast(loc)
  ELSE WholeRec(loc, rec)

NewPiece(loc, rec, firstPart, lastPart) ==
  IF firstPart THEN LastPartOfFirst(loc)
  ELSE IF lastPart /\ ~Complete(loc, rec) THEN FirstPartOfLast(loc)
  ELSE WholeRec(loc, rec)

(* Where the window moves to for `rec': the next or the previous window if *)
(* part of the record was found in the current one, else the block the     *)
(* record starts in; aligned windows go to the multiple that holds it, and *)
(* a window never starts before the file.                                  *)
NextLocation(loc, rec, firstPart, lastPart) ==
  IF Aligned THEN (rec \div RecsPerBuf) * NBlocks
  ELSE IF firstPart THEN loc + NBlocks
  ELSE IF lastPart THEN (IF loc < NBlocks THEN 0 ELSE loc - NBlocks)
  ELSE (rec * RecSize) \div BlockSize
=============================================================================
