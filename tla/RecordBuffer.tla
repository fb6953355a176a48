---------------------------- MODULE RecordBuffer ----------------------------
(***************************************************************************)
(* Record I/O of the VICAR run-time library on a disk file: v2_read_rec    *)
(* and v2_write_rec over the block buffer, from open to close.             *)
(*                                                                         *)
(* The program is single-threaded: each call is one step.  What a call     *)
(* meets on the way is not under its control: the file may end inside or   *)
(* before the window, a write may fail after any prefix has reached the    *)
(* disk, and (when ReadErrors) a read may fail.                            *)
(***************************************************************************)
EXTENDS BufferWindow, FiniteSets

CONSTANTS
  NRec,          \* bound: records 0..NRec-1 are read and written
  Byte,          \* values of a byte
  Zero,          \* the byte a file's holes read as
  Garbage,       \* the byte in memory that was never written
  Requests,      \* the <<start, length>> pairs a caller asks for, in bytes of the file
  Images,        \* contents of a caller's record buffer, as the file has them
  UserPixel,     \* the length of a pixel in the caller's buffer
  FilePixel,     \* and in the file
  InitialFiles,  \* files there may be when the program starts
  NoLabels,      \* TRUE iff the file is opened with COND=NOLABELS
  NominalRecs,   \* records that the image's label calls for, labels included
  ReadErrors,    \* TRUE iff read(2) may fail
  ShortWrites    \* byte counts at which write(2) may fail or come up short

NominalSize == NominalRecs * RecSize
MaxAddr == NRec * RecSize + BufSize
Addr == 0 .. (MaxAddr - 1)
BufIdx == 0 .. (BufSize - 1)
Recs == 0 .. (NRec - 1)

ASSUME CallsAreInRange ==
  /\ NRec \in Nat
  /\ Zero \in Byte /\ Garbage \in Byte
  /\ Requests \subseteq (Nat \X Nat)
  /\ \A req \in Requests : req[2] > 0 /\ req[1] + req[2] <= RecSize
  /\ Images \subseteq [0 .. (RecSize - 1) -> Byte]
  /\ NominalRecs \in 0 .. NRec
  /\ {UserPixel, FilePixel} \subseteq Nat \ {0}
  /\ {NoLabels, ReadErrors} \subseteq BOOLEAN
  /\ ShortWrites \subseteq 0 .. (BufSize - 1)

ASSUME InitialFilesAreFiles ==
  \A f \in InitialFiles :
    /\ f.bytes \in [Addr -> Byte]
    /\ f.size \in 0 .. (NRec * RecSize)
    /\ \A a \in Addr : a >= f.size => f.bytes[a] = Zero

VARIABLES
  op,          \* OP of the open unit, or "CLOSED"
  bytes,       \* the file's bytes on disk, Zero from `size' on
  size,        \* the file's length
  buffer,      \* bufstate->buffer
  blockno,     \* bufstate->blockno, the window's first block
  valid,       \* BUF_VALID
  dirty,       \* BUF_DIRTY
  eof_record,  \* bufstate->eof_record
  promised,    \* history: addresses whose byte the caller may rely on
  status,      \* what the last call returned
  userbuf      \* what the last call put in the caller's buffer

window == <<buffer, blockno, valid, dirty>>
file == <<bytes, size>>
vars == <<op, file, window, eof_record, promised, status, userbuf>>

Modes == {"READ", "WRITE", "UPDATE"}
Asked(req) == req[1] .. (req[1] + req[2] - 1)
Span(rec, req) == {rec * RecSize + j : j \in Asked(req)}
NoData == [j \in {} |-> 0]

-----------------------------------------------------------------------------
(* v2_movetrans, in bytes of the file (PixelTransfer has the translation): *)
(* the overlap of a piece of the record with what the caller asked for, out*)
(* of a buffer and into it.                                                *)

MoveOut(buf, piece, req, user) ==
  [j \in Asked(req) |->
     IF InPiece(piece, j) THEN buf[piece.at + (j - piece.from)] ELSE user[j]]

MoveIn(buf, piece, req, image) ==
  [k \in BufIdx |->
     LET j == k - piece.at + piece.from
     IN  IF InPiece(piece, j) /\ j \in Asked(req) THEN image[j] ELSE buf[k]]

(* read(2) of a whole window; a file that ends inside it leaves the rest   *)
(* of the buffer as it was.                                                *)
Fill(buf, disk, length, loc) ==
  [k \in BufIdx |-> IF Base(loc) + k < length THEN disk[Base(loc) + k]
                                              ELSE buf[k]]

(* Mutant: the last byte of the window is not written.                     *)
StoredShort(disk, buf, loc, n) ==
  [a \in Addr |-> IF Base(loc) <= a /\ a < Base(loc) + n - 1
                  THEN buf[a - Base(loc)] ELSE disk[a]]

(* write(2) of the first n bytes of the window.                            *)
Stored(disk, buf, loc, n) ==
  [a \in Addr |-> IF Base(loc) <= a /\ a < Base(loc) + n
                  THEN buf[a - Base(loc)] ELSE disk[a]]

Extended(length, loc, n) ==
  IF n = 0 THEN length ELSE Larger(length, Base(loc) + n)

(* v2_flush_buffer on a window whose dirty flag is d: what it returns and  *)
(* what it leaves on disk.                                                 *)
Flush(buf, loc, d) ==
  IF ~d THEN {[ok |-> TRUE, bytes |-> bytes, size |-> size]}
  ELSE {[ok |-> n = BufSize,
         bytes |-> Stored(bytes, buf, loc, n),
         size |-> Extended(size, loc, n)] :
           n \in ShortWrites \cup {BufSize}}

-----------------------------------------------------------------------------
Init ==
  /\ \E f \in InitialFiles : bytes = f.bytes /\ size = f.size
  /\ op = "CLOSED"
  /\ buffer = [k \in BufIdx |-> Garbage]
  /\ blockno = 0
  /\ valid = FALSE
  /\ dirty = FALSE
  /\ eof_record = 0
  /\ promised = {}
  /\ status = "SUCCESS"
  /\ userbuf = NoData

(* Open the disk file and v2_initialize_buffer: a fresh buffer, in which   *)
(* nothing is valid yet.  An output file keeps its old bytes, but the      *)
(* library takes it to be empty.                                           *)
Open(mode) ==
  /\ op = "CLOSED"
  /\ op' = mode
  /\ buffer' = [k \in BufIdx |-> Garbage]
  /\ blockno' = 0
  /\ valid' = FALSE
  /\ dirty' = FALSE
  /\ eof_record' = IF mode = "WRITE" THEN 0 ELSE size \div RecSize
  /\ promised' = IF mode = "WRITE" THEN {}
                 ELSE promised \cup 0 .. ((size \div RecSize) * RecSize - 1)
  /\ status' = "SUCCESS"
  /\ userbuf' = NoData
  /\ UNCHANGED file

-----------------------------------------------------------------------------
(* How the wanted record lies in the current window.                       *)

Hit(rec) == valid /\ Complete(blockno, rec)

Partial == valid /\ Sequential /\ ~Aligned
HasLastPart(rec) == Partial /\ rec = FirstRec(blockno)
HasFirstPart(rec) == Partial /\ rec # FirstRec(blockno) /\ rec = LastRec(blockno)

Location(rec) ==
  NextLocation(blockno, rec, HasFirstPart(rec), HasLastPart(rec))

PartHere(rec) == OldPiece(blockno, HasFirstPart(rec), HasLastPart(rec))
PartThere(rec, loc) == NewPiece(loc, rec, HasFirstPart(rec), HasLastPart(rec))

Unread(req) == [j \in Asked(req) |-> Garbage]

-----------------------------------------------------------------------------
(* v2_read_rec.                                                            *)

(* c_xvread and c_xvwrit keep a labelled image's records apart from the    *)
(* label at its end, but for files being written.                          *)
InImage(rec) == NoLabels \/ op = "WRITE" \/ rec < NominalRecs

Reading(rec, req) ==
  /\ op \in {"READ", "UPDATE"}
  /\ InImage(rec)
  /\ UNCHANGED <<op, eof_record, promised>>

ReadHit(rec, req) ==
  /\ Reading(rec, req)
  /\ Hit(rec)
  /\ status' = "SUCCESS"
  /\ userbuf' = MoveOut(buffer, WholeRec(blockno, rec), req, Unread(req))
  /\ UNCHANGED <<file, window>>

ReadFlushFails(rec, req) ==
  /\ Reading(rec, req)
  /\ ~Hit(rec)
  /\ \E flush \in Flush(buffer, blockno, dirty) :
       /\ ~flush.ok
       /\ bytes' = flush.bytes
       /\ size' = flush.size
  /\ status' = "IO_ERROR"
  /\ userbuf' = NoData
  /\ UNCHANGED window

(* The window moves and is marked valid whatever the read returns.         *)
ReadMiss(rec, req) ==
  /\ Reading(rec, req)
  /\ ~Hit(rec)
  /\ \E flush \in Flush(buffer, blockno, dirty) :
       /\ flush.ok
       /\ bytes' = flush.bytes
       /\ size' = flush.size
  /\ dirty' = FALSE
  /\ blockno' = Location(rec)
  /\ valid' = TRUE

ReadMissFound(rec, req) ==
  /\ ReadMiss(rec, req)
  /\ Base(Location(rec)) < size'
  /\ buffer' = Fill(buffer, bytes', size', Location(rec))
  /\ status' = "SUCCESS"
  /\ userbuf' = MoveOut(buffer', PartThere(rec, Location(rec)), req,
                        MoveOut(buffer, PartHere(rec), req, Unread(req)))

ReadMissEndOfFile(rec, req) ==
  /\ ReadMiss(rec, req)
  /\ Base(Location(rec)) >= size'
  /\ status' = "END_OF_FILE"
  /\ userbuf' = NoData
  /\ UNCHANGED buffer

ReadMissError(rec, req) ==
  /\ ReadErrors
  /\ ReadMiss(rec, req)
  /\ status' = "IO_ERROR"
  /\ userbuf' = NoData
  /\ UNCHANGED buffer

Read(rec, req) ==
  \/ ReadHit(rec, req)
  \/ ReadFlushFails(rec, req)
  \/ ReadMissFound(rec, req)
  \/ ReadMissEndOfFile(rec, req)
  \/ ReadMissError(rec, req)

-----------------------------------------------------------------------------
(* v2_write_rec.  The record count grows before anything can fail.         *)

(* Mutant: the record count takes a record's number for its own.           *)
WritingOffByOne(rec) ==
  /\ op \in {"WRITE", "UPDATE"}
  /\ InImage(rec)
  /\ eof_record' = Larger(eof_record, rec)
  /\ userbuf' = NoData
  /\ UNCHANGED op

(* Mutant: every write counts as a new record.                             *)
WritingAppends(rec) ==
  /\ op \in {"WRITE", "UPDATE"}
  /\ InImage(rec)
  /\ eof_record' = eof_record + 1
  /\ userbuf' = NoData
  /\ UNCHANGED op

Writing(rec) ==
  /\ op \in {"WRITE", "UPDATE"}
  /\ InImage(rec)
  /\ eof_record' = Larger(eof_record, rec + 1)
  /\ userbuf' = NoData
  /\ UNCHANGED op

(* The record is in buffer buf at loc; flush it if it ends the window.     *)
Finish(rec, req, buf, loc, disk, length) ==
  LET full == rec = LastRec(loc)
  IN  \E n \in IF full THEN ShortWrites \cup {BufSize} ELSE {BufSize} :
        /\ buffer' = buf
        /\ blockno' = loc
        /\ valid' = TRUE
        /\ dirty' = (~full \/ n # BufSize)
        /\ bytes' = IF full THEN Stored(disk, buf, loc, n) ELSE disk
        /\ size' = IF full THEN Extended(length, loc, n) ELSE length
        /\ status' = IF full /\ n # BufSize THEN "IO_ERROR" ELSE "SUCCESS"
        /\ promised' = IF full /\ n # BufSize
                       THEN promised \ Span(rec, req)
                       ELSE promised \cup Span(rec, req)

WriteHit(rec, req, image) ==
  /\ Writing(rec)
  /\ Hit(rec)
  /\ Finish(rec, req, MoveIn(buffer, WholeRec(blockno, rec), req, image),
            blockno, bytes, size)

(* What the old window gets before it is left, and whether that must be    *)
(* flushed.                                                                *)
Leaving(rec, req, image) == MoveIn(buffer, PartHere(rec), req, image)

(* Mutant: only the last part of a record makes the old window dirty.      *)
LeavingCleaner(rec) == dirty \/ HasLastPart(rec)

LeavingDirty(rec) == dirty \/ HasLastPart(rec) \/ HasFirstPart(rec)

WriteFlushFails(rec, req, image) ==
  /\ Writing(rec)
  /\ ~Hit(rec)
  /\ \E flush \in Flush(Leaving(rec, req, image), blockno, LeavingDirty(rec)) :
       /\ ~flush.ok
       /\ bytes' = flush.bytes
       /\ size' = flush.size
  /\ buffer' = Leaving(rec, req, image)
  /\ dirty' = LeavingDirty(rec)
  /\ promised' = promised \ Span(rec, req)
  /\ status' = "IO_ERROR"
  /\ UNCHANGED <<blockno, valid>>

(* nbytes, which counts bytes of the caller's pixels, is compared with the *)
(* length of a record in the file.                                         *)
TakenForWhole(req) == req[1] = 0 /\ req[2] * UserPixel = RecSize * FilePixel

(* Mutant: a whole last record is thought to start the window always.      *)
NeedsPrereadSeldom(rec, req, loc) ==
  \/ ~TakenForWhole(req)
  \/ rec < Larger(eof_record, rec + 1) - 1

(* Mutant: a write of part of the last record needs nothing of its window. *)
NeedsPrereadUnlessLast(rec, req, loc) ==
  \/ rec < Larger(eof_record, rec + 1) - 1
  \/ rec # FirstRec(loc)

(* The rest of the new window is needed unless the write is of a whole     *)
(* record, the last of the file, at the start of the window.               *)
NeedsPreread(rec, req, loc) ==
  \/ ~TakenForWhole(req)
  \/ rec < Larger(eof_record, rec + 1) - 1
  \/ rec # FirstRec(loc)

WriteMiss(rec, req, image) ==
  /\ Writing(rec)
  /\ ~Hit(rec)
  /\ \E flush \in Flush(Leaving(rec, req, image), blockno, LeavingDirty(rec)) :
       LET loc == Location(rec)
           old == Leaving(rec, req, image)
           new == IF NeedsPreread(rec, req, loc)
                  THEN Fill(old, flush.bytes, flush.size, loc) ELSE old
       IN  /\ flush.ok
           /\ Finish(rec, req, MoveIn(new, PartThere(rec, loc), req, image),
                     loc, flush.bytes, flush.size)

(* The window has moved when the preread fails; if it was valid before it  *)
(* still says so.                                                          *)
WritePrereadFails(rec, req, image) ==
  /\ ReadErrors
  /\ Writing(rec)
  /\ ~Hit(rec)
  /\ NeedsPreread(rec, req, Location(rec))
  /\ \E flush \in Flush(Leaving(rec, req, image), blockno, LeavingDirty(rec)) :
       /\ flush.ok
       /\ bytes' = flush.bytes
       /\ size' = flush.size
  /\ buffer' = Leaving(rec, req, image)
  /\ blockno' = Location(rec)
  /\ dirty' = FALSE
  /\ promised' = promised \ Span(rec, req)
  /\ status' = "IO_ERROR"
  /\ UNCHANGED valid

Write(rec, req, image) ==
  \/ WriteHit(rec, req, image)
  \/ WriteFlushFails(rec, req, image)
  \/ WriteMiss(rec, req, image)
  \/ WritePrereadFails(rec, req, image)

-----------------------------------------------------------------------------
(* v2_close_file: flush, then v2_finish_file sets the file's length; the   *)
(* buffer and the state of the unit are freed.                             *)

(* Mutant: the label's own record is left out of the size.                 *)
FinalSizeShort(length) ==
  IF op = "READ" THEN length
  ELSE IF NoLabels /\ op = "WRITE" THEN eof_record * RecSize
  ELSE (NominalRecs - 1) * RecSize

FinalSize(length) ==
  IF op = "READ" THEN length
  ELSE IF NoLabels /\ op = "WRITE" THEN eof_record * RecSize
  ELSE NominalSize

Truncated(disk, length) == [a \in Addr |-> IF a < length THEN disk[a] ELSE Zero]

Close ==
  /\ op # "CLOSED"
  /\ op' = "CLOSED"
  /\ \E flush \in Flush(buffer, blockno, dirty) :
       /\ flush.ok
       /\ size' = FinalSize(flush.size)
       /\ bytes' = Truncated(flush.bytes, size')
  /\ promised' = IF op = "READ" \/ (NoLabels /\ op = "WRITE") THEN promised
                 ELSE promised \cap 0 .. (NominalSize - 1)
  /\ valid' = FALSE
  /\ dirty' = FALSE
  /\ status' = "SUCCESS"
  /\ userbuf' = NoData
  /\ buffer' = [k \in BufIdx |-> Garbage]
  /\ blockno' = 0
  /\ eof_record' = 0

(* Mutant: the dirty flag goes down before the write is known to succeed.  *)
CloseFailsForgetful ==
  /\ op # "CLOSED"
  /\ \E flush \in Flush(buffer, blockno, dirty) :
       /\ ~flush.ok
       /\ bytes' = flush.bytes
       /\ size' = flush.size
  /\ dirty' = FALSE
  /\ status' = "IO_ERROR"
  /\ userbuf' = NoData
  /\ UNCHANGED <<op, buffer, blockno, valid, eof_record, promised>>

(* The unit stays open, its window still dirty: the close can be retried.  *)
CloseFails ==
  /\ op # "CLOSED"
  /\ \E flush \in Flush(buffer, blockno, dirty) :
       /\ ~flush.ok
       /\ bytes' = flush.bytes
       /\ size' = flush.size
  /\ status' = "IO_ERROR"
  /\ userbuf' = NoData
  /\ UNCHANGED <<op, window, eof_record, promised>>

(* ftruncate(2) fails after the flush.                                     *)
CloseFinishFails ==
  /\ op \in {"WRITE", "UPDATE"}
  /\ \E flush \in Flush(buffer, blockno, dirty) :
       /\ flush.ok
       /\ bytes' = flush.bytes
       /\ size' = flush.size
  /\ dirty' = FALSE
  /\ status' = "IO_ERROR"
  /\ userbuf' = NoData
  /\ UNCHANGED <<op, buffer, blockno, valid, eof_record, promised>>

-----------------------------------------------------------------------------
Next ==
  \/ \E mode \in Modes : Open(mode)
  \/ \E rec \in Recs, req \in Requests :
       \/ Read(rec, req)
       \/ \E image \in Images : Write(rec, req, image)
  \/ Close
  \/ CloseFails
  \/ CloseFinishFails

Spec == Init /\ [][Next]_vars

-----------------------------------------------------------------------------
TypeOK ==
  /\ op \in Modes \cup {"CLOSED"}
  /\ bytes \in [Addr -> Byte]
  /\ size \in 0 .. MaxAddr
  /\ buffer \in [BufIdx -> Byte]
  /\ IsLocation(blockno) /\ Base(blockno) + BufSize <= MaxAddr
  /\ valid \in BOOLEAN /\ dirty \in BOOLEAN
  /\ eof_record \in 0 .. NRec
  /\ promised \subseteq Addr
  /\ status \in {"SUCCESS", "END_OF_FILE", "IO_ERROR"}

(* The byte at an address as the library sees it: the window's if it is    *)
(* valid and the address in it, else the file's.                           *)
InWindow(a) == valid /\ Base(blockno) <= a /\ a < Base(blockno) + BufSize
View(a) == IF InWindow(a) THEN buffer[a - Base(blockno)] ELSE bytes[a]

(* Record I/O implements the file of records: a record reads back as it    *)
(* was last written whichever windows it has passed through, a failed call *)
(* disturbs nothing but its own record, and a close that succeeds has      *)
(* everything on disk (v2_read_rec, v2_write_rec, v2_close_file).          *)
Records == INSTANCE RecordFile WITH content <- [a \in promised |-> View(a)]
Implements == Records!Spec

(* A clean valid window agrees with the disk wherever the caller may look, *)
(* so leaving it without a flush loses nothing (BUF_DIRTY).                *)
CleanWindowIsOnDisk ==
  valid /\ ~dirty =>
    \A a \in promised : InWindow(a) => buffer[a - Base(blockno)] = bytes[a]

(* Unwritten data exists nowhere but in the window: a promised byte lies   *)
(* in the file, or in a dirty window (v2_flush_buffer).                    *)
PromisedBytesExist ==
  /\ dirty => valid
  /\ \A a \in promised : a < size \/ (dirty /\ InWindow(a))

(* A record that the caller may rely on in part exists in full, so that    *)
(* the end of the file never lies inside it: v2_read_rec takes a window    *)
(* that starts beyond it for END_OF_FILE, even if the record begins before.*)
RecordBytes(rec) == {rec * RecSize + j : j \in 0 .. (RecSize - 1)}
PromisedRecordsExist ==
  \A rec \in Recs : promised \cap RecordBytes(rec) # {} =>
    \A b \in RecordBytes(rec) : b < size \/ (dirty /\ InWindow(b))

(* The record count never falls behind what was written, or the preread    *)
(* before a write would be skipped over live data (write_rec.c, preread)   *)
(* and the truncation at close would cut it off (v2_finish_file).          *)
EofCoversWrites ==
  op # "CLOSED" => \A a \in promised : a < eof_record * RecSize

(* What else the library's modes keep true: only an open unit that writes  *)
(* has unwritten data, and a closed file is a whole number of records as   *)
(* far as anything in it is promised.                                      *)
ModesAgree ==
  /\ op \notin {"WRITE", "UPDATE"} => ~dirty /\ size <= NRec * RecSize
  /\ op = "READ" => eof_record = size \div RecSize
  /\ op = "CLOSED" =>
       ~valid /\ \A a \in promised : a < (size \div RecSize) * RecSize

(* The inductive invariant.                                                *)
IInv ==
  /\ TypeOK
  /\ ModesAgree
  /\ PromisedBytesExist
  /\ EofCoversWrites
  /\ ReadErrors \/ CleanWindowIsOnDisk

(* BUF_VALID says that the window "holds real data": a clean valid window  *)
(* was filled from the file, so it starts before the file's end.           *)
ValidWindowHoldsFileData == valid /\ ~dirty => Base(blockno) < size
=============================================================================
