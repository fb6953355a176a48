--------------------------- MODULE PixelTransfer ----------------------------
(***************************************************************************)
(* One call of zvread or zvwrit on a record whose pixels are translated,   *)
(* from the samples asked for to the bytes that arrive.                    *)
(*                                                                         *)
(* c_xvread and c_xvwrit turn samples into bytes of the caller's view of   *)
(* the record; v2_read_rec and v2_write_rec pass the record to             *)
(* v2_movetrans whole, or in two parts that two windows of the buffer      *)
(* hold, the first part first or last.                                     *)
(***************************************************************************)
EXTENDS MoveTrans, Sequences, FiniteSets

CONSTANTS
  Old,        \* a byte of a destination before the call
  Jobs,       \* the calls there may be, see JobsAreCalls
  MaxPixel,   \* bytes in partpix (MAX_PIXEL_SIZE)
  NoJob       \* no call is being made

(* write: zvwrit or zvread; nbb: bytes of binary prefix; fpix, upix: bytes *)
(* in a pixel of the file and of the caller; n1: pixels in a record; samp, *)
(* nsamps: SAMP and NSAMPS, 0 if not given; binary: whether COND says      *)
(* BINARY; translates: whether the formats differ; pieces: the parts of    *)
(* the record that are moved, in order; cut: bytes in its first part.      *)
Parts == {<<"whole">>, <<"first", "last">>, <<"last", "first">>, <<"last", "whole">>}

RecLen(j) == j.nbb + j.n1 * j.fpix

(* A window starts and ends at multiples of the block size, a power of two *)
(* that is no smaller than a pixel, records at multiples of their length;  *)
(* so only a prefix that is no whole number of pixels lets a window cut a  *)
(* pixel in two.                                                           *)
PossibleCut(j) == \E r \in 0 .. (j.fpix - 1) : (j.cut + r * j.nbb) % j.fpix = 0

ASSUME BytesAreSmall == MaxPixel \in Nat \ {0} /\ NoJob \notin Jobs

ASSUME JobsAreCalls ==
  \A j \in Jobs :
    /\ {j.write, j.binary, j.translates} \subseteq BOOLEAN
    /\ j.nbb \in Nat /\ j.n1 \in Nat \ {0}
    /\ {j.fpix, j.upix} \subseteq 1 .. MaxPixel
    /\ j.translates \/ j.fpix = j.upix
    /\ j.samp \in 0 .. (j.n1 + (IF j.binary THEN j.nbb ELSE 0))
    /\ j.nsamps \in 0 .. (j.n1 + j.nbb)
    /\ j.pieces \in Parts
    /\ j.cut \in 1 .. (RecLen(j) - 1) /\ PossibleCut(j)

VARIABLES
  job,     \* the call being made
  todo,    \* the parts of the record still to be moved
  out,     \* what has arrived, in each destination buffer
  partial, \* pplen and partpix
  status

vars == <<job, todo, out, partial, status>>

-----------------------------------------------------------------------------
(* From samples to bytes.                                                  *)

(* A sample number counts the bytes of the prefix if the call asks for     *)
(* them, and else starts after them.                                       *)
FirstSample(j) ==
  LET prefix == IF j.binary THEN 0 ELSE j.nbb
  IN  IF j.samp = 0 THEN prefix ELSE j.samp - 1 + prefix

StartByte(j) ==
  LET ssbin == MinOf(j.nbb, FirstSample(j))
  IN  IF j.samp = 0 THEN FirstSample(j)
      ELSE ssbin + MaxOf(FirstSample(j) - ssbin, 0) * j.upix

(* Mutant: samples of the prefix taken to be as long as pixels.            *)
NBytesWide(j) ==
  IF j.nsamps = 0
    THEN j.n1 * j.upix + (IF j.binary THEN j.nbb ELSE 0)
    ELSE j.nsamps * j.upix

NBytes(j) ==
  LET ss    == FirstSample(j)
      nsbin == MaxOf(MinOf(j.nbb, ss + j.nsamps) - ss, 0)
  IN  IF j.nsamps = 0
        THEN j.n1 * j.upix + (IF j.binary THEN j.nbb ELSE 0)
        ELSE nsbin + MaxOf(j.nsamps - nsbin, 0) * j.upix

-----------------------------------------------------------------------------
(* The buffers.                                                            *)

PartOf(j, part) ==
  CASE part = "whole" -> [pos |-> 0, len |-> RecLen(j)]
    [] part = "first" -> [pos |-> 0, len |-> j.cut]
    [] part = "last"  -> [pos |-> j.cut, len |-> RecLen(j) - j.cut]

Request(j) == [pos |-> StartByte(j), len |-> NBytes(j)]

(* Byte b of a record whose pixels take pix bytes.                         *)
RecordByte(b, nbb, pix) ==
  IF b < nbb THEN Prefix(b) ELSE Raw((b - nbb) \div pix, (b - nbb) % pix)

Full(place, nbb, pix) ==
  [pos |-> place.pos, len |-> place.len,
   bytes |-> [i \in 0 .. (place.len - 1) |-> RecordByte(place.pos + i, nbb, pix)]]

(* A destination has room around it in which nothing may change.           *)
Blank(place) == [i \in -MaxPixel .. (place.len + MaxPixel - 1) |-> Old]

Into(place, bytes) == [pos |-> place.pos, len |-> place.len, bytes |-> bytes]

Buffers(j) ==
  IF ~j.write THEN [user |-> Blank(Request(j))]
  ELSE [part \in {j.pieces[n] : n \in DOMAIN j.pieces} |-> Blank(PartOf(j, part))]

NothingPartial == [pplen |-> 0, pix |-> [i \in 0 .. (MaxPixel - 1) |-> Junk]]

-----------------------------------------------------------------------------
Init ==
  /\ job = NoJob
  /\ todo = <<>>
  /\ out = [user |-> <<>>]
  /\ partial = NothingPartial
  /\ status = "SUCCESS"

Call(j) ==
  /\ job = NoJob
  /\ job' = j
  /\ todo' = j.pieces
  /\ out' = Buffers(j)
  /\ partial' = NothingPartial
  /\ status' = "SUCCESS"

(* One call of v2_movetrans, from what it leaves to what the next finds.   *)
Moved(dest, m) ==
  /\ out' = [out EXCEPT ![dest] = m.bytes]
  /\ partial' = [pplen |-> m.pplen, pix |-> m.pix]
  /\ status' = m.status
  /\ todo' = Tail(todo)
  /\ UNCHANGED job

Moving == job # NoJob /\ todo # <<>> /\ status = "SUCCESS"

(* v2_read_rec: out of the window, in the file's format, into the caller's *)
(* buffer.                                                                 *)
ReadPart ==
  /\ Moving
  /\ ~job.write
  /\ Moved("user",
       MoveTrans(Full(PartOf(job, Head(todo)), job.nbb, job.fpix),
                 Into(Request(job), out["user"]),
                 [spix |-> job.fpix, dpix |-> job.upix, notrans |-> job.nbb,
                  translates |-> job.translates],
                 partial))

(* v2_write_rec: out of the caller's buffer into the window.               *)
WritePart ==
  /\ Moving
  /\ job.write
  /\ Moved(Head(todo),
       MoveTrans(Full(Request(job), job.nbb, job.upix),
                 Into(PartOf(job, Head(todo)), out[Head(todo)]),
                 [spix |-> job.upix, dpix |-> job.fpix, notrans |-> job.nbb,
                  translates |-> job.translates],
                 partial))

Done == job # NoJob /\ (todo = <<>> \/ status # "SUCCESS")

Return ==
  /\ Done
  /\ job' = NoJob
  /\ todo' = <<>>
  /\ out' = [user |-> <<>>]
  /\ partial' = NothingPartial
  /\ status' = "SUCCESS"

Next == (\E j \in Jobs : Call(j)) \/ ReadPart \/ WritePart \/ Return

Spec == Init /\ [][Next]_vars

-----------------------------------------------------------------------------
(* What should arrive.  The units of a record are its prefix's bytes and   *)
(* its pixels.                                                             *)

Units(j) == 0 .. (j.nbb + j.n1 - 1)
IsPixel(j, u) == u >= j.nbb
Visible(j) == {u \in Units(j) : j.binary \/ IsPixel(j, u)}

(* The units of the samples asked for: all, or from the samp'th on, or     *)
(* nsamps of them.                                                         *)
Asked(j) ==
  {u \in Visible(j) :
     LET number == Cardinality({v \in Visible(j) : v <= u})
     IN  /\ number >= j.samp
         /\ j.nsamps # 0 => number < MaxOf(j.samp, 1) + j.nsamps}

Width(j, u, pix) == IF IsPixel(j, u) THEN pix ELSE 1

(* Where a unit lies when those in S are laid out one after the other.     *)
Offset(j, u, S, pix) ==
  Cardinality({v \in S : v < u /\ ~IsPixel(j, v)})
    + pix * Cardinality({v \in S : v < u /\ IsPixel(j, v)})

Wanted(j, u, k) ==
  IF ~IsPixel(j, u) THEN Prefix(u)
  ELSE IF j.translates THEN Cooked(u - j.nbb, k) ELSE Raw(u - j.nbb, k)

(* Buf holds, from byte `shift' of S on, the units in Some and nothing     *)
(* else.                                                                   *)
Holds(j, buf, S, Some, shift, pix) ==
  \A i \in DOMAIN buf :
    LET here == {x \in Some \X (0 .. (pix - 1)) :
                   x[2] < Width(j, x[1], pix) /\ Offset(j, x[1], S, pix) + x[2] = i + shift}
    IN  buf[i] = IF here = {} THEN Old
                 ELSE LET uk == CHOOSE x \in here : TRUE IN Wanted(j, uk[1], uk[2])

(* The part of a buffer between the bytes in which nothing may change.     *)
Room(place, buf) == [i \in 0 .. (place.len - 1) |-> buf[i]]

-----------------------------------------------------------------------------
(* Calls for which the code does what it should.                           *)

InRecord(j) ==
  MaxOf(j.samp, 1) + j.nsamps - 1 <= j.n1 + (IF j.binary THEN j.nbb ELSE 0)

(* The pixel of the file that the windows cut in two, if they do.          *)
CutsAPixel(j) ==
  /\ j.translates
  /\ j.pieces \in {<<"first", "last">>, <<"last", "first">>}
  /\ j.cut > j.nbb /\ (j.cut - j.nbb) % j.fpix # 0

CutPixel(j) == j.nbb + (j.cut - j.nbb) \div j.fpix

(* Samples of a record with its prefix that start after the first one and  *)
(* are not counted.                                                        *)
RunsToTheEnd(j) == j.binary /\ j.samp > 1 /\ j.nsamps = 0

(* Samples that end in the prefix.                                         *)
EndsInPrefix(j) == \A u \in Asked(j) : ~IsPixel(j, u)

(* The cut pixel is the last to be read, or comes after the last to be     *)
(* written.                                                                *)
ReadEndsAtTheCut(j) ==
  CutPixel(j) \in Asked(j) /\ \A u \in Asked(j) : u <= CutPixel(j)
WriteEndsBeforeTheCut(j) == \A u \in Asked(j) : u < CutPixel(j)

EndsAtTheCut(j) ==
  CutsAPixel(j) /\ (IF j.write THEN WriteEndsBeforeTheCut(j) ELSE ReadEndsAtTheCut(j))

Sound(j) == InRecord(j) /\ ~RunsToTheEnd(j) /\ ~EndsInPrefix(j) /\ ~EndsAtTheCut(j)

-----------------------------------------------------------------------------
TypeOK ==
  /\ job \in Jobs \cup {NoJob}
  /\ partial.pplen \in (1 - MaxPixel) .. (MaxPixel - 1)
  /\ DOMAIN partial.pix = 0 .. (MaxPixel - 1)
  /\ status \in {"SUCCESS", "INTERNAL_ERROR"}

(* "This routine copies the portion of the record that is in both the      *)
(* source and destination buffer" (v2_movetrans): after a call that        *)
(* succeeds each sample asked for has arrived, translated, in its place,   *)
(* however the record was cut in two, and nothing else has changed.        *)
CopiesTheOverlap ==
  Done /\ status = "SUCCESS" =>
    IF ~job.write
      THEN Holds(job, out["user"], Asked(job), Asked(job), 0, job.upix)
      ELSE \A part \in DOMAIN out :
             LET place == PartOf(job, part)
             IN  /\ Holds(job, Room(place, out[part]), Units(job), Asked(job),
                          place.pos, job.fpix)
                 /\ \A i \in DOMAIN out[part] \ (0 .. (place.len - 1)) :
                      out[part][i] = Old

(* "# of partial pixel problems... cannot be > 1" and "Shouldn't happen!"  *)
(* (v2_movetrans): no call meets a copy that it takes to be impossible.    *)
NoInternalError == status = "SUCCESS"
=============================================================================
