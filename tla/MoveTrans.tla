----------------------------- MODULE MoveTrans ------------------------------
(***************************************************************************)
(* v2_movetrans: copy the part of a record that both a source and a        *)
(* destination buffer hold, translating its pixels on the way.             *)
(*                                                                         *)
(* A record is `notrans' bytes of binary prefix, copied as they are, and   *)
(* then pixels, spix bytes each in the source and dpix in the destination. *)
(* A buffer holds len bytes of it from byte pos on.  A pixel that a        *)
(* buffer's edge cuts is put together over two calls in partpix.           *)
(*                                                                         *)
(* A byte is a tag and where it belongs: byte j of the prefix, byte k of   *)
(* pixel i before ("raw") or after ("cooked") its translation.             *)
(***************************************************************************)
EXTENDS Integers

CONSTANT Junk    \* a byte that is no part of the record

Raw(i, k) == <<"raw", i, k>>
Cooked(i, k) == <<"cooked", i, k>>
Prefix(j) == <<"prefix", j>>

MaxOf(a, b) == IF a < b THEN b ELSE a
MinOf(a, b) == IF a > b THEN b ELSE a
Ceiling(x, y) == (x + y - 1) \div y

(* Division and remainder of C, which truncate towards zero.               *)
Quot(a, b) == IF a >= 0 THEN a \div b ELSE -((-a) \div b)
Rem(a, b) == a - b * Quot(a, b)

-----------------------------------------------------------------------------
ByteAt(buf, i) == IF i \in DOMAIN buf THEN buf[i] ELSE Junk

(* v2_move: n bytes of src from `from' on go to dst from `to' on; nothing  *)
(* moves if n is not positive.                                             *)
Move(dst, to, src, from, n) ==
  [i \in DOMAIN dst |->
     IF to <= i /\ i < to + n THEN ByteAt(src, from + i - to) ELSE dst[i]]

(* The translation function t.transfn, applied to the pixel at byte `from' *)
(* of src: a pixel comes out right if all of it went in.                   *)
Translate(src, from, k, t) ==
  LET first == ByteAt(src, from)
      whole == /\ first[1] = "raw" /\ first[3] = 0
               /\ \A b \in 0 .. (t.spix - 1) :
                    ByteAt(src, from + b) = Raw(first[2], b)
  IN  IF whole THEN Cooked(first[2], k) ELSE Junk

(* n pixels of src from byte `from' on, translated into dst.               *)
TransFn(dst, to, src, from, n, t) ==
  [i \in DOMAIN dst |->
     IF to <= i /\ i < to + n * t.dpix
       THEN Translate(src, from + ((i - to) \div t.dpix) * t.spix,
                      (i - to) % t.dpix, t)
       ELSE dst[i]]

-----------------------------------------------------------------------------
(* Mutant: not clamped, a prefix is counted as pixels.                     *)
CutBeforeUnclamped(pos, pix, t) == Rem(pos - t.notrans, pix)

(* How many bytes of a pixel come before pos.                              *)
CutBefore(pos, pix, t) == MaxOf(pos - t.notrans, 0) % pix

(* Where things are: the overlap in whole pixels, and the bytes of partial *)
(* pixels at the edges of either buffer.                                   *)
Geometry(s, d, t) ==
  LET sPrefix == MaxOf(t.notrans - s.pos, 0)   \* prefix bytes after pos
      dPrefix == MaxOf(t.notrans - d.pos, 0)
      sFirst  == Ceiling(MaxOf(s.pos - t.notrans, 0), t.spix)
      dFirst  == Ceiling(MaxOf(d.pos - t.notrans, 0), t.dpix)
      sCut    == CutBefore(s.pos, t.spix, t)
      dCut    == CutBefore(d.pos, t.dpix, t)
      sStart  == IF sCut = 0 THEN 0 ELSE t.spix - sCut
      dStart  == IF dCut = 0 THEN 0 ELSE t.dpix - dCut
      start   == MaxOf(sFirst, dFirst)
      end     == MinOf(sFirst + Quot(s.len - sPrefix, t.spix),
                       dFirst + Quot(d.len - dPrefix, t.dpix))
  IN  [len       |-> end - start,
       sstart    |-> start * t.spix + t.notrans - s.pos,
       dstart    |-> start * t.dpix + t.notrans - d.pos,
       slength   |-> (end - start) * t.spix,
       dlength   |-> (end - start) * t.dpix,
       extrasst  |-> sStart,
       extradst  |-> dStart,
       extrasend |-> Rem(s.len - sPrefix - sStart, t.spix),
       extradend |-> Rem(d.len - dPrefix - dStart, t.dpix)]

Extras(g) ==
  {x \in {"extrasst", "extradst", "extrasend", "extradend"} : g[x] # 0}

(* A state of the copy: the destination's bytes, the partial pixel and how *)
(* much of it has been seen, and the status.                               *)
State(bytes, pp) ==
  [bytes |-> bytes, pplen |-> pp.pplen, pix |-> pp.pix, status |-> "SUCCESS"]

Fails(m) == [m EXCEPT !.status = "INTERNAL_ERROR"]

MovePrefix(m, s, d, t) ==
  LET start == MaxOf(s.pos, d.pos)
      end   == MinOf(t.notrans, MinOf(s.pos + s.len, d.pos + d.len))
  IN  [m EXCEPT !.bytes = Move(@, start - d.pos, s.bytes, start - s.pos, end - start)]

MovePixels(m, s, g, t) ==
  [m EXCEPT !.bytes = TransFn(@, g.dstart, s.bytes, g.sstart, g.len, t)]

(* n bytes of a partial pixel have been seen.                              *)
FirstPart(m, pix, n) == State(m.bytes, [pplen |-> n, pix |-> pix])

(* The rest of a pixel of the source has been seen: it goes to byte `to'.  *)
SecondPart(m, pix, n, to, t) ==
  IF m.pplen + n # t.spix THEN Fails(m)
  ELSE State(TransFn(m.bytes, to, pix, 0, 1, t), [pplen |-> m.pplen, pix |-> pix])

(* Mutant: the end of the pixel is put at its start.                       *)
SourceStartAtZero(m, s, g, t) ==
  LET pix == Move(m.pix, 0, s.bytes, g.sstart - g.extrasst, g.extrasst)
  IN  IF m.pplen = 0 THEN FirstPart(m, pix, g.extrasst)
      ELSE SecondPart(m, pix, g.extrasst, g.dstart - t.dpix, t)

(* The end of a pixel at the start of the source, if it fits the           *)
(* destination.                                                            *)
SourceStart(m, s, g, t) ==
  LET pix == Move(m.pix, t.spix - g.extrasst, s.bytes, g.sstart - g.extrasst, g.extrasst)
  IN  IF m.pplen = 0 THEN FirstPart(m, pix, g.extrasst)
      ELSE SecondPart(m, pix, g.extrasst, g.dstart - t.dpix, t)

(* The first part of a pixel at the end of the source.                     *)
SourceEnd(m, s, g, t) ==
  LET pix == Move(m.pix, 0, s.bytes, g.sstart + g.slength, g.extrasend)
  IN  IF m.pplen = 0 THEN FirstPart(m, pix, g.extrasend)
      ELSE SecondPart(m, pix, g.extrasend, g.dstart + g.dlength, t)

(* n bytes of a translated pixel, from byte k of it on, go to byte `to':   *)
(* the pixel at byte `from' of the source, or the one that an earlier call *)
(* has put in partpix.                                                     *)
PartOfPixel(m, s, from, n, k, to, t) ==
  LET seen == IF m.pplen = 0
                THEN FirstPart(m, TransFn(m.pix, 0, s.bytes, from, 1, t), n) ELSE m
  IN  IF m.pplen # 0 /\ m.pplen + n # t.dpix THEN Fails(m)
      ELSE State(Move(seen.bytes, to, seen.pix, k, n), seen)

(* The end of a pixel at the start of the destination.                     *)
DestStart(m, s, g, t) ==
  PartOfPixel(m, s, g.sstart - t.spix, g.extradst, t.dpix - g.extradst,
              g.dstart - g.extradst, t)

(* The first part of a pixel at the end of the destination.                *)
DestEnd(m, s, g, t) ==
  PartOfPixel(m, s, g.sstart + g.slength, g.extradend, 0, g.dstart + g.dlength, t)

(* At most one buffer cuts a pixel, and at one end.                        *)
MovePartial(m, s, d, g, t) ==
  IF Extras(g) = {"extrasst"} /\ g.dstart - t.dpix >= 0 THEN SourceStart(m, s, g, t)
  ELSE IF Extras(g) = {"extrasend"} /\ g.dstart + g.dlength + t.dpix < d.len
    THEN SourceEnd(m, s, g, t)
  ELSE IF Extras(g) = {"extradst"} /\ g.sstart - t.spix >= 0 THEN DestStart(m, s, g, t)
  ELSE IF Extras(g) = {"extradend"} THEN DestEnd(m, s, g, t)
  ELSE m

MoveTranslated(m, s, d, g, t) ==
  IF g.len < 0 THEN m
  ELSE IF \E x, y \in Extras(g) : x # y THEN Fails(MovePixels(m, s, g, t))
  ELSE MovePartial(MovePixels(m, s, g, t), s, d, g, t)

MoveBytes(m, s, d) ==
  LET start == MaxOf(s.pos, d.pos)
      end   == MinOf(s.pos + s.len, d.pos + d.len)
  IN  [m EXCEPT !.bytes = Move(@, start - d.pos, s.bytes, start - s.pos, end - start)]

(* s and d are buffers: their bytes, and the part of the record they hold. *)
MoveTrans(s, d, t, pp) ==
  IF ~t.translates THEN MoveBytes(State(d.bytes, pp), s, d)
  ELSE MoveTranslated(MovePrefix(State(d.bytes, pp), s, d, t), s, d,
                      Geometry(s, d, t), t)
=============================================================================
