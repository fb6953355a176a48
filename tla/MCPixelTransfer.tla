-------------------------- MODULE MCPixelTransfer ---------------------------
(* Small instances of PixelTransfer: every cut of short records, every     *)
(* range of samples that lies in the record.                               *)
EXTENDS PixelTransfer

CONSTANTS Prefixes, PixelSizes, Pixels

MCJunk == <<"junk">>
MCOld == <<"old">>

MaxOfSet(S) == CHOOSE x \in S : \A y \in S : y <= x
Samples == 0 .. (MaxOfSet(Pixels) + MaxOfSet(Prefixes))

AllJobs ==
  {j \in [write : BOOLEAN, binary : BOOLEAN, translates : BOOLEAN,
          nbb : Prefixes, fpix : PixelSizes, upix : PixelSizes, n1 : Pixels,
          samp : Samples, nsamps : Samples, pieces : Parts,
          cut : 1 .. (MaxOfSet(Prefixes) + MaxOfSet(Pixels) * MaxOfSet(PixelSizes) - 1)] :
     /\ j.samp <= j.n1 + (IF j.binary THEN j.nbb ELSE 0)
     /\ j.cut < RecLen(j) /\ PossibleCut(j)
     /\ j.translates \/ j.fpix = j.upix
     /\ InRecord(j)}

-----------------------------------------------------------------------------
(* Which jobs a run takes: those that come out right, or some of those     *)
(* that do not.                                                            *)

SoundJobs == {j \in AllJobs : Sound(j)}

Plain(j) == ~RunsToTheEnd(j) /\ ~EndsInPrefix(j)

ReadUpToTheCut    == {j \in AllJobs : Plain(j) /\ EndsAtTheCut(j) /\ ~j.write}
WriteBeforeTheCut == {j \in AllJobs : Plain(j) /\ EndsAtTheCut(j) /\ j.write}
PrefixAlone       == {j \in AllJobs : EndsInPrefix(j) /\ ~RunsToTheEnd(j)}
=============================================================================
