------------------------------ MODULE ImageFile ------------------------------
(***************************************************************************)
(* A labelled image through one unit of the VICAR run-time library: the    *)
(* label before the image, what does not fit there after it (the EOL       *)
(* label), the label in memory that the xl calls edit, and the close that  *)
(* writes it back.                                                         *)
(*                                                                         *)
(* The file is a sequence of records, read and written through the record  *)
(* buffer, which RecordBuffer shows to be such a file.  Text is measured   *)
(* in units, one to an item; a record holds PerRec of them.                *)
(***************************************************************************)
EXTENDS Integers, Sequences, SequencesExt

CONSTANTS
  PerRec,        \* items that a record has room for
  N2, N3,        \* lines and bands of the image (BSQ)
  Names,         \* label items that a caller adds
  Task,          \* the history task that UPD_HIST adds
  NewLabels,     \* labels that an output file may start with
  Data,          \* what a caller writes to a line
  MaxText,       \* bound: items of a label
  Failures,      \* which steps may fail: "line", a write of a line; "eolsize",
                 \* the look for the EOL label's size at the open; "format", the
                 \* second half of an edit; "front" and "split", the rewriting of
                 \* a label that fits its space and of one that does not; "flush"
                 \* and "rewritten", the close that has not and has rewritten it
  UnreadRewrites \* TRUE iff a caller may rewrite a line before it has read one

(* What may stand in a record: items, the size item of the EOL label, and  *)
(* what a line holds.                                                      *)
Texts == {"SYS", "SIZE", Task, "old"} \cup Names \cup Data

ASSUME LayoutIsSane ==
  /\ PerRec \in Nat /\ PerRec > 1
  /\ {N2, N3} \subseteq Nat \ {0}
  /\ Failures \subseteq {"line", "eolsize", "format", "front", "split", "flush", "rewritten"}
  /\ UnreadRewrites \in BOOLEAN
  /\ MaxText \in Nat
  /\ NewLabels \subseteq Seq(Texts)
  /\ \A items \in NewLabels :
       items # <<>> /\ items[1] = "SYS" /\ Len(items) <= MaxText

VARIABLES
  file,      \* the file's records
  front,     \* LBLSIZE, in records
  op,        \* OP of the open unit, or "CLOSED"
  eol,       \* EOL: the label read at the open goes on behind the image
  eol_size,  \* EOL_SIZE, in records
  labels,    \* LABELS, the label in memory; <<>> is NULL
  modified,  \* LABELS_MODIFIED
  img_rec,   \* IMG_REC
  result     \* what the last call returned, and delivered

unit == <<op, eol, eol_size, labels, modified>>
vars == <<file, front, unit, img_rec, result>>

(* A record: text, and a number that its first item carries (EOL in the    *)
(* label's first record, the size of the EOL label in its own).            *)
Rec(text, note) == [text |-> text, note |-> note]
Hole == Rec(<<>>, 0)

At(f, r) == IF r <= Len(f) THEN f[r] ELSE Hole

(* v2_write_rec, as RecordFile has it: a file grows as far as is needed.   *)
Put(f, r, rec) == [k \in 1 .. Max({Len(f), r}) |-> IF k = r THEN rec ELSE At(f, k)]

(* ftruncate(2).                                                           *)
Truncated(f, n) == [k \in 1 .. n |-> At(f, k)]

NImage == N2 * N3

Returned(status, line) == [status |-> status, line |-> line]
Done == Returned("SUCCESS", Hole)

-----------------------------------------------------------------------------
(* Labels and their records.                                               *)

RecsFor(n) == (n + PerRec - 1) \div PerRec

(* A plausible bug: an item too many.                                      *)
PartOverrun(text, i) == SubSeq(text, (i - 1) * PerRec + 1, Min({i * PerRec + 1, Len(text)}))

(* The i-th record of a text, which ends where the text does.              *)
PartOf(text, i) == SubSeq(text, (i - 1) * PerRec + 1, Min({i * PerRec, Len(text)}))

Records(text, n, note) ==
  [i \in 1 .. n |-> Rec(PartOf(text, i), IF i = 1 THEN note ELSE 0)]

(* The string in some records, up to the first that is not full.           *)
LastOf(recs) == Min({k \in DOMAIN recs : Len(recs[k].text) < PerRec} \cup {Len(recs)})

TextOf(recs) ==
  LET last == LastOf(recs)
  IN  IF recs = <<>> THEN <<>>
      ELSE [i \in 1 .. ((last - 1) * PerRec + Len(recs[last].text)) |->
              recs[((i - 1) \div PerRec) + 1].text[((i - 1) % PerRec) + 1]]

FirstEol == front + NImage + 1

(* v2_get_eol_size.                                                        *)
EolSize(flag) == IF flag THEN At(file, FirstEol).note ELSE eol_size

(* v2_read_in_labels: both parts, without the size that the second begins  *)
(* with.                                                                   *)
ReadIn(flag) ==
  LET part(first, n) == TextOf([k \in 1 .. n |-> At(file, first + k - 1)])
      behind == part(FirstEol, EolSize(flag))
  IN  IF flag THEN part(1, front) \o SubSeq(behind, 2, Len(behind)) ELSE part(1, front)

InMemory == IF labels = <<>> THEN ReadIn(eol) ELSE labels

-----------------------------------------------------------------------------
(* zvopen.                                                                 *)

(* For input: the EOL flag comes with the system label; an update learns   *)
(* the size of the EOL label, which the close needs (whether it could is   *)
(* not asked), and may add a task.                                         *)
OpenInput(mode, hist) ==
  /\ op = "CLOSED"
  /\ op' = mode
  /\ eol' = (file[1].note = 1)
  /\ eol_size' \in IF mode = "UPDATE"
                  THEN {EolSize(eol')} \cup {n \in {0} : "eolsize" \in Failures}
                  ELSE {0}
  /\ labels' = IF hist THEN Append(ReadIn(eol'), Task) ELSE <<>>
  /\ Len(labels') <= MaxText
  /\ modified' = hist
  /\ img_rec' = 0
  /\ result' = Done
  /\ UNCHANGED <<file, front>>

(* v2_create_output_label: the label takes the records it needs.  What     *)
(* else the file held stays until the close.                               *)
OpenOutput(items) ==
  /\ op = "CLOSED"
  /\ op' = "WRITE"
  /\ front' = RecsFor(Len(items))
  /\ file' = LET new == Records(items, front', 0)
             IN  [k \in 1 .. Max({Len(file), front'}) |->
                    IF k <= front' THEN new[k] ELSE file[k]]
  /\ eol' = FALSE
  /\ eol_size' = 0
  /\ labels' = <<>>
  /\ modified' = FALSE
  /\ img_rec' = 0
  /\ result' = Done

-----------------------------------------------------------------------------
(* The xl calls: the first one reads the label into memory.                *)

(* zlget, zlinfo, zlninfo, zlhinfo, zlpinfo.                               *)
LabelLook ==
  /\ op # "CLOSED"
  /\ labels = <<>>
  /\ labels' = ReadIn(eol)
  /\ eol_size' = EolSize(eol)
  /\ result' = Done
  /\ UNCHANGED <<file, front, op, eol, modified, img_rec>>

(* An edit is of two steps when it replaces an item, or adds one to a new  *)
(* property; if the second fails, what the first did stays, and is not     *)
(* marked as a modification.                                               *)
Edited(text) ==
  /\ op \in {"WRITE", "UPDATE"}
  /\ labels' = text
  /\ eol_size' = IF labels = <<>> THEN EolSize(eol) ELSE eol_size
  /\ \E ok \in {TRUE} \cup {b \in {FALSE} : "format" \in Failures} :
       /\ modified' = (modified \/ ok)
       /\ result' = IF ok THEN Done ELSE Returned("FORMAT_OPTIONAL_REQUIRED", Hole)
  /\ UNCHANGED <<file, front, op, eol, img_rec>>

(* zladd: anywhere behind the system label's first item.                   *)
LabelAdd(k, name) ==
  /\ Len(InMemory) < MaxText
  /\ Edited(InsertAt(InMemory, k, name))

(* zldel.                                                                  *)
LabelDelete(k) == Edited(RemoveAt(InMemory, k))

-----------------------------------------------------------------------------
(* zvread and zvwrit.  A slice is a LINE and a BAND, 0 when not given.     *)

Slices == (0 .. (N2 + 1)) \X (0 .. N3)

NoSlice(slice) == slice = <<0, 0>>
Refused(slice) == (slice[2] = 0 /\ slice[1] # 0 /\ N3 # 1) \/ (slice[2] # 0 /\ slice[1] = 0)

Named(slice, next) ==
  CASE NoSlice(slice)                  -> next
    [] slice[2] = 0 /\ slice[1] # 0   -> slice[1]
    [] slice[2] # 0                    -> N2 * (slice[2] - 1) + slice[1]

(* A plausible bug: one line more than there are.                          *)
PastEndByTwo(n) == n > NImage + 1

PastEnd(n) == n > NImage

(* A call that returns before it transfers anything.                       *)
Return(status) ==
  /\ result' = Returned(status, Hole)
  /\ UNCHANGED <<file, front, unit, img_rec>>

ReadLine(slice) ==
  /\ op \in {"READ", "UPDATE"}
  /\ LET n == Named(slice, img_rec + 1) IN
     \/ Refused(slice) /\ Return("START_REC_ERROR")
     \/ ~Refused(slice) /\ PastEnd(n) /\ Return("END_OF_FILE")
     \/ /\ ~Refused(slice) /\ ~PastEnd(n)
        /\ img_rec' = n
        /\ result' = Returned("SUCCESS", At(file, front + n))
        /\ UNCHANGED <<file, front, unit>>

(* Without a slice an update rewrites the line that was read last.  The    *)
(* end of the image is looked for in updates only.                         *)
WriteLine(slice, d) ==
  /\ op \in {"WRITE", "UPDATE"}
  /\ LET n == Named(slice, IF op = "UPDATE" THEN img_rec ELSE img_rec + 1)
         written == Put(file, front + n, Rec(<<d>>, 0))
     IN
     \/ Refused(slice) /\ Return("START_REC_ERROR")
     \/ ~Refused(slice) /\ op = "UPDATE" /\ PastEnd(n) /\ Return("END_OF_FILE")
     \/ /\ ~Refused(slice) /\ n <= NImage + 1
        /\ op = "UPDATE" => ~PastEnd(n)
        /\ n > 0 \/ UnreadRewrites
        /\ img_rec' = n
        /\ \/ file' = written /\ result' = Done
           \/ /\ "line" \in Failures
              /\ file' \in {file, written}
              /\ result' = Returned("IO_ERROR", Hole)
        /\ UNCHANGED <<front, unit>>

-----------------------------------------------------------------------------
(* v2_check_out_lbl_on_close.                                              *)

Room == front * PerRec

Splits == Len(labels) >= Room

(* A plausible bug: the label's memory is given back on failure, too.      *)
MainGivenBack == <<>>

(* v2_place_cut: the last item that would fit goes behind the image, too.  *)
Main == IF Splits THEN SubSeq(labels, 1, Room - 1) ELSE labels

EolText == <<"SIZE">> \o SubSeq(labels, Room, Len(labels))

EolRecs == IF Splits THEN RecsFor(Len(EolText)) ELSE 0

(* The records to write, in order, and where.                              *)
Rewritten ==
  Records(Main, front, IF Splits THEN 1 ELSE 0)
    \o (IF Splits THEN Records(EolText, EolRecs, EolRecs) ELSE <<>>)

(* A plausible bug: the image is forgotten.                                *)
PlaceBehindLabel(i) == i

Place(i) == IF i <= front THEN i ELSE FirstEol + (i - front - 1)

(* The file once the first n of them are written.                          *)
AfterWriting(n) ==
  LET placed == {i \in 1 .. n : TRUE}
      last == Max({Len(file)} \cup {Place(i) : i \in placed})
      new(k) == {i \in placed : Place(i) = k}
  IN  [k \in 1 .. last |-> IF new(k) = {} THEN At(file, k)
                           ELSE Rewritten[CHOOSE i \in new(k) : TRUE]]

Rewrites == op \in {"WRITE", "UPDATE"} /\ modified

(* A plausible bug: the file ends with the image.                          *)
FinalSizeOfImage(eols) == front + NImage

(* v2_finish_file.                                                         *)
FinalSize(eols) == front + NImage + eols

Ended ==
  /\ op' = "CLOSED"
  /\ eol' = FALSE
  /\ eol_size' = 0
  /\ labels' = <<>>
  /\ modified' = FALSE
  /\ img_rec' = 0
  /\ result' = Done
  /\ UNCHANGED front

CloseOnly ==
  /\ op # "CLOSED" /\ ~Rewrites
  /\ file' = IF op = "READ" THEN file ELSE Truncated(file, FinalSize(eol_size))
  /\ Ended

CloseAndRewrite ==
  /\ Rewrites /\ labels # <<>>
  /\ file' = Truncated(AfterWriting(Len(Rewritten)),
                       FinalSize(IF Splits THEN EolRecs ELSE eol_size))
  /\ Ended

Failed ==
  /\ result' = Returned("IO_ERROR", Hole)
  /\ UNCHANGED <<front, op, eol, modified, img_rec>>

(* After n records one cannot be written, or is and fails later.  What     *)
(* has been split off is freed then, and was cut out of the label in       *)
(* memory before.                                                          *)
RewriteFails ==
  /\ Rewrites /\ labels # <<>>
  /\ (IF Splits THEN "split" ELSE "front") \in Failures
  /\ \E n \in 0 .. (Len(Rewritten) - 1) :
       /\ file' \in {AfterWriting(n), AfterWriting(n + 1)}
       /\ eol_size' = IF n >= front THEN EolRecs ELSE eol_size
  /\ labels' = Main
  /\ Failed

(* v2_close_file fails.  If the label has been rewritten before, its       *)
(* memory is gone by then, but the flag that has it rewritten is not.      *)
CloseFails ==
  /\ op # "CLOSED"
  /\ Rewrites => labels # <<>>
  /\ (IF Rewrites THEN "rewritten" ELSE "flush") \in Failures
  /\ file' = IF Rewrites THEN AfterWriting(Len(Rewritten)) ELSE file
  /\ eol_size' = IF Rewrites /\ Splits THEN EolRecs ELSE eol_size
  /\ labels' = IF Rewrites THEN <<>> ELSE labels
  /\ Failed

-----------------------------------------------------------------------------
(* The file that is there at the start: labelled, and closed.              *)
Init ==
  /\ \E items \in NewLabels :
       /\ front = RecsFor(Len(items))
       /\ file = Records(items, front, 0) \o [n \in 1 .. NImage |-> Rec(<<"old">>, 0)]
  /\ op = "CLOSED"
  /\ eol = FALSE
  /\ eol_size = 0
  /\ labels = <<>>
  /\ modified = FALSE
  /\ img_rec = 0
  /\ result = Done

Next ==
  \/ \E mode \in {"READ", "UPDATE"} : OpenInput(mode, FALSE)
  \/ OpenInput("UPDATE", TRUE)
  \/ \E items \in NewLabels : OpenOutput(items)
  \/ LabelLook
  \/ \E name \in Names, k \in 2 .. (Len(InMemory) + 1) : LabelAdd(k, name)
  \/ \E k \in 2 .. Len(InMemory) : LabelDelete(k)
  \/ \E slice \in Slices : ReadLine(slice)
  \/ \E slice \in Slices, d \in Data : WriteLine(slice, d)
  \/ CloseOnly
  \/ CloseAndRewrite
  \/ RewriteFails
  \/ CloseFails

Spec == Init /\ [][Next]_vars

-----------------------------------------------------------------------------
(* Every record has room for its text, and the sizes that the open reads   *)
(* from the file are such as the close can have written there.             *)
TypeOK ==
  /\ op \in {"CLOSED", "READ", "WRITE", "UPDATE"}
  /\ front \in 1 .. RecsFor(MaxText)
  /\ \A k \in DOMAIN file :
       /\ file[k].text \in Seq(Texts) /\ Len(file[k].text) <= PerRec
       /\ file[k].note \in 0 .. RecsFor(MaxText + 1)
  /\ eol \in BOOLEAN /\ modified \in BOOLEAN
  /\ eol_size \in 0 .. RecsFor(MaxText + 1)
  /\ labels \in Seq(Texts) /\ Len(labels) <= MaxText
  /\ img_rec \in 0 .. (NImage + 1)

(* The label as the next xl call of the unit, or of the next to open the   *)
(* file, will find it; and the lines.                                      *)
Label == IF op = "CLOSED" THEN ReadIn(file[1].note = 1) ELSE InMemory

Promise == INSTANCE LabelledImage WITH
  label <- Label, lines <- [n \in 1 .. NImage |-> At(file, front + n)], at <- img_rec

(* check_out_lbl_on_close.c:7-9: a modified label "has been retained in    *)
(* memory" for the close to write back.  One that fails leaves the unit    *)
(* open, and the label must still be there for the next.                   *)
FailedCloseKeepsLabel ==
  [][op # "CLOSED" /\ result'.status = "IO_ERROR" => Label' = Label]_vars

(* The label is what the caller has made of it, wherever its parts are:    *)
(* in memory, in front of the image, or behind it.  Splitting, writing     *)
(* back, opening again and cutting the file to its size neither lose nor   *)
(* change an item or a line; image calls reach lines only, and a pass      *)
(* ends with the image and not in the label behind it.                     *)
Implements == Promise!Spec

(* Whatever becomes of the label, and whichever calls fail, a step of an   *)
(* open unit leaves every line alone but the one that is read or written.  *)
OnlyTheNamedLineChanges ==
  [][op # "CLOSED" =>
       \A n \in (1 .. NImage) \ {img_rec'} : At(file', front + n) = At(file, front + n)]_vars

(* A label that is to be written back is in memory                         *)
(* (v2_check_out_lbl_on_close takes its length).                           *)
ModifiedIsInMemory == modified => labels # <<>>

(* The invariant that the proofs use.                                      *)
RecordType == {rec \in [text : Seq(Texts), note : Nat] : Len(rec.text) <= PerRec}

IInv ==
  /\ front \in Nat \ {0}
  /\ file \in Seq(RecordType)
  /\ op \in {"CLOSED", "READ", "WRITE", "UPDATE"}
  /\ eol_size \in Nat
  /\ labels \in Seq(Texts)
  /\ img_rec \in Nat
  /\ "rewritten" \notin Failures => ModifiedIsInMemory
=============================================================================
