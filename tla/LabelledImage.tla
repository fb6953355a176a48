---------------------------- MODULE LabelledImage ----------------------------
(***************************************************************************)
(* What the run-time library promises of a labelled image: a label, which  *)
(* is a sequence of items, and the image's lines, each of which changes    *)
(* only by the calls that are there to change it.  Opening and closing the *)
(* file, and failing to, change neither.                                   *)
(***************************************************************************)
EXTENDS Integers, Sequences, SequencesExt

CONSTANTS
  NImage,     \* lines of the image, all bands together
  NewLabels,  \* labels that an output file may start with
  Names,      \* label items
  Task,       \* the history task that an update adds
  Data        \* what a line may hold

VARIABLES
  op,      \* how the file is open, or "CLOSED"
  label,   \* its items
  lines,   \* what its lines hold
  at,      \* the line that was last read or written
  result   \* what the last call returned, and delivered

vars == <<op, label, lines, at, result>>

Nothing == [text |-> <<>>, note |-> 0]
Line(d) == [text |-> <<d>>, note |-> 0]
Returned(status, line) == [status |-> status, line |-> line]

Open(mode) ==
  /\ op = "CLOSED"
  /\ op' = mode
  /\ \/ label' = label
     \/ mode = "UPDATE" /\ label' = Append(label, Task)
  /\ at' = 0
  /\ result' = Returned("SUCCESS", Nothing)
  /\ UNCHANGED lines

(* What an image starts with is whatever the file held.                    *)
Create(items) ==
  /\ op = "CLOSED"
  /\ op' = "WRITE"
  /\ label' = items
  /\ at' = 0
  /\ result' = Returned("SUCCESS", Nothing)

Edit ==
  /\ op \in {"WRITE", "UPDATE"}
  /\ \/ \E k \in 2 .. (Len(label) + 1), name \in Names : label' = InsertAt(label, k, name)
     \/ \E k \in 2 .. Len(label) : label' = RemoveAt(label, k)
  /\ result' = Returned("SUCCESS", Nothing)
  /\ UNCHANGED <<op, lines, at>>

Look ==
  /\ op # "CLOSED"
  /\ result' = Returned("SUCCESS", Nothing)
  /\ UNCHANGED <<op, label, lines, at>>

Read(n) ==
  /\ op \in {"READ", "UPDATE"}
  /\ at' = n
  /\ result' = Returned("SUCCESS", lines[n])
  /\ UNCHANGED <<op, label, lines>>

(* A line beyond the image may be written while the file is new.           *)
Write(n, d) ==
  /\ op \in {"WRITE", "UPDATE"}
  /\ op = "UPDATE" => n <= NImage
  /\ at' = n
  /\ lines' = IF n <= NImage THEN [lines EXCEPT ![n] = Line(d)] ELSE lines
  /\ result' = Returned("SUCCESS", Nothing)
  /\ UNCHANGED <<op, label>>

(* A write that fails leaves its line as it was, or writes it.             *)
WriteFails(n, d) ==
  /\ op \in {"WRITE", "UPDATE"}
  /\ at' = n
  /\ lines' \in {lines, IF n <= NImage THEN [lines EXCEPT ![n] = Line(d)] ELSE lines}
  /\ result' = Returned("IO_ERROR", Nothing)
  /\ UNCHANGED <<op, label>>

Refuse(status) ==
  /\ op # "CLOSED"
  /\ result' = Returned(status, Nothing)
  /\ UNCHANGED <<op, label, lines, at>>

Close ==
  /\ op # "CLOSED"
  /\ op' = "CLOSED"
  /\ at' = 0
  /\ result' = Returned("SUCCESS", Nothing)
  /\ UNCHANGED <<label, lines>>

CloseFails == Refuse("IO_ERROR")

Init ==
  /\ op = "CLOSED"
  /\ at = 0
  /\ result = Returned("SUCCESS", Nothing)

Next ==
  \/ \E mode \in {"READ", "UPDATE"} : Open(mode)
  \/ \E items \in NewLabels : Create(items)
  \/ Look
  \/ Edit
  \/ \E n \in 1 .. NImage : Read(n)
  \/ \E n \in 1 .. (NImage + 1), d \in Data : Write(n, d) \/ WriteFails(n, d)
  \/ \E status \in {"START_REC_ERROR", "END_OF_FILE"} : Refuse(status)
  \/ Close
  \/ CloseFails

Spec == Init /\ [][Next]_vars
=============================================================================
