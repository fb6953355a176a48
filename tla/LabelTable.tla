----------------------------- MODULE LabelTable -----------------------------
(***************************************************************************)
(* What the label routines promise: a label is a table that gives the      *)
(* elements of the items with a key in a part of the label, and a list of  *)
(* the tasks of the history.  Nothing is said of the order of the items.   *)
(***************************************************************************)
EXTENDS Integers, SequencesExt

VARIABLES
  now,       \* the label as the program sees it: items and tasks
  saved,     \* the label in the file
  op,        \* "closed", "READ" or "UPDATE"
  call       \* the last call, and what it returned

tvars == <<now, saved, op, call>>

Init == now = saved /\ op = "closed" /\ call.request.name = "start"

Asked == call'.request
Status == call'.status

(* The part that a call means: the last task when it names none.           *)
Instances(tasks, name) == Cardinality({k \in DOMAIN tasks : tasks[k] = name})

Meant(tasks, of) ==
  CASE of.type # "HISTORY" -> {of}
    [] of.type = "HISTORY" /\ of.name # "" ->
         {part \in {of} : part.instance \in 1 .. Instances(tasks, of.name)}
    [] of.type = "HISTORY" /\ of.name = "" ->
         {[type |-> "HISTORY", name |-> name, instance |-> Instances(tasks, name)] :
            name \in {tasks[k] : k \in {Len(tasks)} \ {0}}}

(* The elements of an item, none when it is not there.                     *)
ValueOf(items, entry) == IF entry \in DOMAIN items THEN items[entry] ELSE <<>>

(* The items with one given elements, or taken out.                        *)
WithItem(items, entry, value) ==
  [d \in IF value = <<>> THEN DOMAIN items \ {entry} ELSE DOMAIN items \cup {entry} |->
     IF d = entry THEN value ELSE items[d]]

(* Elements count from one.                                                *)
Dropped(value, from, count) ==
  SubSeq(value, 1, Min({from - 1, Len(value)})) \o SubSeq(value, from + count, Len(value))

Counted(value, count) == IF count \in {0, -1} THEN Len(value) ELSE count

AfterDeletion(value, request) ==
  IF request.element = -1 THEN value
  ELSE Dropped(value, IF request.element = 0 THEN 1 ELSE request.element,
               Counted(value, request.nelements))

(* To replace, an element must be named; otherwise nothing is.             *)
AfterAddition(value, request) ==
  LET named == request.element \notin {0, -1}
      kept == IF request.mode = "REPLACE" /\ named THEN AfterDeletion(value, request) ELSE value
      at == IF named /\ request.element <= Len(kept) THEN request.element - 1 ELSE Len(kept)
  IN  SubSeq(kept, 1, at) \o request.new \o SubSeq(kept, at + 1, Len(kept))

(* A property that is not there is created, as its name's next instance.   *)
PartsToAddTo(before, after, of) ==
  LET parts(items) == {d[1] : d \in DOMAIN items}
  IN  IF of.type # "PROPERTY" \/ of \in parts(before.items)
      THEN Meant(before.tasks, of)
      ELSE {part \in parts(after.items) \ parts(before.items) :
              part.type = "PROPERTY" /\ part.name = of.name}
-----------------------------------------------------------------------------
Same == UNCHANGED <<now, saved, op>>

Open ==
  /\ Asked.name = "zvopen"
  /\ op = "closed" /\ op' # "closed"
  /\ \/ now' = now
     \/ op' = "UPDATE" /\ \E name \in Range(now'.tasks) : now' = [now EXCEPT !.tasks = Append(@, name)]
  /\ UNCHANGED saved

(* Nothing is lost when the file is closed.                                *)
Close ==
  /\ Asked.name = "zvclose"
  /\ op # "closed" /\ op' = "closed"
  /\ now' = now /\ saved' = now

Add ==
  /\ Asked.name = "zladd" /\ Status = "SUCCESS"
  /\ op = "UPDATE"
  /\ LET before == now
         after == now'
     IN  \E part \in PartsToAddTo(before, after, Asked.of) :
           LET entry == <<part, Asked.key>>
               value == ValueOf(before.items, entry)
           IN  /\ Asked.mode = "ADD" => value = <<>>
               /\ after = [before EXCEPT !.items =
                             WithItem(@, entry, AfterAddition(value, Asked))]
  /\ UNCHANGED <<saved, op>>

Delete ==
  /\ Asked.name = "zldel" /\ Status = "SUCCESS"
  /\ op = "UPDATE"
  /\ LET before == now
     IN  \E part \in Meant(before.tasks, Asked.of) :
           LET entry == <<part, Asked.key>>
               value == ValueOf(before.items, entry)
           IN  /\ value # <<>>
               /\ now' = [before EXCEPT !.items =
                            WithItem(@, entry, AfterDeletion(value, Asked))]
  /\ UNCHANGED <<saved, op>>

Get ==
  /\ Asked.name \in {"zlget", "zlinfo"} /\ Status = "SUCCESS"
  /\ LET before == now
     IN  \E part \in Meant(before.tasks, Asked.of) :
           LET value == ValueOf(before.items, <<part, Asked.key>>)
               first == CASE Asked.element = 0 -> 1
                          [] Asked.element = -1 -> Len(value) + 1
                          [] OTHER -> Asked.element
               count == CASE Asked.nelements = 0 -> 1
                          [] Asked.nelements = -1 -> Len(value)
                          [] OTHER -> Asked.nelements
               wanted == {k \in DOMAIN value : k >= first /\ k < first + count}
           IN  /\ value # <<>>
               /\ Asked.name = "zlget" => call'.values = [k \in 1 .. Cardinality(wanted) |->
                                                            value[first + k - 1]]
  /\ Same

(* Every task is listed, and every property that has items.                *)
List ==
  /\ \/ Asked.name = "zlhinfo" /\ call'.values = now.tasks
     \/ /\ Asked.name = "zlpinfo"
        /\ \A d \in DOMAIN now.items : d[1].type = "PROPERTY" => d[1].name \in Range(call'.values)
     \/ Asked.name = "zlninfo"
  /\ Same

(* A call is refused for the reason that it returns, and changes nothing.  *)
Refuse ==
  LET before == now
      meant == Meant(before.tasks, Asked.of)
      has(n) == \E part \in meant : Len(ValueOf(before.items, <<part, Asked.key>>)) >= n
  IN  /\ Asked.name \in {"zladd", "zldel", "zlget", "zlinfo"}
      /\ CASE Status \in {"NO_TASKS_IN_LABEL", "NO_SUCH_TASK"} -> meant = {}
           [] Status \in {"NO_SUCH_PROPERTY", "CANNOT_FIND_KEY"} ->
                Asked.name # "zladd" /\ ~ has(1)
           [] Status = "DUPLICATE_KEY" -> Asked.mode = "ADD" /\ has(1)
           [] Status = "FAILURE" -> has(2) /\ (Asked.name = "zldel" \/ Asked.mode = "REPLACE")
           [] Status = "FORMAT_OPTIONAL_REQUIRED" -> Asked.name = "zladd"
           [] Status = "CAN_NOT_MODIFY_AN_INPUT_LABEL" -> op = "READ"
           [] OTHER -> FALSE
      /\ Same

Next == Open \/ Close \/ Add \/ Delete \/ Get \/ List \/ Refuse

Spec == Init /\ [][Next]_tvars
=============================================================================
