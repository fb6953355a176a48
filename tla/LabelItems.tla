---------------------------- MODULE LabelItems ----------------------------
(***************************************************************************)
(* The label of one labelled file as a program reads and edits it with     *)
(* zladd, zldel, zlget, zlinfo, zlninfo, zlhinfo and zlpinfo, between one   *)
(* zvopen and zvclose and the next.                                        *)
(***************************************************************************)
EXTENDS LabelText

CONSTANTS
  Keys,            \* of the items that the program edits
  Parts,           \* what calls name: [type, name, instance]
  Programs,        \* names of the tasks that open the file
  News,            \* lists of elements to add
  Elements,        \* ELEMENT: 0 is the default, -1 the end
  Counts,          \* NELEMENT of a deletion or a read: 0 is the default, -1 all
  Extra,           \* LABEL_BUFFER_EXTRA
  InitialLabels,   \* in the file
  Failures,        \* of zladd: "argument", "length", "memory"
  MaxUpdates,      \* bound: times that the file is opened for update
  MaxTasks,        \* bound: tasks in the history
  MaxLength        \* bound: characters in the label

(* A label is made of items with elements, one for a header, begins with   *)
(* its size, and has its properties in front of its history.               *)
IsLabel(label) ==
  /\ label \in Seq([key : Keys \cup Headers, value : Seq(STRING), wide : BOOLEAN, blanks : Nat])
  /\ label # <<>>
  /\ \A i \in DOMAIN label :
       /\ label[i].key = SystemKey <=> i = 1
       /\ label[i].value # <<>>
       /\ label[i].key \in Headers => Len(label[i].value) = 1
  /\ \A i, j \in DOMAIN label : label[i].key = PropertyKey /\ label[j].key = TaskKey => i < j

SystemPart == [type |-> "SYSTEM", name |-> "", instance |-> 1]

ASSUME ConstantsAreSane ==
  /\ Keys \subseteq STRING /\ Keys \cap Headers = {}
  /\ Parts \subseteq [type : {"SYSTEM", "PROPERTY", "HISTORY"}, name : STRING, instance : Nat]
  /\ \A of \in Parts : of.type = "SYSTEM" => of = SystemPart
  /\ Programs \subseteq STRING
  /\ \A new \in News : new \in Seq(STRING) /\ new # <<>>
  /\ Elements \cup Counts \subseteq Nat \cup {-1}
  /\ Extra \in Nat \ {0} /\ MaxUpdates \in Nat /\ MaxTasks \in Nat /\ MaxLength \in Nat
  /\ \A label \in InitialLabels : IsLabel(label)
  /\ Failures \subseteq {"argument", "length", "memory"}

VARIABLES
  file,        \* the label in the file
  op,          \* OP of the open file, or "closed"
  labels,      \* LABELS: the label in memory, <<>> when it has not been read
  lblalloc,    \* LBLALLOC
  modified,    \* LABELS_MODIFIED
  position,    \* POSITION: where in the label the last item ended
  call,        \* the last call, and what it returned
  updates      \* how often the file has been opened for update

vars == <<file, op, labels, lblalloc, modified, position, call, updates>>

(* POSITION: NULL, or a character of the label, in memory that is still    *)
(* the label's or not.                                                     *)
NoPosition == [at |-> 0, live |-> TRUE]
Place(at) == [at |-> at, live |-> TRUE]

(* What a program asks for; the options that a call has no use for are left*)
(* out by giving them their defaults.                                      *)
Request(name, of, key) ==
  [name |-> name, of |-> of, key |-> key, mode |-> "ADD", new |-> <<>>, element |-> 0, nelements |-> 0]

NoPart == [type |-> "", name |-> "", instance |-> 1]
Plain(name) == Request(name, NoPart, "")

Answered(request, status, values) == [request |-> request, status |-> status, values |-> values]

(* read_in_labels, when a call finds no label in memory.                   *)
Text == IF labels = <<>> THEN file ELSE labels
Alloc == IF labels = <<>> THEN LengthOf(file) + Extra ELSE lblalloc

(* A plausible bug: the terminator of the label is not counted.            *)
AllocForWithoutTerminator(alloc, length, newlen) ==
  IF newlen + length > alloc THEN alloc + newlen + Extra ELSE alloc

(* insert_label_string moves the label when there is no room for more.     *)
AllocFor(alloc, length, newlen) ==
  IF newlen + length >= alloc THEN alloc + newlen + Extra ELSE alloc

Fits(label) == LengthOf(label) <= MaxLength

(* What a call has made of the label: its text and memory.                 *)
Read == [label |-> Text, alloc |-> Alloc]

InsertItem(edit, i, item) ==
  [label |-> Inserted(edit.label, i, item),
   alloc |-> AllocFor(edit.alloc, LengthOf(edit.label), Size(item))]

-----------------------------------------------------------------------------
(* Elements of an item: ELEMENT counts from one, and -1 is behind the last.*)
FirstOf(element, default) == IF element = 0 THEN default ELSE IF element = -1 THEN -1 ELSE element - 1

(* A plausible bug: newstop stays where the item ended.                    *)
CutItemStopUnmoved(label, i) ==
  [label |-> Cut(label, i), stop |-> StopOf(label, i), done |-> TRUE]

(* delete_label_item for all elements, and what it returns: the label, the *)
(* character where the item ends now, and whether it could be done.        *)
CutItem(label, i) == [label |-> Cut(label, i), stop |-> StartOf(label, i), done |-> TRUE]

(* del_complex_label_item writes the item again in the library's format,   *)
(* which must not be longer than what was there.                           *)
DeleteElements(label, i, first, count) ==
  LET rest == Rewritten(label, i, Without(label[i].value, first, count))
  IN  IF TextLen(rest[i]) > TextLen(label[i])
      THEN [label |-> label, stop |-> StopOf(label, i), done |-> FALSE]
      ELSE [label |-> rest, stop |-> StopOf(rest, i), done |-> TRUE]

DeleteItem(label, i, first, nelements) ==
  LET n == Len(label[i].value)
      count == IF nelements = -1 THEN n ELSE nelements
  IN  CASE first = -1 \/ first >= n ->
             [label |-> label, stop |-> StopOf(label, i), done |-> TRUE]
        [] first \in 0 .. (n - 1) /\ (n = 1 \/ (first = 0 /\ count >= n)) -> CutItem(label, i)
        [] OTHER -> DeleteElements(label, i, first, count)

(* add_complex_label_item: the item is cut out, and inserted again with    *)
(* more elements.                                                          *)
AddElements(edit, i, first, new) ==
  LET value == edit.label[i].value
      at == IF first = -1 \/ first > Len(value) THEN Len(value) ELSE first
      label == Rewritten(edit.label, i, With(value, at, new))
  IN  [label |-> label,
       alloc |-> AllocFor(edit.alloc, LengthOf(edit.label) - TextLen(edit.label[i]),
                          TextLen(label[i]))]

(* zladd creates a property that is not there, in front of the history;    *)
(* its instance is the next one, whatever was asked for.                   *)
IsNewProperty(of) == of.type = "PROPERTY" /\ FindPart(Text, of) = {}

WithProperty(of) ==
  IF IsNewProperty(of)
  THEN InsertItem(Read, FindFirstHistItem(Text), NewItem(PropertyKey, <<of.name>>))
  ELSE Read

Named(of) ==
  IF IsNewProperty(of)
  THEN [of EXCEPT !.instance = Cardinality(HeadersOf(Text, PropertyKey, of.name)) + 1]
  ELSE of

(* With MODE=REPLACE elements are deleted first: none when no ELEMENT is   *)
(* given, which then means the end.                                        *)
AllIfDefault(nelements) == IF nelements = 0 THEN -1 ELSE nelements

Replaced(request) ==
  LET label == WithProperty(request.of).label
  IN  IF request.mode = "REPLACE"
      THEN {DeleteItem(label, i, FirstOf(request.element, -1), AllIfDefault(request.nelements)) :
              i \in Find(label, Named(request.of), request.key)}
      ELSE {}

AfterReplacing(request) ==
  [WithProperty(request.of) EXCEPT !.label =
     IF Replaced(request) = {} THEN @ ELSE (CHOOSE r \in Replaced(request) : TRUE).label]

(* add_label_item: more elements of an item, or a new item at the end of   *)
(* the part.                                                               *)
AddItem(edit, of, key, first, new) ==
  LET found == Find(edit.label, of, key)
  IN  IF found # {}
      THEN AddElements(edit, CHOOSE i \in found : TRUE, first, new)
      ELSE InsertItem(edit, (CHOOSE part \in FindPart(edit.label, of) : TRUE).stop, NewItem(key, new))
-----------------------------------------------------------------------------
Init ==
  /\ file \in InitialLabels
  /\ op = "closed"
  /\ labels = <<>>
  /\ lblalloc = 0
  /\ modified = FALSE
  /\ position = NoPosition
  /\ call = Answered(Plain("start"), "SUCCESS", <<>>)
  /\ updates = 0

IsOpen == op # "closed"

(* process_input_file: an update may add its task to the history at once;  *)
(* otherwise the label is read by the first call that needs it.            *)
ZvOpen(mode, program) ==
  LET task == InsertItem(Read, Len(file) + 1, NewItem(TaskKey, <<program>>))
  IN  /\ ~ IsOpen
      /\ op' = mode
      /\ updates' = updates + (IF mode = "UPDATE" THEN 1 ELSE 0)
      /\ updates' <= MaxUpdates
      /\ call' = Answered(Plain("zvopen"), "SUCCESS", <<>>)
      /\ UNCHANGED <<file, position>>
      /\ \/ UNCHANGED <<labels, lblalloc, modified>>
         \/ /\ mode = "UPDATE"
            /\ Len(NamesIn(file, TaskKey)) < MaxTasks
            /\ Fits(task.label)
            /\ labels' = task.label
            /\ lblalloc' = task.alloc
            /\ modified' = TRUE

(* A plausible bug: POSITION survives the close.                           *)
ZvCloseKeepsPosition ==
  /\ IsOpen
  /\ file' = IF op = "UPDATE" /\ modified THEN labels ELSE file
  /\ op' = "closed"
  /\ labels' = <<>>
  /\ lblalloc' = 0
  /\ modified' = FALSE
  /\ call' = Answered(Plain("zvclose"), "SUCCESS", <<>>)
  /\ UNCHANGED <<position, updates>>

(* c_xvclose writes a label that was modified; close_unit forgets the rest.*)
ZvClose ==
  /\ IsOpen
  /\ file' = IF op = "UPDATE" /\ modified THEN labels ELSE file
  /\ op' = "closed"
  /\ labels' = <<>>
  /\ lblalloc' = 0
  /\ modified' = FALSE
  /\ position' = NoPosition
  /\ call' = Answered(Plain("zvclose"), "SUCCESS", <<>>)
  /\ UNCHANGED updates
-----------------------------------------------------------------------------
(* Calls that edit nothing.                                                *)

ReadIn == labels' = Text /\ lblalloc' = Alloc

Refused(request, status) ==
  /\ ReadIn
  /\ call' = Answered(request, status, <<>>)
  /\ UNCHANGED <<file, op, modified, position, updates>>

PositionAt(label, i) == position' = Place(StopOf(label, i))

(* A file that is open for input.                                          *)
ModifiesAnInput(request) ==
  /\ op = "READ"
  /\ request.name \in {"zladd", "zldel"}
  /\ call' = Answered(request, "CAN_NOT_MODIFY_AN_INPUT_LABEL", <<>>)
  /\ UNCHANGED <<file, op, labels, lblalloc, modified, position, updates>>

MayCall(request) == op = "UPDATE" \/ (op = "READ" /\ request.name \in {"zlget", "zlinfo"})

(* A task, or a property, that is not in the label: zladd would create the *)
(* property.                                                               *)
FindsNoPart(request) ==
  LET of == request.of
  IN  /\ MayCall(request)
      /\ FindPart(Text, of) = {}
      /\ \/ of.type = "HISTORY" /\ of.name = "" /\ Refused(request, "NO_TASKS_IN_LABEL")
         \/ of.type = "HISTORY" /\ of.name # "" /\ Refused(request, "NO_SUCH_TASK")
         \/ of.type = "PROPERTY" /\ request.name # "zladd" /\ Refused(request, "NO_SUCH_PROPERTY")

FindsNoKey(request) ==
  /\ MayCall(request)
  /\ request.name # "zladd"
  /\ FindPart(Text, request.of) # {}
  /\ Find(Text, request.of, request.key) = {}
  /\ Refused(request, "CANNOT_FIND_KEY")

(* zlget reads one element unless NELEMENT says otherwise.                 *)
Got(value, element, nelements) ==
  LET first == IF element = -1 THEN Len(value) ELSE FirstOf(element, 0)
      count == IF nelements = 0 THEN 1 ELSE IF nelements = -1 THEN Len(value) ELSE nelements
  IN  SubSeq(value, first + 1, Min({first + count, Len(value)}))

(* zlget and zlinfo.                                                       *)
Gets(request) ==
  /\ IsOpen
  /\ request.name \in {"zlget", "zlinfo"}
  /\ ReadIn
  /\ \E i \in Find(Text, request.of, request.key) :
       /\ PositionAt(Text, i)
       /\ call' = Answered(request, "SUCCESS",
                           IF request.name = "zlinfo" THEN <<>>
                           ELSE Got(Text[i].value, request.element, request.nelements))
  /\ UNCHANGED <<file, op, modified, updates>>

(* The items behind POSITION, which should be between two.                 *)
Between(at) ==
  at = 0 \/ \E i \in DOMAIN Text : at \in StopOf(Text, i) .. (StopOf(Text, i) + Text[i].blanks)

NextItem == Min({Len(Text) + 1} \cup {i \in DOMAIN Text : StartOf(Text, i) >= position.at})

Rest == SubSeq(Text, NextItem, Len(Text))

(* zlninfo.  What it finds from a POSITION that a failed zladd has left in *)
(* the middle of an item, or in freed memory, is not modelled.             *)
ZlNInfo ==
  /\ IsOpen
  /\ position.live /\ Between(position.at)
  /\ ReadIn
  /\ IF Rest = <<>>
     THEN call' = Answered(Plain("zlninfo"), "END_OF_LABEL", <<>>) /\ UNCHANGED position
     ELSE /\ call' = Answered(Plain("zlninfo"), "SUCCESS", <<Rest[1].key>>)
          /\ PositionAt(Text, NextItem)
  /\ UNCHANGED <<file, op, modified, updates>>

(* zlhinfo and zlpinfo.                                                    *)
ListsNames(name, key) ==
  /\ IsOpen
  /\ ReadIn
  /\ call' = Answered(Plain(name), "SUCCESS", NamesIn(Text, key))
  /\ UNCHANGED <<file, op, modified, position, updates>>
-----------------------------------------------------------------------------
(* Calls that edit.                                                        *)

Edits(request, status, edit) ==
  /\ Fits(edit.label)
  /\ labels' = edit.label
  /\ lblalloc' = edit.alloc
  /\ call' = Answered(request, status, <<>>)
  /\ UNCHANGED <<file, op, updates>>

(* A call that fails leaves POSITION as it is; if the label was moved,     *)
(* what it points at has been freed.                                       *)
Fails(request, status, edit) ==
  /\ Edits(request, status, edit)
  /\ position' = [position EXCEPT !.live = @ /\ (position = NoPosition \/ edit.alloc = Alloc)]
  /\ UNCHANGED modified

Adds(request) ==
  /\ request.name = "zladd"
  /\ op = "UPDATE"
  /\ request.of.type = "PROPERTY" \/ FindPart(Text, request.of) # {}

(* Nothing that can be added, for want of FORMAT, or with NELEMENT -1: the *)
(* property has been created by then.                                      *)
AddLacksArgument(request) ==
  /\ "argument" \in Failures
  /\ Adds(request)
  /\ Fails(request, "FORMAT_OPTIONAL_REQUIRED", WithProperty(request.of))

AddFindsDuplicate(request) ==
  /\ Adds(request)
  /\ request.mode = "ADD"
  /\ Find(Text, request.of, request.key) # {}
  /\ Refused(request, "DUPLICATE_KEY")

MayAdd(request) ==
  /\ Adds(request)
  /\ request.mode = "ADD" => Find(Text, request.of, request.key) = {}

(* The elements that are to stay do not fit.                               *)
CannotReplace(request) ==
  /\ MayAdd(request)
  /\ \E r \in Replaced(request) : ~ r.done
  /\ Refused(request, "FAILURE")

(* Strings that are given without ULEN are found out when what they were   *)
(* to replace has gone, and the want of memory for a longer label when the *)
(* old item has been cut out.                                              *)
ZlAdd(request) ==
  LET of == Named(request.of)
      edit == AfterReplacing(request)
      old == Find(edit.label, of, request.key)
      added == AddItem(edit, of, request.key, FirstOf(request.element, -1), request.new)
      lost == [edit EXCEPT !.label = IF old = {} THEN @ ELSE Cut(@, CHOOSE i \in old : TRUE)]
  IN  /\ MayAdd(request)
      /\ \A r \in Replaced(request) : r.done
      /\ \E failure \in {"none"} \cup (Failures \ {"argument"}) :
           CASE failure = "none" ->
                  /\ Edits(request, "SUCCESS", added)
                  /\ modified' = TRUE
                  /\ \E i \in Find(added.label, of, request.key) : PositionAt(added.label, i)
             [] failure = "length" ->
                  Len(request.new) > 1 /\ Fails(request, "IMPROPER_LENGTH", edit)
             [] failure = "memory" ->
                  added.alloc # edit.alloc /\ Fails(request, "NO_MEMORY_FOR_LABEL_PROCESS", lost)

ZlDel(request) ==
  /\ request.name = "zldel"
  /\ op = "UPDATE"
  /\ \E i \in Find(Text, request.of, request.key) :
       LET deleted == DeleteItem(Text, i, FirstOf(request.element, 0),
                                 AllIfDefault(request.nelements))
       IN  \/ ~ deleted.done /\ Refused(request, "FAILURE")
           \/ /\ deleted.done
              /\ Edits(request, "SUCCESS", [Read EXCEPT !.label = deleted.label])
              /\ modified' = TRUE
              /\ position' = Place(deleted.stop)
-----------------------------------------------------------------------------
(* What is refused whatever its options is asked for with the defaults;    *)
(* MODE=ADD has no use for ELEMENT, nor MODE=INSERT for a default NELEMENT.*)
PlainRequests(names) == {Request(name, of, key) : name \in names, of \in Parts, key \in Keys}

Selecting(names) ==
  {[r EXCEPT !.element = element, !.nelements = nelements] :
     r \in PlainRequests(names), element \in Elements, nelements \in Counts}

Additions ==
  LET add == {[r EXCEPT !.new = new, !.nelements = Len(new)] :
                r \in PlainRequests({"zladd"}), new \in News}
      insert == {[r EXCEPT !.mode = "INSERT", !.element = element] : r \in add, element \in Elements}
      replace == {[r EXCEPT !.mode = "REPLACE"] : r \in insert}
      replaceAll == {[r EXCEPT !.nelements = 0] : r \in {q \in replace : Len(q.new) = 1}}
  IN  add \cup insert \cup replace \cup replaceAll

Next ==
  \/ \E mode \in {"READ", "UPDATE"}, program \in Programs : ZvOpen(mode, program)
  \/ ZvClose
  \/ ZlNInfo
  \/ ListsNames("zlhinfo", TaskKey)
  \/ ListsNames("zlpinfo", PropertyKey)
  \/ \E request \in PlainRequests({"zladd", "zldel", "zlget", "zlinfo"}) :
       ModifiesAnInput(request) \/ FindsNoPart(request) \/ FindsNoKey(request)
  \/ \E request \in PlainRequests({"zlinfo"}) \cup Selecting({"zlget"}) : Gets(request)
  \/ \E request \in PlainRequests({"zladd"}) : AddLacksArgument(request)
  \/ \E request \in Additions :
       AddFindsDuplicate(request) \/ CannotReplace(request) \/ ZlAdd(request)
  \/ \E request \in Selecting({"zldel"}) : ZlDel(request)

Spec == Init /\ [][Next]_vars
-----------------------------------------------------------------------------
(* Properties.                                                             *)

(* The file always holds a label, and memory one or none.                  *)
TypeOK ==
  /\ IsLabel(file) /\ (labels = <<>> \/ IsLabel(labels))
  /\ op \in {"closed", "READ", "UPDATE"}
  /\ lblalloc \in Nat /\ modified \in BOOLEAN
  /\ position \in [at : Nat, live : BOOLEAN]
  /\ modified => labels # <<>>

(* The label and its terminator fit in the memory allocated for it.        *)
LabelFits == labels # <<>> => LengthOf(labels) < lblalloc

(* POSITION is between two items of the label in memory, where zlninfo can *)
(* go on.                                                                  *)
PositionIsGood ==
  position = NoPosition \/ (labels # <<>> /\ position.live /\ Between(position.at))

SetsPosition ==
  call'.request.name \in {"zladd", "zldel", "zlget", "zlinfo"} /\ call'.status = "SUCCESS"

FailedHalfway == call'.request.name = "zladd" /\ call'.status # "SUCCESS"

(* A call that succeeds leaves POSITION between two items, however it has  *)
(* changed or moved the label; any other call leaves it so if it was so,   *)
(* except a zladd that fails half-way.                                     *)
PositionStaysGood ==
  [][ SetsPosition \/ (PositionIsGood /\ ~ FailedHalfway) => PositionIsGood' ]_vars

(* A program may delete the item that it has just come by, or elements of  *)
(* it, and go on: zldel leaves the items still to come as they are.        *)
DeletingGoesOn ==
  [][ call'.request.name = "zldel" =>
        \A i \in Find(Text, call'.request.of, call'.request.key) :
          position = Place(StopOf(Text, i)) => Rest' = Rest ]_vars

(* The name and the instance that zlhinfo or zlpinfo lists for a task or a *)
(* property are those by which the other calls find it.                    *)
ListedInstancesAreFound ==
  \A key \in {TaskKey, PropertyKey} :
    \A i \in DOMAIN Text :
      Text[i].key = key =>
        LET k == Cardinality({j \in 1 .. i : Text[j].key = key})
        IN  HeaderOf(Text, key, NamesIn(Text, key)[k], InstancesIn(Text, key)[k]) = {i}

(* The text as a table: an item is in the part of the last header before it.*)
HeadersIn(label) == {i \in DOMAIN label : label[i].key \in Headers}
ItemsIn(label) == DOMAIN label \ HeadersIn(label)

HeaderBefore(label, i) ==
  CHOOSE h \in HeadersIn(label) : h < i /\ \A g \in HeadersIn(label) : g < i => g <= h

PartAt(label, h) ==
  LET name == label[h].value[1]
  IN  IF label[h].key = SystemKey THEN SystemPart
      ELSE [type |-> IF label[h].key = PropertyKey THEN "PROPERTY" ELSE "HISTORY",
            name |-> name,
            instance |-> Cardinality(UpTo(HeadersOf(label, label[h].key, name), h))]

EntryOf(label, i) == <<PartAt(label, HeaderBefore(label, i)), label[i].key>>

TableOf(label) ==
  [items |-> [d \in {EntryOf(label, i) : i \in ItemsIn(label)} |->
                label[CHOOSE i \in ItemsIn(label) : EntryOf(label, i) = d].value],
   tasks |-> NamesIn(label, TaskKey)]

Table == INSTANCE LabelTable WITH now <- TableOf(Text), saved <- TableOf(file)

(* The text is edited, searched and stored so that it is a table.          *)
Implements == Table!Spec
=============================================================================
