----------------------------- MODULE LabelText -----------------------------
(***************************************************************************)
(* A VICAR label in memory, as the label routines of the run-time library  *)
(* see it: a text of KEY=VALUE items with blanks between them, in which    *)
(* everything is found by looking for keys.  The text is a sequence of     *)
(* items, each with the blanks behind it; a place in it is the number of   *)
(* characters in front, in a scale of one character for blanks, one for an *)
(* element written by others, and Wide for one written by the library.     *)
(***************************************************************************)
EXTENDS Integers, SequencesExt

SystemKey == "LBLSIZE"
PropertyKey == "PROPERTY"
TaskKey == "TASK"
Headers == {SystemKey, PropertyKey, TaskKey}

Wide == 2        \* an element as convert_to_text writes it
Blanks == 1      \* what is left between items

(* create_label_item, with the blanks that add_label_item leaves behind.   *)
NewItem(key, value) == [key |-> key, value |-> value, wide |-> TRUE, blanks |-> Blanks]

TextLen(item) == Len(item.value) * (IF item.wide THEN Wide ELSE 1)

Size(item) == TextLen(item) + item.blanks

LengthOf(label) ==
  LET length[n \in 0 .. Len(label)] ==
        IF n = 0 THEN 0 ELSE length[n - 1] + Size(label[n])
  IN  length[Len(label)]

(* Where the i-th item begins, and the character behind its value.         *)
StartOf(label, i) == LengthOf(SubSeq(label, 1, i - 1))
StopOf(label, i) == StartOf(label, i) + TextLen(label[i])

-----------------------------------------------------------------------------
(* find_entry: the next item with the key, or the end of the label.        *)
FindEntry(label, from, key) ==
  Min({Len(label) + 1} \cup {i \in from .. Len(label) : label[i].key = key})

IsEntry(label, i) == i <= Len(label)

(* A plausible bug: the end of the label.                                  *)
FindFirstHistItemAtEnd(label) == Len(label) + 1

FindFirstHistItem(label) == FindEntry(label, 1, TaskKey)

HeadersOf(label, key, name) ==
  {i \in DOMAIN label : label[i].key = key /\ label[i].value = <<name>>}

UpTo(places, i) == {j \in places : j <= i}

(* The header that is the instance-th of its name: a set of at most one.   *)
HeaderOf(label, key, name, instance) ==
  {i \in HeadersOf(label, key, name) :
     Cardinality(UpTo(HeadersOf(label, key, name), i)) = instance}

(* A part of the label: its first item, and the one behind it.             *)
FindSystem(label) ==
  LET property == FindEntry(label, 1, PropertyKey)
  IN  {[start |-> 1,
        stop |-> IF IsEntry(label, property) THEN property ELSE FindEntry(label, 1, TaskKey)]}

(* Other properties follow a property, or the history.                     *)
FindProperty(label, name, instance) ==
  {[start |-> i,
    stop |-> LET next == FindEntry(label, i + 1, PropertyKey)
             IN  IF IsEntry(label, next) THEN next ELSE FindEntry(label, i + 1, TaskKey)] :
     i \in HeaderOf(label, PropertyKey, name, instance)}

(* The last task of the label, when no name is given, begins behind its    *)
(* header.                                                                 *)
FindTask(label, name, instance) ==
  IF name # ""
  THEN {[start |-> i, stop |-> FindEntry(label, i + 1, TaskKey)] :
          i \in HeaderOf(label, TaskKey, name, instance)}
  ELSE {[start |-> i + 1, stop |-> Len(label) + 1] :
          i \in {j \in DOMAIN label : label[j].key = TaskKey
                                      /\ ~ IsEntry(label, FindEntry(label, j + 1, TaskKey))}}

(* The part of the label that a call names.                                *)
FindPart(label, of) ==
  CASE of.type = "SYSTEM"   -> FindSystem(label)
    [] of.type = "PROPERTY" -> FindProperty(label, of.name, of.instance)
    [] of.type = "HISTORY"  -> FindTask(label, of.name, of.instance)

(* A plausible bug: the end of the part is forgotten.                      *)
FindKeyAnywhere(label, part, key) ==
  {i \in {FindEntry(label, part.start, key)} : IsEntry(label, i)}

(* find_key: the item with the key in a part, a set of at most one.        *)
FindKey(label, part, key) ==
  {i \in {FindEntry(label, part.start, key)} : i < part.stop}

Find(label, of, key) == UNION {FindKey(label, part, key) : part \in FindPart(label, of)}

(* xlhinfo and xlpinfo: the names in the label, and the instance of each,  *)
(* one more than that of the last before it with the same name.            *)
Listed(label, key) == {i \in DOMAIN label : label[i].key = key}

NamesIn(label, key) ==
  LET listed == Listed(label, key)
  IN  [k \in 1 .. Cardinality(listed) |->
         label[CHOOSE i \in listed : Cardinality(UpTo(listed, i)) = k].value[1]]

SameBefore(names, k) == {i \in 1 .. (k - 1) : names[i] = names[k]}

(* A plausible bug: one more than that of the first.                       *)
InstancesInFromFirst(label, key) ==
  LET names == NamesIn(label, key)
      instance[k \in DOMAIN names] ==
        LET same == SameBefore(names, k)
        IN  IF same = {} THEN 1 ELSE instance[Min(same)] + 1
  IN  instance

InstancesIn(label, key) ==
  LET names == NamesIn(label, key)
      instance[k \in DOMAIN names] ==
        LET same == SameBefore(names, k)
        IN  IF same = {} THEN 1 ELSE instance[Max(same)] + 1
  IN  instance

-----------------------------------------------------------------------------
(* Edits of the text.                                                      *)

(* insert_label_string, in front of the i-th item.                         *)
Inserted(label, i, item) == InsertAt(label, i, item)

(* cut_label_string: the blanks behind the item stay.                      *)
Cut(label, i) ==
  RemoveAt([label EXCEPT ![i - 1].blanks = @ + label[i].blanks], i)

(* An item written again in its place, with other elements.                *)
Rewritten(label, i, value) == [label EXCEPT ![i].value = value, ![i].wide = TRUE]

(* The elements of an item without count of them from the one behind       *)
(* element of them, and with new ones there.                               *)
Without(value, element, count) ==
  SubSeq(value, 1, element) \o SubSeq(value, element + count + 1, Len(value))

With(value, element, new) ==
  SubSeq(value, 1, element) \o new \o SubSeq(value, element + 1, Len(value))
=============================================================================
