---------------------------- MODULE MCLabelItems ----------------------------
(***************************************************************************)
(* LabelItems on short labels.                                             *)
(***************************************************************************)
EXTENDS LabelItems

Item(key, value, wide) == [key |-> key, value |-> value, wide |-> wide, blanks |-> 1]

Part(type, name, instance) == [type |-> type, name |-> name, instance |-> instance]

MCParts ==
  {Part("SYSTEM", "", 1), Part("PROPERTY", "p", 1), Part("HISTORY", "", 1), Part("HISTORY", "t", 1)}

MCNews == {<<"x">>, <<"x", "y">>}

(* A label of others, whose items the library would write wider; and one   *)
(* with an empty property and a history of two tasks of a name.            *)
MCInitialLabels ==
  LET system == Item(SystemKey, <<"">>, FALSE)
      task == Item(TaskKey, <<"t">>, FALSE)
  IN  {<<system, Item("a", <<"1", "2", "1">>, FALSE), task, Item("a", <<"1">>, FALSE)>>,
       <<system, Item(PropertyKey, <<"p">>, FALSE), task, task>>}

(* Two states that differ in the last call only are the same; what is said *)
(* of calls is said of steps.                                              *)
Lasting == <<file, op, labels, lblalloc, modified, position, updates>>
=============================================================================
