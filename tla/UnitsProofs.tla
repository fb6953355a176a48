----------------------------- MODULE UnitsProofs -----------------------------
(***************************************************************************)
(* Who owns the library's units, bufstates and descriptors, for any number *)
(* of them, when calls fail only in ways that the library cleans up after. *)
(*                                                                         *)
(* The lemmas follow the calls from the inside out: each routine takes a   *)
(* state that is Sound for the units that own a file, O, to one that is    *)
(* Sound for those that own one after it, and Keeps what is the others'.   *)
(***************************************************************************)
EXTENDS Units, WellFoundedInduction, TLAPS

(* The failures after which the library leaves nothing half done.          *)
Clean == {"option", "noinp", "open", "label", "late", "flush"}

Ways(fail) == fail \in Clean \cup {"none"}

(* The units of K, and what is theirs, are the same in s and in t.         *)
Keeps(s, t, K) ==
  \A v \in K : /\ v \in t.flagOpen
               /\ t.key[v] = s.key[v]
               /\ t.ptr[v] = s.ptr[v]
               /\ Channel(t, v) = Channel(s, v)

(* Units that are active, but for the primary input's, stay so.            *)
KeepsNames(s, t) == \A v \in Active(s) : t.key[v] = s.key[v]

(* What v2_activate_a_unit makes of an inactive unit.                      *)
Renamed(s, u, key) ==
  [s EXCEPT !.key[u] = key, !.ptr[u] = Null, !.flagOpen = @ \ {u}]

-----------------------------------------------------------------------------
(* Numbers and sets.                                                       *)

(* What the assumptions on the constants say of the unit table.            *)
LEMMA Table ==
  /\ NUnits \in Nat \ {0} /\ NFds \in Nat \ {0}
  /\ Null \notin Bufs
  /\ InpKeys \subseteq Keys /\ DefaultPI \in InpKeys
  /\ Primary \notin Keys /\ NoKey \notin Keys /\ NoKey # Primary
  /\ Unit \subseteq Nat /\ NoUnit \notin Unit
BY UnitTable DEF Unit, NoUnit

(* A set of numbers that is not empty has a least one.                     *)
LEMMA LeastIsThere ==
  ASSUME NEW S \in SUBSET Nat, S # {}
  PROVE  Least(S) \in S
<1>1. \E x \in S : \A y \in S : <<y, x>> \notin OpToRel(<, Nat)
  BY NatLessThanWellFounded, WFMin
<1>2. \E x \in S : \A y \in S : ~(y < x)
  BY <1>1 DEF OpToRel
<1>3. \E x \in S : \A y \in S : x <= y
  BY <1>2
<1> QED
  BY <1>3 DEF Least

-----------------------------------------------------------------------------
(* Slots of the unit table.                                                *)

(* The types of the fields of the state.                                   *)
LEMMA Fields ==
  ASSUME NEW s \in LibType
  PROVE  /\ s.key \in [Unit -> Keys \cup {Primary, NoKey}]
         /\ s.flagOpen \in SUBSET Unit
         /\ s.ptr \in [Unit -> Bufs \cup {Null}]
         /\ s.heap \in SUBSET Bufs
         /\ s.chan \in [Bufs -> -1 .. (NFds - 1)]
         /\ s.fds \in SUBSET (0 .. (NFds - 1))
         /\ s.primOpen \in BOOLEAN
         /\ s.primUnit \in Unit
         /\ s.byKey \in InpKeys \cup {NoKey}
         /\ s.byUnit \in Unit \cup {NoUnit}
         /\ s.source \in Keys \cup {Primary, NoKey}
         /\ s.corrupt \in BOOLEAN
BY DEF LibType

(* The open units are those with OPEN in FLAGS.                            *)
LEMMA OpenUnits ==
  ASSUME NEW s, Sound(s, s.flagOpen)
  PROVE  Open(s) = s.flagOpen
BY DEF Sound, OwnedBy, Open, Active

(* v2_activate_a_unit leaves the units that are active alone.              *)
LEMMA ActivateFacts ==
  ASSUME NEW s \in LibType, NEW key \in Keys \cup {Primary}
  PROVE  LET a == Activate(s, key) IN
         /\ a.unit \in Unit \cup {NoUnit}
         /\ a.unit = NoUnit => a.lib = s
         /\ a.unit # NoUnit =>
              /\ a.unit \in Active(s) => a.lib = s /\ s.key[a.unit] = key
              /\ a.unit \notin Active(s) =>
                   /\ \A u \in Unit : s.key[u] # key
                   /\ a.lib = Renamed(s, a.unit, key)
<1> DEFINE same == {u \in Unit : s.key[u] = key}
           free == Unit \ Active(s)
           u == Least(free)
<1>1. CASE same # {}
  <2>1. Least(same) \in same
    BY <1>1, Table, LeastIsThere
  <2>2. Activate(s, key) = [lib |-> s, unit |-> Least(same)]
    BY <1>1 DEF Activate
  <2>3. Least(same) \in Unit /\ Least(same) \in Active(s) /\ s.key[Least(same)] = key
    BY <2>1, Table DEF Active
  <2>4. Activate(s, key).lib = s /\ Activate(s, key).unit = Least(same)
    BY <2>2
  <2> HIDE DEF same, free, u
  <2> QED
    BY <2>3, <2>4, Table
<1>2. CASE same = {} /\ free = {}
  <2>1. Activate(s, key) = [lib |-> s, unit |-> NoUnit]
    BY <1>2 DEF Activate
  <2> QED
    BY <2>1
<1>3. CASE same = {} /\ free # {}
  <2>1. u \in free
    BY <1>3, Table, LeastIsThere
  <2>2. Activate(s, key) = [lib |-> Renamed(s, u, key), unit |-> u]
    BY <1>3 DEF Activate, Renamed
  <2> QED
    BY <1>3, <2>1, <2>2, Table
<1> QED
  BY <1>1, <1>2, <1>3

(* v2_activate_a_unit changes one slot.                                    *)
LEMMA RenamedFacts ==
  ASSUME NEW s \in LibType, NEW u \in Unit, NEW key \in Keys \cup {Primary}
  PROVE  LET t == Renamed(s, u, key) IN
         /\ t \in LibType /\ t.corrupt = s.corrupt
         /\ t.flagOpen = s.flagOpen \ {u}
         /\ t.heap = s.heap /\ t.fds = s.fds /\ t.chan = s.chan
         /\ t.primOpen = s.primOpen /\ t.primUnit = s.primUnit
         /\ t.byKey = s.byKey /\ t.byUnit = s.byUnit /\ t.source = s.source
         /\ \A v \in Unit : t.key[v] = IF v = u THEN key ELSE s.key[v]
         /\ \A v \in Unit : t.ptr[v] = IF v = u THEN Null ELSE s.ptr[v]
<1> DEFINE k == [s.key EXCEPT ![u] = key]
           q == [s.ptr EXCEPT ![u] = Null]
           t == Renamed(s, u, key)
<1>1. /\ k \in [Unit -> Keys \cup {Primary, NoKey}]
      /\ q \in [Unit -> Bufs \cup {Null}]
      /\ \A v \in Unit : k[v] = IF v = u THEN key ELSE s.key[v]
      /\ \A v \in Unit : q[v] = IF v = u THEN Null ELSE s.ptr[v]
  BY Fields
<1>2. t = [s EXCEPT !.key = k, !.ptr = q, !.flagOpen = s.flagOpen \ {u}]
  BY DEF Renamed, LibType
<1> HIDE DEF k, q, t
<1>3. /\ t.key = k /\ t.ptr = q /\ t.corrupt = s.corrupt
      /\ t.flagOpen = s.flagOpen \ {u}
      /\ t.heap = s.heap /\ t.fds = s.fds /\ t.chan = s.chan
      /\ t.primOpen = s.primOpen /\ t.primUnit = s.primUnit
      /\ t.byKey = s.byKey /\ t.byUnit = s.byUnit /\ t.source = s.source
  BY <1>2 DEF LibType
<1>4. t \in LibType
  BY <1>1, <1>2 DEF LibType
<1> QED
  BY <1>1, <1>3, <1>4 DEF t

(* A name given to an inactive unit.                                       *)
LEMMA NewName ==
  ASSUME NEW s, NEW O, Sound(s, O), NEW key \in Keys, NEW u \in Unit \ Active(s),
         NEW t, t = Renamed(s, u, key)
  PROVE  /\ Sound(t, O) /\ u \notin O
         /\ t.flagOpen = s.flagOpen
         /\ Keeps(s, t, s.flagOpen)
         /\ KeepsNames(s, t)
         /\ t.key[u] = key
<1>1. u \notin O
  BY DEF Sound, OwnedBy, Active
<1>2. t \in LibType /\ ~t.corrupt
  BY RenamedFacts DEF Sound
<1>3. t.flagOpen = s.flagOpen
  <2>1. s.flagOpen \ {u} = s.flagOpen
    BY <1>1 DEF Sound
  <2>2. t.flagOpen = s.flagOpen \ {u}
    BY RenamedFacts DEF Sound
  <2> QED
    BY <2>1, <2>2
<1>4. /\ t.heap = s.heap /\ t.fds = s.fds /\ t.chan = s.chan /\ t.primOpen = s.primOpen
      /\ t.primUnit = s.primUnit /\ t.byKey = s.byKey /\ t.byUnit = s.byUnit
      /\ t.source = s.source
  BY RenamedFacts DEF Sound
<1>5. /\ \A v \in Unit : t.key[v] = IF v = u THEN key ELSE s.key[v]
      /\ \A v \in Unit : t.ptr[v] = IF v = u THEN Null ELSE s.ptr[v]
  BY RenamedFacts DEF Sound
<1>6. OwnedBy(t, O)
  BY <1>1, <1>3, <1>4, <1>5 DEF Sound, OwnedBy, Channel
<1>7. PrimaryIsKnown(t)
  <2>1. s.primUnit \in Unit /\ s.byUnit \in Unit \cup {NoUnit}
    BY Fields DEF Sound
  <2>2. s.primOpen => s.key[s.primUnit] = Primary
    BY DEF Sound, PrimaryIsKnown
  <2>3. s.key[u] = NoKey
    BY DEF Active
  <2>4. key # Primary
    BY Table
  <2>5. \A v \in Unit : t.key[v] = Primary => v = t.primUnit
    BY <1>4, <1>5, <2>4 DEF Sound, PrimaryIsKnown
  <2>6. t.byUnit # NoUnit => t.key[t.byUnit] # Primary
    BY <1>4, <1>5, <2>1, <2>4 DEF Sound, PrimaryIsKnown
  <2>7. s.primOpen => s.primUnit # u
    BY <2>2, <2>3, Table
  <2>8. t.primOpen => /\ t.key[t.primUnit] = Primary
                      /\ t.byUnit = NoUnit => t.source = t.byKey
    BY <1>4, <1>5, <2>1, <2>2, <2>7 DEF Sound, PrimaryIsKnown
  <2> QED
    BY <2>5, <2>6, <2>8 DEF PrimaryIsKnown
<1>8. Sound(t, O)
  BY <1>2, <1>3, <1>6, <1>7 DEF Sound
<1>9. Keeps(s, t, s.flagOpen)
  BY <1>1, <1>3, <1>4, <1>5 DEF Keeps, Sound, Channel
<1>10. KeepsNames(s, t)
  BY <1>5 DEF KeepsNames, Active
<1> QED
  BY <1>1, <1>3, <1>5, <1>8, <1>9, <1>10

(* v2_activate_a_unit for a caller leaves every unit its own.              *)
LEMMA ActivateKeeps ==
  ASSUME NEW s, NEW O, Sound(s, O), NEW key \in Keys
  PROVE  LET a == Activate(s, key) IN
         /\ Sound(a.lib, O)
         /\ a.lib.flagOpen = s.flagOpen
         /\ Keeps(s, a.lib, s.flagOpen)
         /\ KeepsNames(s, a.lib)
         /\ a.lib.primUnit = s.primUnit
         /\ a.unit \in Unit \cup {NoUnit}
         /\ a.unit # NoUnit => a.lib.key[a.unit] = key
<1> DEFINE a == Activate(s, key)
<1>1. s \in LibType /\ key \in Keys \cup {Primary}
  BY DEF Sound
<1>2. /\ a.unit \in Unit \cup {NoUnit}
      /\ a.unit = NoUnit => a.lib = s
      /\ a.unit # NoUnit =>
           /\ a.unit \in Active(s) => a.lib = s /\ s.key[a.unit] = key
           /\ a.unit \notin Active(s) =>
                a.lib = Renamed(s, a.unit, key)
  BY <1>1, ActivateFacts
<1> HIDE DEF a
<1>3. Keeps(s, s, s.flagOpen) /\ KeepsNames(s, s)
  BY DEF Keeps, KeepsNames
<1>4. CASE a.lib = s /\ (a.unit # NoUnit => s.key[a.unit] = key)
  BY <1>2, <1>3, <1>4 DEF a
<1>5. CASE /\ a.unit \in Unit \ Active(s)
           /\ a.lib = Renamed(s, a.unit, key)
  <2>1. /\ Sound(a.lib, O)
        /\ a.lib.flagOpen = s.flagOpen
        /\ Keeps(s, a.lib, s.flagOpen)
        /\ KeepsNames(s, a.lib)
        /\ a.lib.key[a.unit] = key
    BY <1>5, NewName
  <2>2. a.lib.primUnit = s.primUnit
    BY <1>1, <1>5, RenamedFacts
  <2> QED
    BY <1>2, <2>1, <2>2 DEF a
<1> QED
  BY <1>2, <1>4, <1>5, Table

(* v2_deactivate_a_unit, of a unit that owns nothing.                      *)
LEMMA DeactivateFacts ==
  ASSUME NEW s, NEW O, Sound(s, O), NEW u \in Unit \ O,
         s.primOpen => u # s.primUnit
  PROVE  /\ Sound(Deactivate(s, u), O)
         /\ Deactivate(s, u).flagOpen = s.flagOpen
         /\ Keeps(s, Deactivate(s, u), s.flagOpen)
<1> DEFINE t == Deactivate(s, u)
<1>1. t = [s EXCEPT !.key[u] = NoKey]
  BY DEF Deactivate
<1> HIDE DEF t
<1>2. t \in LibType /\ ~t.corrupt
  BY <1>1, Table, Fields DEF Sound, LibType
<1>3. /\ t.flagOpen = s.flagOpen /\ t.ptr = s.ptr
      /\ t.heap = s.heap /\ t.fds = s.fds /\ t.chan = s.chan /\ t.primOpen = s.primOpen
      /\ t.primUnit = s.primUnit /\ t.byKey = s.byKey /\ t.byUnit = s.byUnit
      /\ t.source = s.source
  BY <1>1 DEF Sound, LibType
<1>4. \A v \in Unit : t.key[v] = IF v = u THEN NoKey ELSE s.key[v]
  BY <1>1, Fields DEF Sound, LibType
<1>5. OwnedBy(t, O)
  BY <1>3, <1>4 DEF Sound, OwnedBy, Channel
<1>6. PrimaryIsKnown(t)
  <2>1. s.primUnit \in Unit /\ s.byUnit \in Unit \cup {NoUnit}
    BY Fields DEF Sound
  <2> QED
    BY <1>3, <1>4, <2>1, Table DEF Sound, PrimaryIsKnown
<1>7. Keeps(s, t, s.flagOpen)
  BY <1>3, <1>4 DEF Keeps, Sound, Channel
<1> QED
  BY <1>2, <1>3, <1>5, <1>6, <1>7 DEF Sound, t

(* zvunit: no open unit loses its name, its file or its bufstate.          *)
LEMMA ZvUnitFacts ==
  ASSUME NEW s, Sound(s, s.flagOpen), NEW key \in Keys, NEW fail, Ways(fail),
         NEW old \in Unit \ (s.flagOpen \cup {s.primUnit}),
         fail = "option" => \A u \in Open(s) : s.key[u] # key
  PROVE  LET r == ZvUnit(s, key, fail, old) IN
         /\ Sound(r.lib, r.lib.flagOpen)
         /\ r.lib.flagOpen = s.flagOpen
         /\ Keeps(s, r.lib, s.flagOpen)
         /\ r.status \in {"SUCCESS", "ERROR", "NO_FREE_UNITS"}
         /\ r.status = "SUCCESS" =>
              /\ r.unit \in Unit
              /\ r.lib.key[r.unit] = key
              /\ KeepsNames(s, r.lib)
<1> DEFINE a == Activate(s, key)
           r == ZvUnit(s, key, fail, old)
<1>1. /\ Sound(a.lib, s.flagOpen)
      /\ a.lib.flagOpen = s.flagOpen
      /\ Keeps(s, a.lib, s.flagOpen)
      /\ KeepsNames(s, a.lib)
      /\ a.lib.primUnit = s.primUnit
      /\ a.unit \in Unit \cup {NoUnit}
      /\ a.unit # NoUnit => a.lib.key[a.unit] = key
  BY ActivateKeeps
<1>2. Ways(fail) => fail # "optionopen"
  BY DEF Ways, Clean
<1>3. CASE a.unit = NoUnit
  <2>1. r = [unit |-> old, lib |-> Deactivate(s, old), status |-> "NO_FREE_UNITS"]
    BY <1>3 DEF ZvUnit
  <2>2. /\ Sound(Deactivate(s, old), s.flagOpen)
        /\ Deactivate(s, old).flagOpen = s.flagOpen
        /\ Keeps(s, Deactivate(s, old), s.flagOpen)
    BY DeactivateFacts
  <2> HIDE DEF r
  <2> QED
    BY <2>1, <2>2 DEF r
<1>4. CASE a.unit # NoUnit /\ fail = "option"
  <2>1. r = [unit |-> a.unit, lib |-> Deactivate(a.lib, a.unit), status |-> "ERROR"]
    BY <1>4 DEF ZvUnit
  <2>2. a.unit \in Unit \ s.flagOpen
    BY <1>1, <1>4, OpenUnits DEF Keeps
  <2>3. a.lib.primOpen => a.unit # a.lib.primUnit
    BY <1>1, <1>4, Table DEF Sound, PrimaryIsKnown
  <2>4. /\ Sound(Deactivate(a.lib, a.unit), s.flagOpen)
        /\ Deactivate(a.lib, a.unit).flagOpen = s.flagOpen
        /\ Keeps(a.lib, Deactivate(a.lib, a.unit), s.flagOpen)
    BY <1>1, <2>2, <2>3, DeactivateFacts
  <2>5. Keeps(s, Deactivate(a.lib, a.unit), s.flagOpen)
    BY <1>1, <2>4 DEF Keeps
  <2> HIDE DEF r, a
  <2> QED
    BY <2>1, <2>4, <2>5 DEF r
<1>5. CASE a.unit # NoUnit /\ fail # "option"
  <2>1. r = [unit |-> a.unit, lib |-> a.lib, status |-> "SUCCESS"]
    BY <1>2, <1>5 DEF ZvUnit
  <2> HIDE DEF r, a
  <2> QED
    BY <1>1, <1>5, <2>1 DEF r
<1> QED
  BY <1>3, <1>4, <1>5

-----------------------------------------------------------------------------
(* The primary input.                                                      *)

(* A primary input that is open owns nothing.                              *)
LEMMA DropFacts ==
  ASSUME NEW s, NEW O, Sound(s, O)
  PROVE  LET t == DropPrimary(s) IN
         /\ Sound(t, O)
         /\ ~t.primOpen
         /\ t.flagOpen = s.flagOpen /\ t.key = s.key /\ t.ptr = s.ptr /\ t.chan = s.chan
         /\ t.primUnit = s.primUnit /\ t.byUnit = s.byUnit /\ t.byKey = s.byKey
<1> DEFINE t == DropPrimary(s)
           p == s.primUnit
           c == CloseUnit(s, p)
<1>1. CASE ~s.primOpen
  BY <1>1 DEF DropPrimary
<1>2. CASE s.primOpen
  <2>1. s \in LibType /\ ~s.corrupt /\ p \in Unit /\ s.key[p] = Primary
    BY <1>2, Fields DEF Sound, PrimaryIsKnown
  <2>2. p \in Unit \ O
    BY <2>1 DEF Sound, OwnedBy
  <2>3. s.ptr[p] = Null /\ p \notin s.flagOpen
    BY <2>2 DEF Sound, OwnedBy
  <2>4. Forget(s.chan, {Null}) = s.chan
    BY <2>1, Fields, Table DEF Forget
  <2>5. s.heap \ {Null} = s.heap /\ s.flagOpen \ {p} = s.flagOpen
    BY <2>1, <2>3, Fields, Table
  <2>6. [s.ptr EXCEPT ![p] = Null] = s.ptr
    BY <2>1, <2>3, Fields
  <2>7. /\ c \in LibType /\ c.corrupt = FALSE
        /\ c.heap = s.heap /\ c.chan = s.chan /\ c.ptr = s.ptr /\ c.flagOpen = s.flagOpen
        /\ c.key = s.key /\ c.fds = s.fds /\ c.primUnit = s.primUnit
        /\ c.byUnit = s.byUnit /\ c.byKey = s.byKey
    <3>1. c = [s EXCEPT !.corrupt = FALSE, !.heap = s.heap, !.chan = s.chan, !.ptr = s.ptr,
                        !.flagOpen = s.flagOpen]
      BY <2>1, <2>3, <2>4, <2>5, <2>6 DEF LibType, CloseUnit
    <3> HIDE DEF c
    <3> QED
      BY <2>1, <3>1 DEF LibType
  <2>8. t = [c EXCEPT !.primOpen = FALSE, !.source = NoKey]
    BY <1>2 DEF DropPrimary
  <2> HIDE DEF t, c
  <2>9. /\ t \in LibType /\ t.corrupt = FALSE /\ t.primOpen = FALSE
        /\ t.heap = s.heap /\ t.chan = s.chan /\ t.ptr = s.ptr /\ t.flagOpen = s.flagOpen
        /\ t.key = s.key /\ t.fds = s.fds /\ t.primUnit = s.primUnit
        /\ t.byUnit = s.byUnit /\ t.byKey = s.byKey
    BY <2>7, <2>8 DEF LibType
  <2>10. OwnedBy(t, O)
    BY <2>9 DEF Sound, OwnedBy, Channel
  <2>11. PrimaryIsKnown(t)
    BY <2>9 DEF Sound, PrimaryIsKnown
  <2> QED
    BY <2>9, <2>10, <2>11 DEF Sound, t
<1> QED
  BY <1>1, <1>2

(* v2_est_primary_environ shares the unit's bufstate for a while, and      *)
(* keeps none of it.                                                       *)
LEMMA MadeFacts ==
  ASSUME NEW n \in LibType, NEW u \in Unit, NEW fail, fail # "primary",
         n.ptr[n.primUnit] = Null, n.primUnit \notin n.flagOpen
  PROVE  PrimaryMade(EstPrimaryEnviron(n, u, fail)) =
           [lib |-> [n EXCEPT !.source = n.key[u], !.primOpen = TRUE],
            status |-> "SUCCESS"]
<1> DEFINE p == n.primUnit
           q == [n.ptr EXCEPT ![p] = n.ptr[u]]
           o == IF u \in n.flagOpen THEN n.flagOpen \cup {p} ELSE n.flagOpen \ {p}
           f == [n EXCEPT !.ptr = [q EXCEPT ![p] = Null], !.flagOpen = o,
                          !.source = n.key[u]]
           t == [n EXCEPT !.source = n.key[u], !.primOpen = TRUE]
<1>1. [q EXCEPT ![p] = Null] = n.ptr /\ o \ {p} = n.flagOpen
  BY Fields
<1>2. EstPrimaryEnviron(n, u, fail) = [lib |-> f, status |-> "SUCCESS"]
  BY DEF EstPrimaryEnviron, Ok, LibType
<1>3. f = [n EXCEPT !.flagOpen = o, !.source = n.key[u]]
  BY <1>1 DEF LibType
<1> HIDE DEF q, o, f
<1>4. f.primUnit = p
  BY <1>3 DEF LibType
<1>5. [f EXCEPT !.primOpen = TRUE, !.flagOpen = @ \ {p}] = t
  BY <1>1, <1>3 DEF LibType
<1> DEFINE e == [lib |-> f, status |-> "SUCCESS"]
<1>6. e.lib = f /\ e.status = "SUCCESS"
  OBVIOUS
<1> HIDE DEF e
<1>7. PrimaryMade(e) = [lib |-> [f EXCEPT !.primOpen = TRUE, !.flagOpen = @ \ {f.primUnit}],
                        status |-> "SUCCESS"]
  BY <1>6 DEF PrimaryMade, Ok
<1> QED
  BY <1>2, <1>4, <1>5, <1>7 DEF e

(* The slot that v2_activate_a_unit finds for the primary input is nobody  *)
(* else's.                                                                 *)
LEMMA MakePrimaryFacts ==
  ASSUME NEW s, NEW O, Sound(s, O), ~s.primOpen, NEW u \in O, IsPrimary(s, u),
         NEW fail, Ways(fail)
  PROVE  LET r == MakePrimary(Activate(s, Primary), u, fail) IN
         /\ Sound(r.lib, O)
         /\ r.lib.flagOpen = s.flagOpen
         /\ Keeps(s, r.lib, s.flagOpen)
         /\ KeepsNames(s, r.lib)
         /\ r.status \in {"SUCCESS", "ERROR"}
<1> DEFINE a == Activate(s, Primary)
           p == a.unit
           r == MakePrimary(a, u, fail)
<1>1. s \in LibType /\ ~s.corrupt /\ O \in SUBSET Unit /\ s.flagOpen \subseteq O
  BY DEF Sound
<1>2. /\ p \in Unit \cup {NoUnit}
      /\ p = NoUnit => a.lib = s
      /\ p # NoUnit =>
           /\ p \in Active(s) => a.lib = s /\ s.key[p] = Primary
           /\ p \notin Active(s) =>
                /\ \A v \in Unit : s.key[v] # Primary
                /\ a.lib = Renamed(s, p, Primary)
  BY <1>1, ActivateFacts
<1> HIDE DEF a
<1>3. CASE p = NoUnit
  <2>1. r = [lib |-> s, status |-> "ERROR"]
    BY <1>2, <1>3 DEF MakePrimary, Err
  <2> HIDE DEF r
  <2>2. r.lib = s /\ r.status = "ERROR"
    BY <2>1
  <2> QED
    BY <2>2 DEF Keeps, KeepsNames, r, a
<1>4. CASE p # NoUnit
  <2>1. p \in Unit \ O /\ p # u
    BY <1>1, <1>2, <1>4 DEF Sound, OwnedBy, Active
  <2>2. s.ptr[p] = Null /\ p \notin s.flagOpen
    BY <1>1, <2>1 DEF Sound, OwnedBy
  <2> DEFINE l == a.lib
  <2>3. /\ l \in LibType /\ l.corrupt = FALSE
        /\ l.heap = s.heap /\ l.chan = s.chan /\ l.fds = s.fds
        /\ l.byUnit = s.byUnit /\ l.byKey = s.byKey
        /\ l.flagOpen = s.flagOpen
        /\ \A v \in Unit : l.key[v] = IF v = p THEN Primary ELSE s.key[v]
        /\ \A v \in Unit : l.ptr[v] = s.ptr[v]
    <3>1. CASE l = s /\ s.key[p] = Primary
      BY <1>1, <3>1
    <3>2. CASE l = Renamed(s, p, Primary)
      <4>1. s.flagOpen \ {p} = s.flagOpen
        BY <2>2
      <4>2. /\ l \in LibType /\ l.corrupt = s.corrupt
            /\ l.heap = s.heap /\ l.chan = s.chan /\ l.fds = s.fds
            /\ l.byUnit = s.byUnit /\ l.byKey = s.byKey
            /\ l.flagOpen = s.flagOpen \ {p}
            /\ \A v \in Unit : l.key[v] = IF v = p THEN Primary ELSE s.key[v]
            /\ \A v \in Unit : l.ptr[v] = IF v = p THEN Null ELSE s.ptr[v]
        BY <1>1, <2>1, <3>2, RenamedFacts
      <4> QED
        BY <1>1, <2>2, <4>1, <4>2, Fields
    <3> QED
      BY <1>2, <1>4, <3>1, <3>2
  <2> HIDE DEF l
  <2> DEFINE n == [l EXCEPT !.primUnit = p]
             t == [n EXCEPT !.source = n.key[u], !.primOpen = TRUE]
  <2>4. /\ n \in LibType /\ n.corrupt = FALSE /\ n.primUnit = p
        /\ n.heap = l.heap /\ n.chan = l.chan /\ n.fds = l.fds
        /\ n.byUnit = l.byUnit /\ n.byKey = l.byKey
        /\ n.flagOpen = l.flagOpen /\ n.key = l.key /\ n.ptr = l.ptr
    BY <1>2, <1>4, <2>3 DEF LibType
  <2> HIDE DEF n
  <2>5. u \in Unit /\ n.key[u] \in Keys \cup {Primary, NoKey}
    BY <1>1, <2>4, Fields
  <2>6. /\ t \in LibType /\ t.corrupt = FALSE /\ t.primUnit = p
        /\ t.heap = n.heap /\ t.chan = n.chan /\ t.fds = n.fds
        /\ t.byUnit = n.byUnit /\ t.byKey = n.byKey /\ t.flagOpen = n.flagOpen
        /\ t.source = n.key[u] /\ t.key = n.key /\ t.ptr = n.ptr
    BY <2>4, <2>5 DEF LibType
  <2>7. PrimaryMade(EstPrimaryEnviron(n, u, fail)) = [lib |-> t, status |-> "SUCCESS"]
    <3>1. fail # "primary"
      BY DEF Ways, Clean
    <3>2. n.ptr[p] = Null /\ p \notin n.flagOpen /\ p \in Unit
      BY <2>1, <2>2, <2>3, <2>4
    <3> QED
      BY <2>4, <2>5, <3>1, <3>2, MadeFacts
  <2> HIDE DEF t
  <2>8. /\ t \in LibType /\ t.corrupt = FALSE /\ t.primUnit = p
        /\ t.heap = s.heap /\ t.chan = s.chan /\ t.fds = s.fds
        /\ t.byUnit = s.byUnit /\ t.byKey = s.byKey /\ t.flagOpen = s.flagOpen
        /\ t.source = s.key[u]
        /\ \A v \in Unit : t.key[v] = IF v = p THEN Primary ELSE s.key[v]
        /\ \A v \in Unit : t.ptr[v] = s.ptr[v]
    BY <2>1, <2>3, <2>4, <2>5, <2>6
  <2>9. r = [lib |-> t, status |-> "SUCCESS"]
    BY <1>4, <2>7 DEF MakePrimary, n, l
  <2>10. OwnedBy(t, O)
    BY <1>1, <2>1, <2>8 DEF Sound, OwnedBy, Channel
  <2>11. PrimaryIsKnown(t)
    <3>1. \A v \in Unit \ {p} : s.key[v] # Primary
      BY <1>2, <1>4 DEF Sound, PrimaryIsKnown, Active
    <3>2. s.byUnit \in Unit \cup {NoUnit} /\ (s.byUnit # NoUnit => s.byUnit = u)
      BY <1>1, Fields DEF IsPrimary
    <3>3. s.byUnit = NoUnit => s.key[u] = s.byKey
      BY DEF IsPrimary
    <3> QED
      BY <2>1, <2>8, <3>1, <3>2, <3>3, Table DEF PrimaryIsKnown
  <2>12. Sound(t, O)
    BY <1>1, <2>8, <2>10, <2>11 DEF Sound
  <2>13. Keeps(s, t, s.flagOpen) /\ KeepsNames(s, t)
    BY <1>1, <1>2, <1>4, <2>1, <2>8 DEF Keeps, KeepsNames, Channel, Active
  <2> HIDE DEF r, p
  <2> QED
    BY <2>8, <2>9, <2>12, <2>13 DEF r, a
<1> QED
  BY <1>3, <1>4

(* v2_check_primary_input takes nothing from the unit it copies.           *)
LEMMA CheckPrimaryFacts ==
  ASSUME NEW s, NEW O, Sound(s, O), NEW u \in O, NEW fail, Ways(fail)
  PROVE  LET r == CheckPrimary(s, u, fail) IN
         /\ Sound(r.lib, O)
         /\ r.lib.flagOpen = s.flagOpen
         /\ Keeps(s, r.lib, s.flagOpen)
         /\ KeepsNames(s, r.lib)
         /\ r.status \in {"SUCCESS", "ERROR"}
<1> DEFINE d == DropPrimary(s)
           r == CheckPrimary(s, u, fail)
<1>1. CASE ~IsPrimary(s, u)
  BY <1>1 DEF CheckPrimary, Ok, Keeps, KeepsNames
<1>2. CASE IsPrimary(s, u)
  <2>1. /\ Sound(d, O) /\ ~d.primOpen
        /\ d.flagOpen = s.flagOpen /\ d.key = s.key /\ d.ptr = s.ptr /\ d.chan = s.chan
        /\ d.byUnit = s.byUnit /\ d.byKey = s.byKey
    BY DropFacts
  <2> HIDE DEF d
  <2>2. IsPrimary(d, u)
    BY <1>2, <2>1 DEF IsPrimary
  <2>3. r = MakePrimary(Activate(d, Primary), u, fail)
    BY <1>2 DEF CheckPrimary, d
  <2> HIDE DEF r
  <2>4. /\ Sound(r.lib, O)
        /\ r.lib.flagOpen = d.flagOpen
        /\ Keeps(d, r.lib, d.flagOpen)
        /\ KeepsNames(d, r.lib)
        /\ r.status \in {"SUCCESS", "ERROR"}
    BY <2>1, <2>2, <2>3, MakePrimaryFacts
  <2> QED
    BY <2>1, <2>4 DEF Keeps, KeepsNames, Channel, Active, r
<1> QED
  BY <1>1, <1>2

-----------------------------------------------------------------------------
(* Opening and closing a disk file.                                        *)

(* v2_close_down, field by field.                                          *)
LEMMA CloseDownFields ==
  ASSUME NEW s \in LibType, NEW u \in Unit, s.ptr[u] \in s.heap
  PROVE  LET t == CloseDown(s, u) IN
         /\ t \in LibType /\ t.corrupt = s.corrupt
         /\ t.flagOpen = s.flagOpen \ {u} /\ t.key = s.key
         /\ t.heap = s.heap \ {s.ptr[u]} /\ t.fds = s.fds \ {Channel(s, u)}
         /\ t.primOpen = s.primOpen /\ t.primUnit = s.primUnit
         /\ t.byKey = s.byKey /\ t.byUnit = s.byUnit /\ t.source = s.source
         /\ \A v \in Unit : t.ptr[v] = IF v = u THEN Null ELSE s.ptr[v]
         /\ \A b \in Bufs : t.chan[b] = IF b = s.ptr[u] THEN 0 ELSE s.chan[b]
<1> DEFINE b == s.ptr[u]
           q == [s.ptr EXCEPT ![u] = Null]
           k == Forget(s.chan, {b})
           c == CloseOsFile(s, u)
           t == CloseDown(s, u)
<1>1. /\ q \in [Unit -> Bufs \cup {Null}]
      /\ \A v \in Unit : q[v] = IF v = u THEN Null ELSE s.ptr[v]
  BY Fields
<1>2. 0 \in -1 .. (NFds - 1)
  BY Table
<1>3. /\ k \in [Bufs -> -1 .. (NFds - 1)]
      /\ \A a \in Bufs : k[a] = IF a = b THEN 0 ELSE s.chan[a]
  BY <1>2, Fields DEF Forget
<1>4. c = [s EXCEPT !.fds = s.fds \ {Channel(s, u)}]
  BY DEF CloseOsFile, Channel
<1> HIDE DEF c
<1>5. /\ c.ptr = s.ptr /\ c.heap = s.heap /\ c.chan = s.chan /\ c.flagOpen = s.flagOpen
      /\ c.corrupt = s.corrupt
      /\ c \in LibType
  BY <1>4 DEF LibType
<1>6. t = CloseUnit(c, u)
  BY DEF CloseDown, c
<1>7. CloseUnit(c, u) =
        [c EXCEPT !.corrupt = s.corrupt, !.heap = s.heap \ {b}, !.chan = k, !.ptr = q,
                  !.flagOpen = s.flagOpen \ {u}]
  BY <1>5, Fields DEF CloseUnit, LibType
<1> HIDE DEF t, q, k
<1>8. t = [s EXCEPT !.fds = s.fds \ {Channel(s, u)}, !.heap = s.heap \ {b}, !.chan = k,
                    !.ptr = q, !.flagOpen = s.flagOpen \ {u}]
  BY <1>4, <1>6, <1>7 DEF LibType
<1>9. t \in LibType
  BY <1>1, <1>3, <1>8 DEF LibType
<1>10. /\ t.corrupt = s.corrupt
       /\ t.flagOpen = s.flagOpen \ {u} /\ t.key = s.key
       /\ t.heap = s.heap \ {b} /\ t.fds = s.fds \ {Channel(s, u)}
       /\ t.primOpen = s.primOpen /\ t.primUnit = s.primUnit
       /\ t.byKey = s.byKey /\ t.byUnit = s.byUnit /\ t.source = s.source
       /\ t.ptr = q /\ t.chan = k
  BY <1>8 DEF LibType
<1> QED
  BY <1>1, <1>3, <1>9, <1>10 DEF t

(* v2_close_down of a unit that owns a file gives back just that.          *)
LEMMA CloseDownFacts ==
  ASSUME NEW s, NEW O, Sound(s, O), NEW u \in O
  PROVE  LET t == CloseDown(s, u) IN
         /\ Sound(t, O \ {u})
         /\ t.flagOpen = s.flagOpen \ {u}
         /\ t.key = s.key
         /\ t.primOpen = s.primOpen /\ t.primUnit = s.primUnit
         /\ Keeps(s, t, s.flagOpen \ {u})
<1> DEFINE t == CloseDown(s, u)
<1>1. s \in LibType /\ ~s.corrupt /\ O \in SUBSET Unit /\ s.flagOpen \subseteq O
  BY DEF Sound
<1>2. s.ptr[u] \in s.heap /\ s.heap \subseteq Bufs
  BY <1>1, Fields DEF Sound, OwnedBy
<1>3. /\ t \in LibType /\ t.corrupt = s.corrupt
      /\ t.flagOpen = s.flagOpen \ {u} /\ t.key = s.key
      /\ t.heap = s.heap \ {s.ptr[u]} /\ t.fds = s.fds \ {Channel(s, u)}
      /\ t.primOpen = s.primOpen /\ t.primUnit = s.primUnit
      /\ t.byKey = s.byKey /\ t.byUnit = s.byUnit /\ t.source = s.source
      /\ \A v \in Unit : t.ptr[v] = IF v = u THEN Null ELSE s.ptr[v]
      /\ \A b \in Bufs : t.chan[b] = IF b = s.ptr[u] THEN 0 ELSE s.chan[b]
  BY <1>1, <1>2, CloseDownFields
<1> HIDE DEF t
<1>4. \A v \in O \ {u} : /\ t.ptr[v] = s.ptr[v] /\ Channel(t, v) = Channel(s, v)
                         /\ s.ptr[v] \in t.heap
                         /\ Channel(s, v) \in t.fds \ {Stdin}
  <2> SUFFICES ASSUME NEW v \in O \ {u}
               PROVE  /\ t.ptr[v] = s.ptr[v] /\ Channel(t, v) = Channel(s, v)
                      /\ s.ptr[v] \in t.heap
                      /\ Channel(s, v) \in t.fds \ {Stdin}
    OBVIOUS
  <2>1. /\ s.ptr[v] \in s.heap /\ s.ptr[v] # s.ptr[u]
        /\ Channel(s, v) \in s.fds \ {Stdin} /\ Channel(s, v) # Channel(s, u)
    BY DEF Sound, OwnedBy
  <2> QED
    BY <1>1, <1>2, <1>3, <2>1 DEF Channel
<1>5. OwnedBy(t, O \ {u})
  <2>1. \A v \in Unit \ (O \ {u}) : t.ptr[v] = Null
    BY <1>3 DEF Sound, OwnedBy
  <2>2. \A v, w \in O \ {u} : v # w => /\ t.ptr[v] # t.ptr[w]
                                       /\ Channel(t, v) # Channel(t, w)
    BY <1>4 DEF Sound, OwnedBy
  <2>3. \A b \in t.heap : \E v \in O \ {u} : b = t.ptr[v]
    BY <1>3, <1>4 DEF Sound, OwnedBy
  <2>4. Channel(s, u) # Stdin /\ Stdin \in t.fds
    BY <1>3 DEF Sound, OwnedBy
  <2>5. \A d \in t.fds \ {Stdin} : \E v \in O \ {u} : d = Channel(t, v)
    BY <1>3, <1>4 DEF Sound, OwnedBy
  <2>6. \A v \in O \ {u} : t.key[v] \notin {NoKey, Primary}
    BY <1>3 DEF Sound, OwnedBy
  <2> QED
    BY <1>4, <2>1, <2>2, <2>3, <2>4, <2>5, <2>6 DEF OwnedBy
<1>6. PrimaryIsKnown(t)
  BY <1>3 DEF Sound, PrimaryIsKnown
<1>7. Sound(t, O \ {u})
  BY <1>1, <1>3, <1>5, <1>6 DEF Sound
<1>8. Keeps(s, t, s.flagOpen \ {u})
  BY <1>1, <1>3, <1>4 DEF Keeps
<1> QED
  BY <1>3, <1>7, <1>8 DEF t

(* What open(2) leaves: a bufstate for the unit, with a descriptor that    *)
(* was free, or with -1.                                                   *)
LEMMA OpenDiskFields ==
  ASSUME NEW s \in LibType, NEW u \in Unit, ~(Bufs \subseteq s.heap), NEW fail, Ways(fail)
  PROVE  LET o == OpenDisk(NewBufstate(s, u), u, fail)
             l == o.lib
         IN  /\ o.status \in {"SUCCESS", "ERROR"}
             /\ l \in LibType /\ l.corrupt = s.corrupt
             /\ l.flagOpen = s.flagOpen /\ l.key = s.key
             /\ l.primOpen = s.primOpen /\ l.primUnit = s.primUnit
             /\ l.byKey = s.byKey /\ l.byUnit = s.byUnit /\ l.source = s.source
             /\ l.ptr[u] \in Bufs \ s.heap
             /\ l.heap = s.heap \cup {l.ptr[u]}
             /\ \A v \in Unit \ {u} : l.ptr[v] = s.ptr[v]
             /\ \A b \in Bufs \ {l.ptr[u]} : l.chan[b] = s.chan[b]
             /\ o.status = "SUCCESS" =>
                  /\ Channel(l, u) \in (0 .. (NFds - 1)) \ s.fds
                  /\ l.fds = s.fds \cup {Channel(l, u)}
             /\ o.status = "ERROR" => Channel(l, u) = -1 /\ l.fds = s.fds
<1> DEFINE b == CHOOSE x \in Bufs : x \notin s.heap
           n == NewBufstate(s, u)
           free == (0 .. (NFds - 1)) \ s.fds
           o == OpenDisk(n, u, fail)
           l == o.lib
           q == [s.ptr EXCEPT ![u] = b]
           z == [s.chan EXCEPT ![b] = 0]
<1>1. b \in Bufs \ s.heap
  OBVIOUS
<1> HIDE DEF b
<1>2. /\ q \in [Unit -> Bufs \cup {Null}] /\ q[u] = b
      /\ \A v \in Unit \ {u} : q[v] = s.ptr[v]
  BY <1>1, Fields
<1>3. z \in [Bufs -> -1 .. (NFds - 1)]
  BY <1>1, Fields, Table
<1>4. n = [s EXCEPT !.heap = s.heap \cup {b}, !.ptr = q, !.chan = z]
  BY DEF NewBufstate, LibType, b
<1>5. \A c : [z EXCEPT ![b] = c] = [s.chan EXCEPT ![b] = c]
  BY <1>1, Fields
<1>6. \A c \in -1 .. (NFds - 1) :
        /\ [s.chan EXCEPT ![b] = c] \in [Bufs -> -1 .. (NFds - 1)]
        /\ [s.chan EXCEPT ![b] = c][b] = c
        /\ \A x \in Bufs \ {b} : [s.chan EXCEPT ![b] = c][x] = s.chan[x]
  BY <1>1, Fields
<1> HIDE DEF n, q, z
<1>7. n \in LibType /\ n.ptr = q /\ n.fds = s.fds /\ n.chan = z
  BY <1>1, <1>2, <1>3, <1>4 DEF LibType
<1>8. fail # "expand"
  BY DEF Ways, Clean
<1>9. CASE fail = "open" \/ free = {}
  <2> DEFINE k == [s.chan EXCEPT ![b] = -1]
             m == [s EXCEPT !.heap = s.heap \cup {b}, !.ptr = q, !.chan = k]
  <2>1. -1 \in -1 .. (NFds - 1)
    BY Table
  <2>2. [n EXCEPT !.chan[b] = -1] = m
    BY <1>4, <1>5, <1>7 DEF LibType
  <2>3. o = [lib |-> m, status |-> "ERROR"]
    BY <1>2, <1>7, <1>8, <1>9, <2>2 DEF OpenDisk, Err
  <2>4. /\ k \in [Bufs -> -1 .. (NFds - 1)] /\ k[b] = -1
        /\ \A x \in Bufs \ {b} : k[x] = s.chan[x]
    BY <1>6, <2>1
  <2> HIDE DEF k, m, o
  <2>5. o.lib = m /\ o.status = "ERROR"
    BY <2>3
  <2>6. /\ m \in LibType /\ m.corrupt = s.corrupt
        /\ m.flagOpen = s.flagOpen /\ m.key = s.key /\ m.fds = s.fds
        /\ m.primOpen = s.primOpen /\ m.primUnit = s.primUnit
        /\ m.byKey = s.byKey /\ m.byUnit = s.byUnit /\ m.source = s.source
        /\ m.ptr = q /\ m.chan = k /\ m.heap = s.heap \cup {b}
    BY <1>1, <1>2, <2>4 DEF LibType, m
  <2> HIDE DEF l
  <2>7. l = m
    BY <2>5 DEF l
  <2> QED
    BY <1>1, <1>2, <2>4, <2>5, <2>6, <2>7 DEF Channel, l, o, n
<1>10. CASE ~(fail = "open" \/ free = {})
  <2> DEFINE c == Least(free)
             k == [s.chan EXCEPT ![b] = c]
             m == [s EXCEPT !.heap = s.heap \cup {b}, !.ptr = q, !.chan = k,
                            !.fds = s.fds \cup {c}]
  <2>1. c \in free
    BY <1>10, LeastIsThere
  <2>2. c \in -1 .. (NFds - 1) /\ c \in 0 .. (NFds - 1)
    BY <2>1, Table
  <2>3. [n EXCEPT !.chan[b] = c, !.fds = @ \cup {c}] = m
    BY <1>4, <1>5, <1>7 DEF LibType
  <2>4. o = [lib |-> m, status |-> "SUCCESS"]
    BY <1>2, <1>7, <1>8, <1>10, <2>3 DEF OpenDisk, Ok
  <2>5. /\ k \in [Bufs -> -1 .. (NFds - 1)] /\ k[b] = c
        /\ \A x \in Bufs \ {b} : k[x] = s.chan[x]
    BY <1>6, <2>2
  <2> HIDE DEF c, k, m, o
  <2>6. o.lib = m /\ o.status = "SUCCESS"
    BY <2>4
  <2>7. /\ m \in LibType /\ m.corrupt = s.corrupt
        /\ m.flagOpen = s.flagOpen /\ m.key = s.key /\ m.fds = s.fds \cup {c}
        /\ m.primOpen = s.primOpen /\ m.primUnit = s.primUnit
        /\ m.byKey = s.byKey /\ m.byUnit = s.byUnit /\ m.source = s.source
        /\ m.ptr = q /\ m.chan = k /\ m.heap = s.heap \cup {b}
    BY <1>1, <1>2, <2>2, <2>5 DEF LibType, m
  <2> HIDE DEF l
  <2>8. l = m
    BY <2>6 DEF l
  <2> QED
    BY <1>1, <1>2, <2>1, <2>5, <2>6, <2>7, <2>8 DEF Channel, l, o, n
<1> QED
  BY <1>9, <1>10

(* open(2) for a unit that owns nothing, and what v2_close_down makes of   *)
(* one that fails.                                                         *)
LEMMA OpenDiskFacts ==
  ASSUME NEW s, NEW O, Sound(s, O), NEW u \in Unit \ O, s.key[u] \notin {NoKey, Primary},
         ~(Bufs \subseteq s.heap), NEW fail, Ways(fail)
  PROVE  LET o == OpenDisk(NewBufstate(s, u), u, fail)
             t == CloseDown(o.lib, u)
         IN  /\ o.status \in {"SUCCESS", "ERROR"}
             /\ o.status = "SUCCESS" =>
                  /\ Sound(o.lib, O \cup {u})
                  /\ o.lib.flagOpen = s.flagOpen /\ o.lib.key = s.key
                  /\ Keeps(s, o.lib, s.flagOpen)
             /\ o.status # "SUCCESS" =>
                  /\ Sound(t, O)
                  /\ t.flagOpen = s.flagOpen /\ t.key = s.key
                  /\ Keeps(s, t, s.flagOpen)
<1> DEFINE o == OpenDisk(NewBufstate(s, u), u, fail)
           l == o.lib
           t == CloseDown(l, u)
<1>1. s \in LibType /\ ~s.corrupt /\ O \in SUBSET Unit /\ s.flagOpen \subseteq O
  BY DEF Sound
<1>2. /\ o.status \in {"SUCCESS", "ERROR"}
      /\ l \in LibType /\ l.corrupt = s.corrupt
      /\ l.flagOpen = s.flagOpen /\ l.key = s.key
      /\ l.primOpen = s.primOpen /\ l.primUnit = s.primUnit
      /\ l.byKey = s.byKey /\ l.byUnit = s.byUnit /\ l.source = s.source
      /\ l.ptr[u] \in Bufs \ s.heap
      /\ l.heap = s.heap \cup {l.ptr[u]}
      /\ \A v \in Unit \ {u} : l.ptr[v] = s.ptr[v]
      /\ \A b \in Bufs \ {l.ptr[u]} : l.chan[b] = s.chan[b]
      /\ o.status = "SUCCESS" =>
           /\ Channel(l, u) \in (0 .. (NFds - 1)) \ s.fds
           /\ l.fds = s.fds \cup {Channel(l, u)}
      /\ o.status = "ERROR" => Channel(l, u) = -1 /\ l.fds = s.fds
  BY <1>1, OpenDiskFields
<1> HIDE DEF o, l
<1>3. s.heap \subseteq Bufs /\ s.fds \subseteq 0 .. (NFds - 1)
  BY <1>1, Fields
<1>4. \A v \in O : /\ l.ptr[v] = s.ptr[v] /\ Channel(l, v) = Channel(s, v)
                   /\ l.ptr[v] # l.ptr[u]
                   /\ s.ptr[v] \in s.heap
  BY <1>1, <1>2, <1>3 DEF Sound, OwnedBy, Channel
<1>5. CASE o.status = "SUCCESS"
  <2>1. Stdin \in s.fds /\ Channel(l, u) \in l.fds \ {Stdin}
    BY <1>2, <1>5 DEF Sound, OwnedBy
  <2>2. \A v \in O \cup {u} : /\ l.key[v] \notin {NoKey, Primary}
                              /\ l.ptr[v] \in l.heap
                              /\ Channel(l, v) \in l.fds \ {Stdin}
    BY <1>2, <1>4, <1>5, <2>1 DEF Sound, OwnedBy
  <2>3. \A v \in Unit \ (O \cup {u}) : l.ptr[v] = Null
    BY <1>2 DEF Sound, OwnedBy
  <2>4. \A v \in O : Channel(l, v) # Channel(l, u)
    BY <1>2, <1>4, <1>5 DEF Sound, OwnedBy
  <2>5. \A v, w \in O \cup {u} : v # w => /\ l.ptr[v] # l.ptr[w]
                                          /\ Channel(l, v) # Channel(l, w)
    BY <1>4, <2>4 DEF Sound, OwnedBy
  <2>6. \A b \in l.heap : \E v \in O \cup {u} : b = l.ptr[v]
    BY <1>2, <1>4 DEF Sound, OwnedBy
  <2>7. \A d \in l.fds \ {Stdin} : \E v \in O \cup {u} : d = Channel(l, v)
    BY <1>2, <1>4, <1>5 DEF Sound, OwnedBy
  <2>8. OwnedBy(l, O \cup {u})
    BY <1>2, <1>5, <2>1, <2>2, <2>3, <2>5, <2>6, <2>7 DEF OwnedBy
  <2>9. PrimaryIsKnown(l)
    BY <1>2 DEF Sound, PrimaryIsKnown
  <2>10. Sound(l, O \cup {u})
    BY <1>1, <1>2, <2>8, <2>9 DEF Sound
  <2>11. Keeps(s, l, s.flagOpen)
    BY <1>1, <1>2, <1>4 DEF Keeps
  <2> QED
    BY <1>2, <1>5, <2>10, <2>11 DEF l, o
<1>6. CASE o.status = "ERROR"
  <2>1. /\ t \in LibType /\ t.corrupt = l.corrupt
        /\ t.flagOpen = l.flagOpen \ {u} /\ t.key = l.key
        /\ t.heap = l.heap \ {l.ptr[u]} /\ t.fds = l.fds \ {Channel(l, u)}
        /\ t.primOpen = l.primOpen /\ t.primUnit = l.primUnit
        /\ t.byKey = l.byKey /\ t.byUnit = l.byUnit /\ t.source = l.source
        /\ \A v \in Unit : t.ptr[v] = IF v = u THEN Null ELSE l.ptr[v]
        /\ \A b \in Bufs : t.chan[b] = IF b = l.ptr[u] THEN 0 ELSE l.chan[b]
    BY <1>2, CloseDownFields
  <2> HIDE DEF t
  <2>2. t.flagOpen = s.flagOpen
    BY <1>1, <1>2, <2>1
  <2>3. t.heap = s.heap
    BY <1>2, <2>1
  <2>4. t.fds = s.fds
    BY <1>2, <1>3, <1>6, <2>1
  <2>5. \A v \in Unit : t.ptr[v] = s.ptr[v]
    BY <1>2, <2>1 DEF Sound, OwnedBy
  <2>6. \A v \in O : Channel(t, v) = Channel(s, v)
    BY <1>1, <1>2, <1>3, <1>4, <2>1, <2>5 DEF Channel
  <2>7. OwnedBy(t, O)
    BY <1>2, <2>1, <2>3, <2>4, <2>5, <2>6, <1>1 DEF Sound, OwnedBy
  <2>8. PrimaryIsKnown(t)
    BY <1>2, <2>1 DEF Sound, PrimaryIsKnown
  <2>9. Sound(t, O)
    BY <1>1, <1>2, <2>1, <2>2, <2>7, <2>8 DEF Sound
  <2>10. Keeps(s, t, s.flagOpen)
    BY <1>1, <1>2, <2>1, <2>2, <2>5, <2>6 DEF Keeps
  <2> QED
    BY <1>2, <1>6, <2>1, <2>2, <2>9, <2>10 DEF t, l, o
<1> QED
  BY <1>2, <1>5, <1>6

(* A unit that owns its file is marked as open.                            *)
LEMMA MarkedOpen ==
  ASSUME NEW s, NEW u \in Unit, Sound(s, s.flagOpen \cup {u})
  PROVE  LET t == [s EXCEPT !.flagOpen = @ \cup {u}] IN
         /\ Sound(t, t.flagOpen)
         /\ t.flagOpen = s.flagOpen \cup {u} /\ t.key = s.key
         /\ Keeps(s, t, s.flagOpen)
<1> DEFINE t == [s EXCEPT !.flagOpen = @ \cup {u}]
<1>1. s \in LibType /\ ~s.corrupt
  BY DEF Sound
<1>2. /\ t.flagOpen = s.flagOpen \cup {u} /\ t.key = s.key
      /\ t.ptr = s.ptr /\ t.heap = s.heap /\ t.chan = s.chan /\ t.fds = s.fds
      /\ t.primOpen = s.primOpen /\ t.primUnit = s.primUnit /\ t.corrupt = s.corrupt
      /\ t.byKey = s.byKey /\ t.byUnit = s.byUnit /\ t.source = s.source
  BY <1>1 DEF LibType
<1>3. t \in LibType
  BY <1>1, Fields DEF LibType
<1> HIDE DEF t
<1>4. Sound(t, t.flagOpen)
  BY <1>1, <1>2, <1>3 DEF Sound, OwnedBy, PrimaryIsKnown, Channel
<1>5. Keeps(s, t, s.flagOpen)
  BY <1>2 DEF Keeps, Channel
<1> QED
  BY <1>2, <1>4, <1>5 DEF t

(* What is true of a call that may open u, and of no other unit.           *)
Opens(s, r, u) ==
  /\ Sound(r.lib, r.lib.flagOpen)
  /\ Keeps(s, r.lib, s.flagOpen)
  /\ KeepsNames(s, r.lib)
  /\ r.status \in {"SUCCESS", "ERROR", "BAD_INPUT_LABEL"}
  /\ r.lib.flagOpen = s.flagOpen \/ r.lib.flagOpen = s.flagOpen \cup {u}
  /\ r.status = "BAD_INPUT_LABEL" => r.lib.flagOpen = s.flagOpen
  /\ r.status = "SUCCESS" => r.lib.flagOpen = s.flagOpen \cup {u}

(* A unit that owns its file and is not marked is closed down again.       *)
LEMMA ClosedAgain ==
  ASSUME NEW s, NEW u \in Unit \ s.flagOpen, NEW l, Sound(l, s.flagOpen \cup {u}),
         l.flagOpen = s.flagOpen, Keeps(s, l, s.flagOpen), KeepsNames(s, l),
         NEW status \in {"ERROR", "BAD_INPUT_LABEL"}
  PROVE  Opens(s, Err(CloseDown(l, u), status), u)
<1> DEFINE t == CloseDown(l, u)
           r == Err(t, status)
           O == s.flagOpen \cup {u}
<1>0. Sound(l, O) /\ u \in O /\ O \ {u} = s.flagOpen
  OBVIOUS
<1> HIDE DEF O
<1>1. /\ Sound(t, O \ {u})
      /\ t.flagOpen = l.flagOpen \ {u}
      /\ t.key = l.key
      /\ Keeps(l, t, l.flagOpen \ {u})
  BY <1>0, CloseDownFacts
<1> HIDE DEF t
<1>2. Sound(t, s.flagOpen) /\ l.flagOpen \ {u} = s.flagOpen
  BY <1>0, <1>1
<1>3. Keeps(s, t, s.flagOpen) /\ KeepsNames(s, t)
  BY <1>1, <1>2 DEF Keeps, KeepsNames
<1>4. r.lib = t /\ r.status = status
  BY DEF Err
<1> HIDE DEF r
<1>5. Opens(s, r, u)
  BY <1>1, <1>2, <1>3, <1>4 DEF Opens
<1> QED
  BY <1>5 DEF r, t

(* v2_process_input_file: every failure but those of a bad format closes   *)
(* the file down.                                                          *)
LEMMA ProcessInputFacts ==
  ASSUME NEW s, Sound(s, s.flagOpen), NEW u \in Unit \ s.flagOpen,
         s.key[u] \notin {NoKey, Primary}, NEW fail, Ways(fail)
  PROVE  Opens(s, ProcessInput(s, u, fail), u)
<1> DEFINE o == OpenDisk(NewBufstate(s, u), u, fail)
           c == CheckPrimary(o.lib, u, fail)
           r == ProcessInput(s, u, fail)
<1>1. CASE Bufs \subseteq s.heap
  <2>1. r = [lib |-> s, status |-> "ERROR"]
    BY <1>1 DEF ProcessInput, Err
  <2>2. r.lib = s /\ r.status = "ERROR"
    BY <2>1
  <2> HIDE DEF r
  <2>3. Opens(s, r, u)
    BY <2>2 DEF Opens, Keeps, KeepsNames
  <2> QED
    BY <2>3 DEF r
<1>2. CASE ~(Bufs \subseteq s.heap)
  <2>1. r = InputOpened(o, u, fail)
    BY <1>2 DEF ProcessInput
  <2>2. /\ o.status \in {"SUCCESS", "ERROR"}
        /\ o.status = "SUCCESS" =>
             /\ Sound(o.lib, s.flagOpen \cup {u})
             /\ o.lib.flagOpen = s.flagOpen /\ o.lib.key = s.key
             /\ Keeps(s, o.lib, s.flagOpen)
        /\ o.status # "SUCCESS" =>
             /\ Sound(CloseDown(o.lib, u), s.flagOpen)
             /\ CloseDown(o.lib, u).flagOpen = s.flagOpen
             /\ CloseDown(o.lib, u).key = s.key
             /\ Keeps(s, CloseDown(o.lib, u), s.flagOpen)
    <3> DEFINE O == s.flagOpen
    <3>1. Sound(s, O) /\ u \in Unit \ O
      OBVIOUS
    <3> HIDE DEF O
    <3>2. /\ o.status \in {"SUCCESS", "ERROR"}
          /\ o.status = "SUCCESS" =>
               /\ Sound(o.lib, O \cup {u})
               /\ o.lib.flagOpen = s.flagOpen /\ o.lib.key = s.key
               /\ Keeps(s, o.lib, s.flagOpen)
          /\ o.status # "SUCCESS" =>
               /\ Sound(CloseDown(o.lib, u), O)
               /\ CloseDown(o.lib, u).flagOpen = s.flagOpen
               /\ CloseDown(o.lib, u).key = s.key
               /\ Keeps(s, CloseDown(o.lib, u), s.flagOpen)
      BY <1>2, <3>1, OpenDiskFacts
    <3> QED
      BY <3>2 DEF O
  <2> HIDE DEF o
  <2>3. CASE o.status # "SUCCESS"
    <3> DEFINE t == CloseDown(o.lib, u)
    <3>1. r = [lib |-> t, status |-> "ERROR"]
      BY <2>1, <2>2, <2>3 DEF InputOpened, Err
    <3>2. Sound(t, s.flagOpen) /\ t.flagOpen = s.flagOpen /\ t.key = s.key
          /\ Keeps(s, t, s.flagOpen)
      BY <2>2, <2>3
    <3> HIDE DEF t, r
    <3>3. r.lib = t /\ r.status = "ERROR"
      BY <3>1
    <3> QED
      BY <3>2, <3>3 DEF Opens, KeepsNames, r
  <2>4. CASE o.status = "SUCCESS" /\ fail = "label"
    <3>1. r = Err(CloseDown(o.lib, u), "BAD_INPUT_LABEL")
      BY <2>1, <2>4 DEF InputOpened
    <3>2. KeepsNames(s, o.lib)
      BY <2>2, <2>4 DEF KeepsNames
    <3> QED
      BY <2>2, <2>4, <3>1, <3>2, ClosedAgain
  <2>5. CASE o.status = "SUCCESS" /\ fail # "label"
    <3>1. fail # "format"
      BY DEF Ways, Clean
    <3>2. r = PrimaryChecked(c, u)
      BY <2>1, <2>5, <3>1 DEF InputOpened
    <3>3. /\ Sound(c.lib, s.flagOpen \cup {u})
          /\ c.lib.flagOpen = o.lib.flagOpen
          /\ Keeps(o.lib, c.lib, o.lib.flagOpen)
          /\ KeepsNames(o.lib, c.lib)
          /\ c.status \in {"SUCCESS", "ERROR"}
      BY <2>2, <2>5, CheckPrimaryFacts
    <3> HIDE DEF c
    <3>4. Keeps(s, c.lib, s.flagOpen) /\ KeepsNames(s, c.lib)
      BY <2>2, <2>5, <3>3 DEF Keeps, KeepsNames, Active
    <3>5. c.lib.flagOpen = s.flagOpen
      BY <2>2, <2>5, <3>3
    <3>6. CASE c.status = "ERROR"
      <4>1. r = Err(CloseDown(c.lib, u), "ERROR")
        BY <3>2, <3>6 DEF PrimaryChecked
      <4>2. Opens(s, Err(CloseDown(c.lib, u), "ERROR"), u)
        BY <3>3, <3>4, <3>5, ClosedAgain
      <4> QED
        BY <4>1, <4>2
    <3>7. CASE c.status = "SUCCESS"
      <4> DEFINE t == [c.lib EXCEPT !.flagOpen = @ \cup {u}]
      <4>1. r = [lib |-> t, status |-> "SUCCESS"]
        BY <3>2, <3>7 DEF PrimaryChecked, Ok
      <4>2. /\ Sound(t, t.flagOpen)
            /\ t.flagOpen = c.lib.flagOpen \cup {u} /\ t.key = c.lib.key
            /\ Keeps(c.lib, t, c.lib.flagOpen)
        BY <3>3, <3>5, MarkedOpen
      <4> HIDE DEF t, r
      <4>3. r.lib = t /\ r.status = "SUCCESS"
        BY <4>1
      <4>4. Keeps(s, t, s.flagOpen) /\ KeepsNames(s, t)
        BY <3>4, <3>5, <4>2 DEF Keeps, KeepsNames
      <4>5. Opens(s, r, u)
        BY <3>5, <4>2, <4>3, <4>4 DEF Opens
      <4> QED
        BY <4>5 DEF r
    <3> QED
      BY <3>3, <3>6, <3>7
  <2> QED
    BY <2>3, <2>4, <2>5
<1> QED
  BY <1>1, <1>2

(* v2_process_output_file, of a unit whose primary input is known.         *)
LEMMA ProcessOutputFacts ==
  ASSUME NEW s, Sound(s, s.flagOpen), NEW u \in Unit \ s.flagOpen,
         s.key[u] \notin {NoKey, Primary}, NEW fail, Ways(fail)
  PROVE  Opens(s, ProcessOutput(s, u, fail), u)
<1> DEFINE o == OpenDisk(NewBufstate(s, u), u, fail)
           r == ProcessOutput(s, u, fail)
<1>1. CASE Bufs \subseteq s.heap
  <2>1. r = [lib |-> s, status |-> "ERROR"]
    BY <1>1 DEF ProcessOutput, Err
  <2>2. r.lib = s /\ r.status = "ERROR"
    BY <2>1
  <2> HIDE DEF r
  <2>3. Opens(s, r, u)
    BY <2>2 DEF Opens, Keeps, KeepsNames
  <2> QED
    BY <2>3 DEF r
<1>2. CASE ~(Bufs \subseteq s.heap)
  <2>1. r = OutputOpened(o, u, fail)
    BY <1>2 DEF ProcessOutput, Ways, Clean
  <2>2. /\ o.status \in {"SUCCESS", "ERROR"}
        /\ o.status = "SUCCESS" =>
             /\ Sound(o.lib, s.flagOpen \cup {u})
             /\ o.lib.flagOpen = s.flagOpen /\ o.lib.key = s.key
             /\ Keeps(s, o.lib, s.flagOpen)
        /\ o.status # "SUCCESS" =>
             /\ Sound(CloseDown(o.lib, u), s.flagOpen)
             /\ CloseDown(o.lib, u).flagOpen = s.flagOpen
             /\ CloseDown(o.lib, u).key = s.key
             /\ Keeps(s, CloseDown(o.lib, u), s.flagOpen)
    <3> DEFINE O == s.flagOpen
    <3>1. Sound(s, O) /\ u \in Unit \ O
      OBVIOUS
    <3> HIDE DEF O
    <3>2. /\ o.status \in {"SUCCESS", "ERROR"}
          /\ o.status = "SUCCESS" =>
               /\ Sound(o.lib, O \cup {u})
               /\ o.lib.flagOpen = s.flagOpen /\ o.lib.key = s.key
               /\ Keeps(s, o.lib, s.flagOpen)
          /\ o.status # "SUCCESS" =>
               /\ Sound(CloseDown(o.lib, u), O)
               /\ CloseDown(o.lib, u).flagOpen = s.flagOpen
               /\ CloseDown(o.lib, u).key = s.key
               /\ Keeps(s, CloseDown(o.lib, u), s.flagOpen)
      BY <1>2, <3>1, OpenDiskFacts
    <3> QED
      BY <3>2 DEF O
  <2> HIDE DEF o
  <2>3. CASE o.status # "SUCCESS"
    <3> DEFINE t == CloseDown(o.lib, u)
    <3>1. r = [lib |-> t, status |-> "ERROR"]
      BY <2>1, <2>2, <2>3 DEF OutputOpened, Err
    <3>2. Sound(t, s.flagOpen) /\ t.flagOpen = s.flagOpen /\ t.key = s.key
          /\ Keeps(s, t, s.flagOpen)
      BY <2>2, <2>3
    <3> HIDE DEF t, r
    <3>3. r.lib = t /\ r.status = "ERROR"
      BY <3>1
    <3> QED
      BY <3>2, <3>3 DEF Opens, KeepsNames, r
  <2>4. CASE o.status = "SUCCESS" /\ fail = "label"
    <3>1. r = Err(CloseDown(o.lib, u), "ERROR")
      BY <2>1, <2>4 DEF OutputOpened
    <3>2. KeepsNames(s, o.lib)
      BY <2>2, <2>4 DEF KeepsNames
    <3> QED
      BY <2>2, <2>4, <3>1, <3>2, ClosedAgain
  <2>5. CASE o.status = "SUCCESS" /\ fail # "label"
    <3> DEFINE t == [o.lib EXCEPT !.flagOpen = @ \cup {u}]
    <3>1. r = [lib |-> t, status |-> "SUCCESS"]
      BY <2>1, <2>5 DEF OutputOpened, Ok
    <3>2. /\ Sound(t, t.flagOpen)
          /\ t.flagOpen = o.lib.flagOpen \cup {u} /\ t.key = o.lib.key
          /\ Keeps(o.lib, t, o.lib.flagOpen)
      BY <2>2, <2>5, MarkedOpen
    <3> HIDE DEF t, r
    <3>3. r.lib = t /\ r.status = "SUCCESS"
      BY <3>1
    <3>4. Keeps(s, t, s.flagOpen) /\ KeepsNames(s, t)
      BY <2>2, <2>5, <3>2 DEF Keeps, KeepsNames
    <3>5. Opens(s, r, u)
      BY <2>2, <2>5, <3>2, <3>3, <3>4 DEF Opens
    <3> QED
      BY <3>5 DEF r
  <2> QED
    BY <2>3, <2>4, <2>5
<1> QED
  BY <1>1, <1>2

-----------------------------------------------------------------------------
(* The calls.                                                              *)

(* What is true of every call but zvclose and zvend.                       *)
Fine(s, r) == Sound(r.lib, r.lib.flagOpen) /\ Keeps(s, r.lib, s.flagOpen)

(* What is true of one that opens u, or a file for a while.                *)
OpensOne(s, r, u) ==
  /\ Fine(s, r) /\ KeepsNames(s, r.lib)
  /\ r.status = "SUCCESS" => u \notin s.flagOpen /\ r.lib.flagOpen = s.flagOpen \cup {u}
  /\ r.status = "BAD_INPUT_LABEL" => r.lib.flagOpen = s.flagOpen
  /\ r.status = "FILE_IS_ALREADY_OPEN" => r.lib = s /\ u \in s.flagOpen

(* The translation is set up last, and changes nothing of ownership.       *)
LEMMA TranslatedFacts ==
  ASSUME NEW s, NEW u \in Unit \ s.flagOpen, NEW r, Opens(s, r, u), NEW fail
  PROVE  OpensOne(s, Translated(r, fail), u)
<1>1. CASE r.status = "SUCCESS" /\ fail = "late"
  <2> DEFINE t == Translated(r, fail)
  <2>1. t = [lib |-> r.lib, status |-> "ERROR"]
    BY <1>1 DEF Translated, Err
  <2>2. t.lib = r.lib /\ t.status = "ERROR"
    BY <2>1
  <2> HIDE DEF t
  <2>3. OpensOne(s, t, u)
    BY <2>2 DEF OpensOne, Fine, Opens
  <2> QED
    BY <2>3 DEF t
<1>2. CASE ~(r.status = "SUCCESS" /\ fail = "late")
  <2>1. Translated(r, fail) = r
    BY <1>2 DEF Translated
  <2>2. OpensOne(s, r, u)
    BY DEF OpensOne, Fine, Opens
  <2> QED
    BY <2>1, <2>2
<1> QED
  BY <1>1, <1>2

(* A call that is refused at once.                                         *)
LEMMA Refused ==
  ASSUME NEW s, Sound(s, s.flagOpen), NEW u,
         NEW status \in {"NO_SUCH_UNIT", "FILE_IS_ALREADY_OPEN", "ERROR", "BAD_INPUT_LABEL"},
         status = "FILE_IS_ALREADY_OPEN" => u \in s.flagOpen
  PROVE  OpensOne(s, Err(s, status), u)
<1> DEFINE r == Err(s, status)
<1>1. r.lib = s /\ r.status = status
  BY DEF Err
<1> HIDE DEF r
<1>2. OpensOne(s, r, u)
  BY <1>1 DEF OpensOne, Fine, Keeps, KeepsNames
<1> QED
  BY <1>2 DEF r

(* zvopen for input opens the unit, or says that it was open.              *)
LEMMA ZvOpenInputFacts ==
  ASSUME NEW s, Sound(s, s.flagOpen), NEW u \in Unit, s.key[u] # Primary,
         NEW fail, Ways(fail)
  PROVE  OpensOne(s, ZvOpenInput(s, u, fail), u)
<1>1. CASE u \notin Active(s)
  <2>1. ZvOpenInput(s, u, fail) = Err(s, "NO_SUCH_UNIT")
    BY <1>1 DEF ZvOpenInput
  <2> QED
    BY <2>1, Refused
<1>2. CASE u \in Active(s) /\ u \in s.flagOpen
  <2>1. ZvOpenInput(s, u, fail) = Err(s, "FILE_IS_ALREADY_OPEN")
    BY <1>2 DEF ZvOpenInput
  <2> QED
    BY <1>2, <2>1, Refused
<1>3. CASE u \in Active(s) /\ u \notin s.flagOpen
  <2>1. ZvOpenInput(s, u, fail) = Translated(ProcessInput(s, u, fail), fail)
    BY <1>3 DEF ZvOpenInput
  <2>2. Opens(s, ProcessInput(s, u, fail), u)
    BY <1>3, ProcessInputFacts DEF Active
  <2> QED
    BY <1>3, <2>1, <2>2, TranslatedFacts
<1> QED
  BY <1>1, <1>2, <1>3

(* zvclose gives back what is u's, or nothing.                             *)
LEMMA ZvCloseFacts ==
  ASSUME NEW s, Sound(s, s.flagOpen), NEW u \in Unit, s.key[u] # Primary,
         NEW free \in BOOLEAN, NEW fail, Ways(fail)
  PROVE  LET r == ZvClose(s, u, free, fail) IN
         /\ Sound(r.lib, r.lib.flagOpen)
         /\ Keeps(s, r.lib, s.flagOpen \ {u})
         /\ ~free => KeepsNames(s, r.lib)
         /\ r.status = "SUCCESS" => r.lib.flagOpen = s.flagOpen \ {u}
         /\ r.status # "SUCCESS" => r.lib = s
         /\ r.status \in {"SUCCESS", "ERROR", "NO_SUCH_UNIT", "FILE_NOT_OPEN"}
         /\ u \in s.flagOpen => r.status \in {"SUCCESS", "ERROR"}
<1> DEFINE r == ZvClose(s, u, free, fail)
           t == CloseDown(s, u)
<1>0. u \in s.flagOpen => u \in Active(s)
  BY OpenUnits DEF Open
<1>1. CASE u \notin Active(s) \/ u \notin s.flagOpen \/ fail = "flush"
  <2>1. PICK status \in {"ERROR", "NO_SUCH_UNIT", "FILE_NOT_OPEN"} :
          r = [lib |-> s, status |-> status] /\ (u \in s.flagOpen => status = "ERROR")
    BY <1>0, <1>1 DEF ZvClose, Err
  <2>2. r.lib = s /\ r.status = status
    BY <2>1
  <2> HIDE DEF r
  <2>3. Keeps(s, s, s.flagOpen \ {u}) /\ KeepsNames(s, s)
    BY DEF Keeps, KeepsNames
  <2> QED
    BY <2>1, <2>2, <2>3 DEF r
<1>2. CASE u \in Active(s) /\ u \in s.flagOpen /\ fail # "flush"
  <2>1. fail # "close"
    BY DEF Ways, Clean
  <2> DEFINE O == s.flagOpen
  <2>2. Sound(s, O) /\ u \in O
    BY <1>2
  <2> HIDE DEF O
  <2>3. /\ Sound(t, O \ {u})
        /\ t.flagOpen = s.flagOpen \ {u}
        /\ t.key = s.key
        /\ t.primOpen = s.primOpen /\ t.primUnit = s.primUnit
        /\ Keeps(s, t, s.flagOpen \ {u})
    BY <2>2, CloseDownFacts
  <2>4. Sound(t, t.flagOpen)
    BY <2>3 DEF O
  <2>5. CASE ~free
    <3>1. r = [lib |-> t, status |-> "SUCCESS"]
      BY <1>2, <2>1, <2>5 DEF ZvClose, Ok
    <3> HIDE DEF t
    <3>2. r.lib = t /\ r.status = "SUCCESS"
      BY <3>1
    <3> HIDE DEF r
    <3>3. KeepsNames(s, t)
      BY <2>3 DEF KeepsNames
    <3> QED
      BY <2>3, <2>4, <3>2, <3>3 DEF r
  <2>6. CASE free
    <3> DEFINE d == Deactivate(t, u)
    <3>1. r = [lib |-> d, status |-> "SUCCESS"]
      BY <1>2, <2>1, <2>6 DEF ZvClose, Ok
    <3> HIDE DEF t
    <3>2. u \in Unit \ t.flagOpen
      BY <2>3
    <3>3. t.primOpen => u # t.primUnit
      BY <2>3 DEF Sound, PrimaryIsKnown
    <3>4. Sound(d, t.flagOpen) /\ d.flagOpen = t.flagOpen /\ Keeps(t, d, t.flagOpen)
      BY <2>4, <3>2, <3>3, DeactivateFacts
    <3> HIDE DEF d
    <3>5. r.lib = d /\ r.status = "SUCCESS"
      BY <3>1
    <3> HIDE DEF r
    <3>6. Keeps(s, d, s.flagOpen \ {u})
      BY <2>3, <3>4 DEF Keeps
    <3> QED
      BY <2>3, <2>6, <3>4, <3>5, <3>6 DEF r
  <2> QED
    BY <2>5, <2>6
<1> QED
  BY <1>1, <1>2

(* What is true of v2_est_primary_input: when it does not fail, no unit is *)
(* opened or closed.                                                       *)
Reads(s, r) ==
  /\ Fine(s, r)
  /\ r.status \in {"SUCCESS", "BAD_INPUT_LABEL"} =>
       r.lib.flagOpen = s.flagOpen /\ KeepsNames(s, r.lib)

(* The file opened for the primary input is closed again.                  *)
LEMMA PrimaryOpenedFacts ==
  ASSUME NEW s, Sound(s, s.flagOpen), NEW u \in Unit, s.key[u] # Primary,
         NEW fail, Ways(fail)
  PROVE  Reads(s, PrimaryOpened(ZvOpenInput(s, u, fail), s, u, fail))
<1> DEFINE o == ZvOpenInput(s, u, fail)
           l == o.lib
           r == PrimaryOpened(o, s, u, fail)
<1>1. OpensOne(s, o, u)
  BY ZvOpenInputFacts
<1> HIDE DEF o
<1>2. CASE o.status = "FILE_IS_ALREADY_OPEN"
  <2> DEFINE O == s.flagOpen
             c == CheckPrimary(s, u, fail)
  <2>1. Sound(s, O) /\ u \in O
    BY <1>1, <1>2 DEF OpensOne
  <2> HIDE DEF O
  <2>2. /\ Sound(c.lib, O)
        /\ c.lib.flagOpen = s.flagOpen
        /\ Keeps(s, c.lib, s.flagOpen)
        /\ KeepsNames(s, c.lib)
    BY <2>1, CheckPrimaryFacts
  <2>3. r = c
    BY <1>2 DEF PrimaryOpened
  <2> HIDE DEF c
  <2> QED
    BY <2>2, <2>3 DEF Reads, Fine, O, o
<1>3. CASE o.status \notin {"FILE_IS_ALREADY_OPEN", "SUCCESS"}
  <2>1. r = o
    BY <1>3 DEF PrimaryOpened
  <2>2. Reads(s, o)
    BY <1>1, <1>3 DEF OpensOne, Reads
  <2> QED
    BY <2>1, <2>2 DEF o
<1>4. CASE o.status = "SUCCESS"
  <2>1. r = ZvClose(l, u, FALSE, fail)
    BY <1>4 DEF PrimaryOpened
  <2>2. /\ Sound(l, l.flagOpen) /\ Keeps(s, l, s.flagOpen) /\ KeepsNames(s, l)
        /\ u \notin s.flagOpen /\ l.flagOpen = s.flagOpen \cup {u}
    BY <1>1, <1>4 DEF OpensOne, Fine
  <2> HIDE DEF l, r
  <2>3. u \in l.flagOpen /\ l.key[u] # Primary
    BY <2>2 DEF Sound, OwnedBy
  <2>4. /\ Sound(r.lib, r.lib.flagOpen)
        /\ Keeps(l, r.lib, l.flagOpen \ {u})
        /\ KeepsNames(l, r.lib)
        /\ r.status = "SUCCESS" => r.lib.flagOpen = l.flagOpen \ {u}
        /\ r.status \in {"SUCCESS", "ERROR"}
    BY <2>1, <2>2, <2>3, ZvCloseFacts
  <2>5. Keeps(s, r.lib, s.flagOpen)
    BY <2>2, <2>4 DEF Keeps
  <2>6. KeepsNames(s, r.lib)
    BY <2>2, <2>4 DEF KeepsNames, Active
  <2>7. Reads(s, r)
    BY <2>2, <2>4, <2>5, <2>6 DEF Reads, Fine
  <2> QED
    BY <2>7 DEF r, o
<1> QED
  BY <1>2, <1>3, <1>4

(* The same after the zvunit that v2_est_primary_input may need.           *)
LEMMA OpenPrimaryFacts ==
  ASSUME NEW s, NEW z, Fine(s, z), z.lib.flagOpen = s.flagOpen,
         z.status # "BAD_INPUT_LABEL",
         z.status = "SUCCESS" => /\ z.unit \in Unit /\ z.lib.key[z.unit] # Primary
                                 /\ KeepsNames(s, z.lib),
         NEW fail, Ways(fail)
  PROVE  Reads(s, OpenPrimary(z, fail))
<1>1. CASE z.status # "SUCCESS"
  <2>1. OpenPrimary(z, fail) = z
    BY <1>1 DEF OpenPrimary
  <2>2. Reads(s, z)
    BY <1>1 DEF Reads
  <2> QED
    BY <2>1, <2>2
<1>2. CASE z.status = "SUCCESS"
  <2> DEFINE r == OpenPrimary(z, fail)
             l == z.lib
             u == z.unit
  <2>1. r = PrimaryOpened(ZvOpenInput(l, u, fail), l, u, fail)
    BY <1>2 DEF OpenPrimary
  <2>2. /\ Sound(l, l.flagOpen) /\ Keeps(s, l, s.flagOpen) /\ KeepsNames(s, l)
        /\ l.flagOpen = s.flagOpen /\ u \in Unit /\ l.key[u] # Primary
    BY <1>2 DEF Fine
  <2> HIDE DEF l, u, r
  <2>3. Reads(l, r)
    BY <2>1, <2>2, PrimaryOpenedFacts
  <2>4. Reads(s, r)
    BY <2>2, <2>3 DEF Reads, Fine, Keeps, KeepsNames, Active
  <2> QED
    BY <2>4 DEF r
<1> QED
  BY <1>1, <1>2

(* v2_est_primary_input, whichever of its steps fails.                     *)
LEMMA EstPrimaryInputFacts ==
  ASSUME NEW s, Sound(s, s.flagOpen), NEW fail, Ways(fail),
         NEW old \in Unit \ (s.flagOpen \cup {s.primUnit}),
         fail = "option" => \A u \in Open(s) : s.key[u] # s.byKey
  PROVE  Reads(s, EstPrimaryInput(s, fail, old))
<1> DEFINE r == EstPrimaryInput(s, fail, old)
<1>0. Keeps(s, s, s.flagOpen) /\ KeepsNames(s, s)
  BY DEF Keeps, KeepsNames
<1>1. CASE s.primOpen \/ (s.byUnit = NoUnit /\ (s.byKey = NoKey \/ fail = "noinp"))
  <2>1. \E status : r = [lib |-> s, status |-> status]
    BY <1>1 DEF EstPrimaryInput, Ok, Err
  <2>2. r.lib = s
    BY <2>1
  <2> HIDE DEF r
  <2>3. Reads(s, r)
    BY <1>0, <2>2 DEF Reads, Fine
  <2> QED
    BY <2>3 DEF r
<1>2. CASE ~s.primOpen /\ s.byUnit # NoUnit
  <2> DEFINE z == [unit |-> s.byUnit, lib |-> s, status |-> "SUCCESS"]
  <2>1. r = OpenPrimary(z, fail)
    BY <1>2 DEF EstPrimaryInput
  <2>2. z.lib = s /\ z.status = "SUCCESS" /\ z.unit = s.byUnit
    OBVIOUS
  <2> HIDE DEF z
  <2>3. s.byUnit \in Unit /\ s.key[s.byUnit] # Primary
    BY <1>2, Fields DEF Sound, PrimaryIsKnown
  <2>4. Fine(s, z)
    BY <1>0, <2>2 DEF Fine
  <2> QED
    BY <1>0, <2>1, <2>2, <2>3, <2>4, OpenPrimaryFacts
<1>3. CASE /\ ~s.primOpen /\ s.byUnit = NoUnit
           /\ s.byKey # NoKey /\ fail # "noinp"
  <2> DEFINE z == ZvUnit(s, s.byKey, fail, old)
  <2>1. r = OpenPrimary(z, fail)
    BY <1>3 DEF EstPrimaryInput
  <2>2. s.byKey \in Keys
    BY <1>3, Fields, Table DEF Sound
  <2>3. /\ Sound(z.lib, z.lib.flagOpen)
        /\ z.lib.flagOpen = s.flagOpen
        /\ Keeps(s, z.lib, s.flagOpen)
        /\ z.status \in {"SUCCESS", "ERROR", "NO_FREE_UNITS"}
        /\ z.status = "SUCCESS" =>
             /\ z.unit \in Unit
             /\ z.lib.key[z.unit] = s.byKey
             /\ KeepsNames(s, z.lib)
    BY <2>2, ZvUnitFacts
  <2> HIDE DEF z
  <2>4. Fine(s, z)
    BY <2>3 DEF Fine
  <2>5. s.byKey # Primary
    BY <2>2, Table
  <2> QED
    BY <2>1, <2>3, <2>4, <2>5, OpenPrimaryFacts
<1> QED
  BY <1>1, <1>2, <1>3 DEF EstPrimaryInput

(* zvopen for output, with what it does for the primary input.             *)
LEMMA ZvOpenOutputFacts ==
  ASSUME NEW s, Sound(s, s.flagOpen), NEW u \in Unit, s.key[u] # Primary,
         NEW fail, Ways(fail), NEW failPrimary, Ways(failPrimary),
         NEW old \in Unit \ (s.flagOpen \cup {s.primUnit}),
         failPrimary = "option" => \A v \in Open(s) : s.key[v] # s.byKey
  PROVE  Fine(s, ZvOpenOutput(s, u, fail, failPrimary, old))
<1> DEFINE p == EstPrimaryInput(s, failPrimary, old)
           l == p.lib
           r == ZvOpenOutput(s, u, fail, failPrimary, old)
<1>1. CASE u \notin Active(s) \/ u \in s.flagOpen
  <2>1. \E status : r = [lib |-> s, status |-> status]
    BY <1>1 DEF ZvOpenOutput, Err
  <2>2. r.lib = s
    BY <2>1
  <2> HIDE DEF r
  <2>3. Fine(s, r)
    BY <2>2 DEF Fine, Keeps
  <2> QED
    BY <2>3 DEF r
<1>2. CASE u \in Active(s) /\ u \notin s.flagOpen
  <2>1. r = PrimaryKnown(p, u, fail)
    BY <1>2 DEF ZvOpenOutput
  <2>2. Reads(s, p)
    BY EstPrimaryInputFacts
  <2> HIDE DEF p
  <2>3. CASE p.status \notin {"SUCCESS", "BAD_INPUT_LABEL"}
    <3>1. r = [lib |-> p.lib, status |-> "ERROR"]
      BY <2>1, <2>3 DEF PrimaryKnown, Err
    <3>2. r.lib = p.lib
      BY <3>1
    <3> HIDE DEF r
    <3>3. Fine(s, r)
      BY <2>2, <3>2 DEF Reads, Fine
    <3> QED
      BY <3>3 DEF r
  <2>4. CASE p.status \in {"SUCCESS", "BAD_INPUT_LABEL"}
    <3>1. r = Translated(ProcessOutput(l, u, fail), fail)
      BY <2>1, <2>4 DEF PrimaryKnown
    <3>2. /\ Sound(l, l.flagOpen) /\ Keeps(s, l, s.flagOpen)
          /\ l.flagOpen = s.flagOpen /\ KeepsNames(s, l)
      BY <2>2, <2>4 DEF Reads, Fine
    <3> HIDE DEF l, r
    <3>3. u \in Unit \ l.flagOpen /\ l.key[u] \notin {NoKey, Primary}
      BY <1>2, <3>2 DEF KeepsNames, Active
    <3>4. Opens(l, ProcessOutput(l, u, fail), u)
      BY <3>2, <3>3, ProcessOutputFacts
    <3>5. OpensOne(l, r, u)
      BY <3>1, <3>3, <3>4, TranslatedFacts
    <3>6. Fine(s, r)
      BY <3>2, <3>5 DEF OpensOne, Fine, Keeps
    <3> QED
      BY <3>6 DEF r
  <2> QED
    BY <2>3, <2>4
<1> QED
  BY <1>1, <1>2

(* What zvselpi and zvselpiu leave.                                        *)
Selected(s, k, w) == [s EXCEPT !.byKey = k, !.byUnit = w]

(* The selection of another primary input, once the old one is gone.       *)
LEMMA SelectedFacts ==
  ASSUME NEW s, Sound(s, s.flagOpen), NEW k \in InpKeys \cup {NoKey},
         NEW w \in Unit \cup {NoUnit}, w # NoUnit => s.key[w] # Primary,
         s.primOpen /\ w = NoUnit => s.source = k,
         NEW r, r.lib = Selected(s, k, w)
  PROVE  Fine(s, r)
<1> DEFINE t == Selected(s, k, w)
<1>1. s \in LibType /\ ~s.corrupt
  BY DEF Sound
<1>2. /\ t \in LibType /\ ~t.corrupt
      /\ t.flagOpen = s.flagOpen /\ t.key = s.key
      /\ t.ptr = s.ptr /\ t.heap = s.heap /\ t.chan = s.chan /\ t.fds = s.fds
      /\ t.primOpen = s.primOpen /\ t.primUnit = s.primUnit
      /\ t.byKey = k /\ t.byUnit = w /\ t.source = s.source
  BY <1>1 DEF Selected, LibType
<1>3. r.lib = t
  OBVIOUS
<1> HIDE DEF t
<1>4. OwnedBy(t, t.flagOpen)
  BY <1>2 DEF Sound, OwnedBy, Channel
<1>5. PrimaryIsKnown(t)
  BY <1>2 DEF Sound, PrimaryIsKnown
<1>6. Sound(t, t.flagOpen)
  BY <1>2, <1>4, <1>5, Fields DEF Sound
<1>7. Keeps(s, t, s.flagOpen)
  BY <1>2 DEF Keeps, Channel
<1> QED
  BY <1>3, <1>6, <1>7 DEF Fine

(* zvselpi and zvselpiu get rid of a primary input that is not the one     *)
(* selected.                                                               *)
LEMMA SelectFacts ==
  ASSUME NEW s, Sound(s, s.flagOpen), NEW k \in InpKeys \cup {NoKey},
         NEW w \in Unit \cup {NoUnit}, w # NoUnit => s.key[w] # Primary,
         NEW same \in BOOLEAN, same /\ w = NoUnit => s.byUnit = NoUnit /\ s.byKey = k,
         NEW r, r.lib = Selected(IF same THEN s ELSE DropPrimary(s), k, w)
  PROVE  Fine(s, r)
<1>1. CASE same
  <2>1. r.lib = Selected(s, k, w)
    BY <1>1
  <2>2. s.primOpen /\ w = NoUnit => s.source = k
    BY <1>1 DEF Sound, PrimaryIsKnown
  <2> QED
    BY <2>1, <2>2, SelectedFacts
<1>2. CASE ~same
  <2> DEFINE d == DropPrimary(s)
             O == s.flagOpen
  <2>1. Sound(s, O)
    OBVIOUS
  <2> HIDE DEF O
  <2>2. /\ Sound(d, O)
        /\ ~d.primOpen
        /\ d.flagOpen = s.flagOpen /\ d.key = s.key /\ d.ptr = s.ptr /\ d.chan = s.chan
    BY <2>1, DropFacts
  <2>3. r.lib = Selected(d, k, w)
    BY <1>2
  <2> HIDE DEF d
  <2>4. Sound(d, d.flagOpen)
    BY <2>2 DEF O
  <2>5. w # NoUnit => d.key[w] # Primary
    BY <2>2
  <2>6. Fine(d, r)
    BY <2>2, <2>3, <2>4, <2>5, SelectedFacts
  <2> QED
    BY <2>2, <2>6 DEF Fine, Keeps, Channel
<1> QED
  BY <1>1, <1>2

(* What zvend leaves, when the units of done were closed.                  *)
AtEnd(s, done) ==
  [s EXCEPT !.corrupt = \E u \in done : s.ptr[u] \notin s.heap,
            !.fds = @ \ {Channel(s, u) : u \in done},
            !.heap = @ \ {s.ptr[u] : u \in done},
            !.chan = Forget(@, {s.ptr[u] : u \in done}),
            !.ptr = [u \in Unit |-> IF u \in done THEN Null ELSE @[u]],
            !.flagOpen = @ \ done]

(* zvend gives back what belongs to the units it closes.                   *)
LEMMA EndFacts ==
  ASSUME NEW s, Sound(s, s.flagOpen), NEW done \in SUBSET s.flagOpen
  PROVE  Sound(AtEnd(s, done), AtEnd(s, done).flagOpen)
<1> DEFINE t == AtEnd(s, done)
           gone == {s.ptr[u] : u \in done}
           k == Forget(s.chan, gone)
           q == [u \in Unit |-> IF u \in done THEN Null ELSE s.ptr[u]]
           O == s.flagOpen \ done
<1>1. s \in LibType /\ ~s.corrupt /\ s.flagOpen \in SUBSET Unit
  BY DEF Sound
<1>2. \A u \in done : s.ptr[u] \in s.heap
  BY DEF Sound, OwnedBy
<1>3. k \in [Bufs -> -1 .. (NFds - 1)] /\ \A b \in Bufs \ gone : k[b] = s.chan[b]
  BY <1>1, Fields, Table DEF Forget
<1>4. /\ q \in [Unit -> Bufs \cup {Null}]
      /\ \A u \in Unit \ done : q[u] = s.ptr[u]
      /\ \A u \in done : q[u] = Null
  BY <1>1, Fields
<1>5. t = [s EXCEPT !.corrupt = FALSE, !.fds = s.fds \ {Channel(s, u) : u \in done},
                    !.heap = s.heap \ gone, !.chan = k, !.ptr = q, !.flagOpen = O]
  BY <1>1, <1>2 DEF AtEnd, LibType
<1> HIDE DEF k, q, t
<1>6. /\ t \in LibType /\ t.corrupt = FALSE
      /\ t.fds = s.fds \ {Channel(s, u) : u \in done}
      /\ t.heap = s.heap \ gone /\ t.chan = k /\ t.ptr = q /\ t.flagOpen = O
      /\ t.key = s.key /\ t.primOpen = s.primOpen /\ t.primUnit = s.primUnit
      /\ t.byKey = s.byKey /\ t.byUnit = s.byUnit /\ t.source = s.source
  <2> DEFINE f == s.fds \ {Channel(s, u) : u \in done}
             h == s.heap \ gone
  <2>1. f \in SUBSET (0 .. (NFds - 1)) /\ h \in SUBSET Bufs /\ O \in SUBSET Unit
    BY <1>1, Fields
  <2> HIDE DEF f, h, O, gone
  <2>2. t = [s EXCEPT !.corrupt = FALSE, !.fds = f, !.heap = h, !.chan = k, !.ptr = q,
                      !.flagOpen = O]
    BY <1>5 DEF f, h
  <2>3. /\ t \in LibType /\ t.corrupt = FALSE
        /\ t.fds = f /\ t.heap = h /\ t.chan = k /\ t.ptr = q /\ t.flagOpen = O
        /\ t.key = s.key /\ t.primOpen = s.primOpen /\ t.primUnit = s.primUnit
        /\ t.byKey = s.byKey /\ t.byUnit = s.byUnit /\ t.source = s.source
    BY <1>1, <1>3, <1>4, <2>1, <2>2 DEF LibType
  <2> QED
    BY <2>3 DEF f, h
<1>7. \A u \in O : /\ t.ptr[u] = s.ptr[u] /\ Channel(t, u) = Channel(s, u)
                   /\ s.ptr[u] \in t.heap
                   /\ Channel(s, u) \in t.fds \ {Stdin}
  <2> SUFFICES ASSUME NEW u \in O
               PROVE  /\ t.ptr[u] = s.ptr[u] /\ Channel(t, u) = Channel(s, u)
                      /\ s.ptr[u] \in t.heap
                      /\ Channel(s, u) \in t.fds \ {Stdin}
    OBVIOUS
  <2>1. /\ s.ptr[u] \in s.heap /\ s.ptr[u] \notin gone
        /\ Channel(s, u) \in s.fds \ {Stdin}
        /\ \A v \in done : Channel(s, v) # Channel(s, u)
    BY DEF Sound, OwnedBy
  <2>2. t.ptr[u] = s.ptr[u]
    BY <1>1, <1>4, <1>6
  <2>3. s.ptr[u] \in Bufs \ gone
    BY <1>1, <2>1, Fields
  <2>4. Channel(t, u) = Channel(s, u)
    BY <1>3, <1>6, <2>2, <2>3 DEF Channel
  <2>5. s.ptr[u] \in t.heap /\ Channel(s, u) \in t.fds \ {Stdin}
    BY <1>6, <2>1
  <2> QED
    BY <2>2, <2>4, <2>5
<1>8. OwnedBy(t, O)
  <2>1. \A u \in O : t.key[u] \notin {NoKey, Primary}
    BY <1>6 DEF Sound, OwnedBy
  <2>2. \A u \in Unit \ O : t.ptr[u] = Null
    BY <1>4, <1>6 DEF Sound, OwnedBy
  <2>3. \A u, v \in O : u # v => t.ptr[u] # t.ptr[v] /\ Channel(t, u) # Channel(t, v)
    BY <1>7 DEF Sound, OwnedBy
  <2>4. \A b \in t.heap : \E u \in O : b = t.ptr[u]
    <3> SUFFICES ASSUME NEW b \in t.heap
                 PROVE  \E u \in O : b = t.ptr[u]
      OBVIOUS
    <3>1. b \in s.heap /\ b \notin gone
      BY <1>6
    <3>2. PICK u \in s.flagOpen : b = s.ptr[u]
      BY <3>1 DEF Sound, OwnedBy
    <3> QED
      BY <1>7, <3>1, <3>2
  <2>5. Stdin \in t.fds
    BY <1>6 DEF Sound, OwnedBy
  <2>6. \A d \in t.fds \ {Stdin} : \E u \in O : d = Channel(t, u)
    <3> SUFFICES ASSUME NEW d \in t.fds \ {Stdin}
                 PROVE  \E u \in O : d = Channel(t, u)
      OBVIOUS
    <3>1. d \in s.fds \ {Stdin} /\ d \notin {Channel(s, u) : u \in done}
      BY <1>6
    <3>2. PICK u \in s.flagOpen : d = Channel(s, u)
      BY <3>1 DEF Sound, OwnedBy
    <3> QED
      BY <1>7, <3>1, <3>2
  <2> HIDE DEF O
  <2> QED
    BY <1>7, <2>1, <2>2, <2>3, <2>4, <2>5, <2>6 DEF OwnedBy
<1>9. PrimaryIsKnown(t)
  BY <1>6 DEF Sound, PrimaryIsKnown
<1> QED
  BY <1>1, <1>6, <1>8, <1>9 DEF Sound, t

-----------------------------------------------------------------------------
(* Every step.                                                             *)

(* The action of ClosedOnlyByItsCaller.                                    *)
CallerCloses ==
  \A u \in Open(lib) :
    \/ ended'
    \/ call'.name = "zvclose" /\ call'.unit = u
    \/ u \in Open(lib') /\ lib'.key[u] = lib.key[u]
       /\ lib'.ptr[u] = lib.ptr[u] /\ Channel(lib', u) = Channel(lib, u)

Good == IInv' /\ CallerCloses

(* A call that is Fine is a good step.                                     *)
LEMMA FineStep ==
  ASSUME IInv, NEW r, Fine(lib, r), lib' = r.lib, UNCHANGED ended
  PROVE  Good
<1>1. Sound(lib', lib'.flagOpen)
  BY DEF Fine
<1>2. IInv'
  BY <1>1 DEF IInv
<1>3. Open(lib) = lib.flagOpen
  BY OpenUnits DEF IInv
<1>4. Open(lib') = lib'.flagOpen
  BY <1>1, OpenUnits
<1>5. Keeps(lib, lib', lib.flagOpen)
  BY DEF Fine
<1> QED
  BY <1>2, <1>3, <1>4, <1>5 DEF Good, CallerCloses, Keeps

(* With clean failures, no variable holds a unit that it does not own.     *)
LEMMA LeftOverFacts ==
  ASSUME Failures \subseteq Clean
  PROVE  /\ LeftOver = Unit \ (lib.flagOpen \cup {lib.primUnit})
         /\ \A fail : May(fail) => Ways(fail)
         /\ ~May("close")
<1>1. "stale" \notin Failures /\ "close" \notin Failures
  BY DEF Clean
<1> QED
  BY <1>1 DEF LeftOver, May, Ways

(* A zvunit fails with "option" on a unit that is not open.                *)
LEMMA OptionFailsFacts ==
  ASSUME NEW key, OptionFails(key) = "option"
  PROVE  \A u \in Open(lib) : lib.key[u] # key
BY DEF OptionFails

(* zvunit.                                                                 *)
LEMMA StepUnit ==
  ASSUME Failures \subseteq Clean, IInv, NEW key \in Keys, CallUnit(key)
  PROVE  Good
<1>1. PICK fail \in {"none", OptionFails(key)}, old \in LeftOver :
        /\ May(fail)
        /\ LET r == ZvUnit(lib, key, fail, old) IN Returns("zvunit", r.unit, r)
  BY DEF CallUnit
<1> DEFINE r == ZvUnit(lib, key, fail, old)
<1>2. /\ Sound(lib, lib.flagOpen) /\ Ways(fail)
      /\ old \in Unit \ (lib.flagOpen \cup {lib.primUnit})
  BY <1>1, LeftOverFacts DEF IInv
<1>3. fail = "option" => \A u \in Open(lib) : lib.key[u] # key
  BY <1>1, OptionFailsFacts
<1>4. Fine(lib, r)
  BY <1>2, <1>3, ZvUnitFacts DEF Fine
<1>5. lib' = r.lib /\ UNCHANGED ended
  BY <1>1 DEF Returns
<1> HIDE DEF r
<1> QED
  BY <1>4, <1>5, FineStep

(* zvopen for input.                                                       *)
LEMMA StepOpenInput ==
  ASSUME Failures \subseteq Clean, IInv, NEW u \in Unit, CallOpenInput(u)
  PROVE  Good
<1>1. PICK fail \in OpenFails \cup {"primary"} :
        May(fail) /\ Returns("zvopen", u, ZvOpenInput(lib, u, fail))
  BY DEF CallOpenInput
<1> DEFINE r == ZvOpenInput(lib, u, fail)
<1>2. Sound(lib, lib.flagOpen) /\ Ways(fail) /\ lib.key[u] # Primary
  BY <1>1, LeftOverFacts DEF IInv, CallOpenInput, Theirs
<1>3. Fine(lib, r)
  BY <1>2, ZvOpenInputFacts DEF OpensOne
<1>4. lib' = r.lib /\ UNCHANGED ended
  BY <1>1 DEF Returns
<1> HIDE DEF r
<1> QED
  BY <1>3, <1>4, FineStep

(* zvopen for output.                                                      *)
LEMMA StepOpenOutput ==
  ASSUME Failures \subseteq Clean, IInv, NEW u \in Unit, CallOpenOutput(u)
  PROVE  Good
<1>1. PICK fail \in OpenFails, old \in LeftOver,
           failPrimary \in OpenFails \cup
             {"noinp", "primary", "flush", "close", OptionFails(lib.byKey)} :
        /\ May(fail) /\ May(failPrimary)
        /\ Returns("zvopen", u, ZvOpenOutput(lib, u, fail, failPrimary, old))
  BY DEF CallOpenOutput
<1> DEFINE r == ZvOpenOutput(lib, u, fail, failPrimary, old)
<1>2. /\ Sound(lib, lib.flagOpen) /\ Ways(fail) /\ Ways(failPrimary)
      /\ lib.key[u] # Primary
      /\ old \in Unit \ (lib.flagOpen \cup {lib.primUnit})
  BY <1>1, LeftOverFacts DEF IInv, CallOpenOutput, Theirs
<1>3. failPrimary = "option" => failPrimary = OptionFails(lib.byKey)
  BY <1>1 DEF OpenFails
<1>4. failPrimary = "option" => \A v \in Open(lib) : lib.key[v] # lib.byKey
  BY <1>3, OptionFailsFacts
<1>5. Fine(lib, r)
  BY <1>2, <1>4, ZvOpenOutputFacts
<1>6. lib' = r.lib /\ UNCHANGED ended
  BY <1>1 DEF Returns
<1> HIDE DEF r
<1> QED
  BY <1>5, <1>6, FineStep

(* zvclose.                                                                *)
LEMMA StepClose ==
  ASSUME Failures \subseteq Clean, IInv, NEW u \in Unit, CallClose(u)
  PROVE  Good
<1>1. PICK fail \in {"none", "flush", "close"}, free \in BOOLEAN :
        May(fail) /\ Returns("zvclose", u, ZvClose(lib, u, free, fail))
  BY DEF CallClose
<1> DEFINE r == ZvClose(lib, u, free, fail)
<1>2. Sound(lib, lib.flagOpen) /\ Ways(fail) /\ lib.key[u] # Primary
  BY <1>1, LeftOverFacts DEF IInv, CallClose, Theirs
<1>3. Sound(r.lib, r.lib.flagOpen) /\ Keeps(lib, r.lib, lib.flagOpen \ {u})
  BY <1>2, ZvCloseFacts
<1>4. /\ lib' = r.lib /\ UNCHANGED ended
      /\ call' = [name |-> "zvclose", unit |-> u]
  BY <1>1 DEF Returns
<1> HIDE DEF r
<1>5. IInv'
  BY <1>3, <1>4 DEF IInv
<1>6. Open(lib) = lib.flagOpen /\ Open(lib') = lib'.flagOpen
  BY <1>2, <1>3, <1>4, OpenUnits
<1>7. CallerCloses
  BY <1>3, <1>4, <1>6 DEF CallerCloses, Keeps
<1> QED
  BY <1>5, <1>7 DEF Good

(* zvselpi.                                                                *)
LEMMA StepSelectInstance ==
  ASSUME IInv, NEW key \in InpKeys \cup {NoKey}, CallSelectInstance(key)
  PROVE  Good
<1> DEFINE same == lib.byUnit = NoUnit /\ lib.byKey = key
           d == IF same THEN lib ELSE DropPrimary(lib)
           r == Ok(Selected(d, key, NoUnit))
<1>1. lib' = r.lib /\ UNCHANGED ended
  BY DEF CallSelectInstance, Returns, Selected
<1>2. r.lib = Selected(IF same THEN lib ELSE DropPrimary(lib), key, NoUnit)
  BY DEF Ok
<1>3. same \in BOOLEAN /\ (same => lib.byUnit = NoUnit /\ lib.byKey = key)
  OBVIOUS
<1>4. Sound(lib, lib.flagOpen)
  BY DEF IInv
<1> HIDE DEF r, same
<1>5. Fine(lib, r)
  BY <1>2, <1>3, <1>4, SelectFacts
<1> QED
  BY <1>1, <1>5, FineStep

(* zvselpiu.                                                               *)
LEMMA StepSelectUnit ==
  ASSUME IInv, NEW u \in Unit, CallSelectUnit(u)
  PROVE  Good
<1> DEFINE same == lib.byUnit = u
           k == lib.byKey
           d == IF same THEN lib ELSE DropPrimary(lib)
           r == Ok(Selected(d, k, u))
<1>1. Sound(lib, lib.flagOpen) /\ lib.key[u] # Primary
  BY DEF IInv, CallSelectUnit, Theirs
<1>2. d.byKey = k /\ d \in LibType
  BY <1>1, DropFacts DEF Sound
<1>3. [d EXCEPT !.byUnit = u] = Selected(d, k, u)
  BY <1>2 DEF LibType, Selected
<1>4. lib' = [d EXCEPT !.byUnit = u] /\ UNCHANGED ended
  BY DEF CallSelectUnit, Returns, Ok
<1>5. r.lib = Selected(IF same THEN lib ELSE DropPrimary(lib), k, u)
  BY DEF Ok
<1>6. same \in BOOLEAN /\ u # NoUnit /\ k \in InpKeys \cup {NoKey}
  BY <1>1, Fields, Table DEF Sound
<1>7. lib' = r.lib
  BY <1>3, <1>4, <1>5
<1> HIDE DEF r, same, k
<1>8. Fine(lib, r)
  BY <1>1, <1>5, <1>6, SelectFacts
<1> QED
  BY <1>4, <1>7, <1>8, FineStep

(* zvend.                                                                  *)
LEMMA StepEnd ==
  ASSUME Failures \subseteq Clean, IInv, CallEnd
  PROVE  Good
<1>1. Sound(lib, lib.flagOpen) /\ Open(lib) = lib.flagOpen
  BY OpenUnits DEF IInv
<1>2. PICK done \in SUBSET lib.flagOpen, shut \in SUBSET lib.flagOpen :
        /\ shut \ done # {} => May("close")
        /\ lib' = [lib EXCEPT
             !.corrupt = \E u \in done : lib.ptr[u] \notin lib.heap,
             !.fds = @ \ {Channel(lib, u) : u \in done \cup shut},
             !.heap = @ \ {lib.ptr[u] : u \in done},
             !.chan = Forget(@, {lib.ptr[u] : u \in done}),
             !.ptr = [u \in Unit |-> IF u \in done THEN Null ELSE @[u]],
             !.flagOpen = @ \ done]
  BY <1>1 DEF CallEnd
<1>3. done \cup shut = done
  BY <1>2, LeftOverFacts
<1>4. lib' = AtEnd(lib, done)
  BY <1>2, <1>3 DEF AtEnd
<1>5. Sound(AtEnd(lib, done), AtEnd(lib, done).flagOpen)
  BY <1>1, EndFacts
<1>6. Sound(lib', lib'.flagOpen)
  BY <1>4, <1>5
<1>7. ended' = TRUE
  BY DEF CallEnd
<1> QED
  BY <1>6, <1>7 DEF Good, IInv, CallerCloses

(* A process starts with no unit, and with its standard input.             *)
LEMMA InitIInv == Init => IInv
<1> SUFFICES ASSUME Init PROVE IInv
  OBVIOUS
<1>1. 0 \in Unit /\ 0 \in 0 .. (NFds - 1) /\ 0 \in -1 .. (NFds - 1)
  BY Table DEF Unit
<1>2. lib \in LibType
  BY <1>1, Table DEF Init, LibType, Stdin
<1>3. /\ lib.corrupt = FALSE /\ lib.flagOpen = {} /\ lib.heap = {} /\ lib.fds = {Stdin}
      /\ lib.primOpen = FALSE /\ lib.byUnit = NoUnit
      /\ \A u \in Unit : lib.key[u] = NoKey /\ lib.ptr[u] = Null
  BY DEF Init
<1>4. OwnedBy(lib, {})
  BY <1>3 DEF OwnedBy
<1>5. PrimaryIsKnown(lib)
  BY <1>3, Table DEF PrimaryIsKnown
<1> QED
  BY <1>2, <1>3, <1>4, <1>5 DEF Init, IInv, Sound

(* Every step of Next is good.                                             *)
LEMMA NextGood ==
  ASSUME Failures \subseteq Clean, IInv, Next
  PROVE  Good
BY StepUnit, StepOpenInput, StepOpenOutput, StepClose, StepSelectUnit,
   StepSelectInstance, StepEnd DEF Next

(* So is a step that changes nothing.                                      *)
LEMMA StutterGood ==
  ASSUME IInv, UNCHANGED vars
  PROVE  Good
<1>1. lib' = lib /\ ended' = ended
  BY DEF vars
<1> QED
  BY <1>1 DEF Good, IInv, CallerCloses
-----------------------------------------------------------------------------
(* Theorems.                                                               *)

(* However calls follow on each other and fail, as long as they fail in    *)
(* one of the ways of Clean, the units that are open own a bufstate and a  *)
(* descriptor each, and nothing else owns any (zvunit, zvopen, zvclose,    *)
(* zvselpi, zvselpiu, zvend).                                              *)
THEOREM Ownership ==
  ASSUME Failures \subseteq Clean
  PROVE  Spec => []IInv
<1>1. Init => IInv
  BY InitIInv
<1>2. IInv /\ [Next]_vars => IInv'
  BY NextGood, StutterGood DEF Good
<1> QED
  BY <1>1, <1>2, PTL DEF Spec

(* The library's state has its type.                                       *)
THEOREM TypeCorrect ==
  ASSUME Failures \subseteq Clean
  PROVE  Spec => []TypeOK
<1>1. IInv => TypeOK
  BY Fields DEF IInv, Sound, TypeOK
<1> QED
  BY <1>1, Ownership, PTL

(* No bufstate is used or freed after it has been freed (v2_close_unit).   *)
THEOREM FreedOnce ==
  ASSUME Failures \subseteq Clean
  PROVE  Spec => []NothingFreedTwice
<1>1. IInv => NothingFreedTwice
  BY DEF IInv, Sound, NothingFreedTwice
<1> QED
  BY <1>1, Ownership, PTL

(* Every open unit has a bufstate and an open file to itself.              *)
THEOREM OwnFiles ==
  ASSUME Failures \subseteq Clean
  PROVE  Spec => []OpenUnitsOwnTheirFiles
<1>1. IInv => OpenUnitsOwnTheirFiles
  <2> SUFFICES ASSUME IInv, NEW u \in lib.flagOpen
               PROVE  /\ lib.ptr[u] \in lib.heap
                      /\ Channel(lib, u) \in lib.fds \ {Stdin}
                      /\ \A v \in Unit \ {u} :
                           /\ lib.ptr[v] # lib.ptr[u]
                           /\ v \in lib.flagOpen => Channel(lib, v) # Channel(lib, u)
    BY OpenUnits DEF IInv, OpenUnitsOwnTheirFiles
  <2>1. lib.ptr[u] \in lib.heap /\ lib.heap \subseteq Bufs
    BY Fields DEF IInv, Sound, OwnedBy
  <2>2. \A v \in Unit \ lib.flagOpen : lib.ptr[v] # lib.ptr[u]
    BY <2>1, Table DEF IInv, Sound, OwnedBy
  <2> QED
    BY <2>1, <2>2 DEF IInv, Sound, OwnedBy
<1> QED
  BY <1>1, Ownership, PTL

(* Descriptors and bufstates belong to open units and to nothing else, so  *)
(* that a file that is partially open is closed down (v2_close_down).      *)
THEOREM NoLeaks ==
  ASSUME Failures \subseteq Clean
  PROVE  Spec => []NothingLeaks
<1>1. IInv => NothingLeaks
  <2> SUFFICES ASSUME IInv
               PROVE  /\ lib.fds = {Stdin} \cup {Channel(lib, u) : u \in lib.flagOpen}
                      /\ lib.heap = {lib.ptr[u] : u \in lib.flagOpen}
    BY OpenUnits DEF IInv, NothingLeaks
  <2> QED
    BY DEF IInv, Sound, OwnedBy
<1> QED
  BY <1>1, Ownership, PTL

(* The primary input lives in a slot of its own, owns no file, and holds   *)
(* the values of the instance that is selected (v2_check_primary_input,    *)
(* zvselpi).                                                               *)
THEOREM PrimarySelected ==
  ASSUME Failures \subseteq Clean
  PROVE  Spec => []PrimaryInputIsSelected
<1>1. IInv => PrimaryInputIsSelected
  <2> SUFFICES ASSUME IInv, lib.primOpen
               PROVE  /\ lib.key[lib.primUnit] = Primary
                      /\ lib.ptr[lib.primUnit] = Null
                      /\ lib.primUnit \notin lib.flagOpen
                      /\ lib.byUnit = NoUnit => lib.source = lib.byKey
    BY DEF PrimaryInputIsSelected
  <2>1. lib.primUnit \in Unit
    BY Fields DEF IInv, Sound
  <2> QED
    BY <2>1 DEF IInv, Sound, OwnedBy, PrimaryIsKnown
<1> QED
  BY <1>1, Ownership, PTL

(* A unit that is open stays open, on its file, through every call but a   *)
(* zvclose that names it and zvend (v2_est_primary_input).                 *)
THEOREM ClosedByCaller ==
  ASSUME Failures \subseteq Clean
  PROVE  Spec => ClosedOnlyByItsCaller
<1>1. IInv /\ [Next]_vars => CallerCloses
  BY NextGood, StutterGood DEF Good
<1> QED
  BY <1>1, Ownership, PTL DEF Spec, ClosedOnlyByItsCaller, CallerCloses
=============================================================================
