------------------------------- MODULE Units --------------------------------
(***************************************************************************)
(* The life of a unit in the VICAR run-time library: zvunit, zvopen,       *)
(* zvclose, zvend, and the primary input that opening a file for output    *)
(* may open, read and close behind the caller's back.                      *)
(*                                                                         *)
(* What is modelled is who owns what: the slots of the unit table, the     *)
(* bufstates on the heap, the file descriptors of the process.  A call is  *)
(* one step; calls nest (zvopen for output calls zvunit, zvopen and        *)
(* zvclose on the primary input), so each is an operator from the          *)
(* library's state, a record, to the state and status it returns.          *)
(***************************************************************************)
EXTENDS Integers, FiniteSets

CONSTANTS
  NUnits,    \* slots in the unit table (N_ACTIVE_UNITS_ALLOWED)
  NFds,      \* bound: file descriptors a process may have open
  Bufs,      \* addresses malloc gives a bufstate
  Null,      \* the NULL bufstate pointer
  Keys,      \* the <<name, instance>> pairs that callers name units by
  InpKeys,   \* those named "INP"
  DefaultPI, \* the one that primary_instance selects at first
  NoKey,     \* no such pair: an inactive slot, or no primary input
  Primary,   \* the pair that the library keeps for the primary input
  Failures   \* the ways in which a call may fail, see FailureKinds

(* Where a call fails: a message optional or the NAME in zvunit, on a unit *)
(* not open or one open; no slot free while the caller's variable holds an *)
(* open unit; no file given for the primary input; file name expansion,    *)
(* open(2), the label, the pixel format or the organization, the labels    *)
(* read again for the primary input, the translation after the open; flush *)
(* or ftruncate(2) before the close, close(2) itself.                      *)
FailureKinds ==
  {"option", "optionopen", "stale", "noinp", "expand", "open", "label",
   "format", "primary", "late", "flush", "close"}

ASSUME UnitTable ==
  /\ NUnits \in Nat \ {0} /\ NFds \in Nat \ {0}
  /\ Null \notin Bufs
  /\ InpKeys \subseteq Keys /\ DefaultPI \in InpKeys
  /\ Primary \notin Keys /\ NoKey \notin Keys \cup {Primary}
  /\ Failures \subseteq FailureKinds

Unit == 0 .. (NUnits - 1)
NoUnit == -1
Stdin == 0

VARIABLES
  lib,    \* the library's state
  call,   \* the last call: its name and its unit
  ended   \* TRUE once zvend has run

vars == <<lib, call, ended>>

Least(S) == CHOOSE x \in S : \A y \in S : x <= y
May(f) == f \in Failures \cup {"none"}

Ok(s) == [lib |-> s, status |-> "SUCCESS"]
Err(s, status) == [lib |-> s, status |-> status]

(* The open units: zvend looks at a unit's FLAGS only if it is active.     *)
Active(s) == {u \in Unit : s.key[u] # NoKey}
Open(s) == Active(s) \cap s.flagOpen
Channel(s, u) == s.chan[s.ptr[u]]

-----------------------------------------------------------------------------
(* Slots of the unit table.                                                *)

(* v2_activate_a_unit: the slot already active under that name, else the   *)
(* first inactive one, its values reset.                                   *)
Activate(s, key) ==
  LET same == {u \in Unit : s.key[u] = key}
      free == Unit \ Active(s)
      u    == Least(free)
  IN  IF same # {} THEN [lib |-> s, unit |-> Least(same)]
      ELSE IF free = {} THEN [lib |-> s, unit |-> NoUnit]
      ELSE [lib  |-> [s EXCEPT !.key[u] = key, !.ptr[u] = Null,
                               !.flagOpen = @ \ {u}],
            unit |-> u]

(* v2_deactivate_a_unit: the values stay in the slot.                      *)
Deactivate(s, u) == [s EXCEPT !.key[u] = NoKey]

(* What is left in bufstates that are freed does not matter.               *)
Forget(chan, freed) == [b \in Bufs |-> IF b \in freed THEN 0 ELSE chan[b]]

(* v2_close_unit: free the bufstate and reset the values.  A bufstate that *)
(* is not on the heap is freed a second time.                              *)
CloseUnit(s, u) ==
  [s EXCEPT !.corrupt = @ \/ s.ptr[u] \notin s.heap \cup {Null},
            !.heap = @ \ {s.ptr[u]},
            !.chan = Forget(@, {s.ptr[u]}),
            !.ptr[u] = Null,
            !.flagOpen = @ \ {u}]

(* v2_close_os_file: close(2) the channel of the unit's bufstate, open or  *)
(* not.                                                                    *)
CloseOsFile(s, u) ==
  IF s.ptr[u] \notin s.heap THEN [s EXCEPT !.corrupt = TRUE]
  ELSE [s EXCEPT !.fds = @ \ {s.chan[s.ptr[u]]}]

(* Mutant: the bufstate is freed with its file still open.                 *)
CloseDownUnitOnly(s, u) == CloseUnit(s, u)

(* v2_close_down: give up a file that is partially open.                   *)
CloseDown(s, u) == CloseUnit(CloseOsFile(s, u), u)

-----------------------------------------------------------------------------
(* Opening a disk file.                                                    *)

(* A fresh bufstate, all zero, in the unit; the caller has seen to it that *)
(* there is one.                                                           *)
NewBufstate(s, u) ==
  LET b == CHOOSE b \in Bufs : b \notin s.heap
  IN  [s EXCEPT !.heap = @ \cup {b}, !.ptr[u] = b, !.chan[b] = 0]

(* v2_open_disk_input and v2_open_disk_output: open(2) gives the lowest    *)
(* descriptor that is free.                                                *)
OpenDisk(s, u, fail) ==
  LET free == (0 .. (NFds - 1)) \ s.fds
      b    == s.ptr[u]
  IN  IF fail = "expand" THEN Err(s, "ERROR")
      ELSE IF fail = "open" \/ free = {}
        THEN Err([s EXCEPT !.chan[b] = -1], "ERROR")
      ELSE Ok([s EXCEPT !.chan[b] = Least(free), !.fds = @ \cup {Least(free)}])

IsPrimary(s, u) ==
  IF s.byUnit # NoUnit THEN u = s.byUnit
  ELSE s.byKey # NoKey /\ s.key[u] = s.byKey

(* v2_close_unit as zvselpi, zvselpiu and v2_check_primary_input use it on *)
(* the old primary input.                                                  *)
DropPrimary(s) ==
  IF s.primOpen
    THEN [CloseUnit(s, s.primUnit) EXCEPT !.primOpen = FALSE, !.source = NoKey]
    ELSE s

(* Mutant: the primary input keeps its pointer to the bufstate.            *)
EstPrimaryEnvironShares(s, u, fail) ==
  LET p == s.primUnit
      copied == [s EXCEPT !.ptr[p] = s.ptr[u],
                          !.flagOpen = IF u \in @ THEN @ \cup {p} ELSE @ \ {p}]
  IN  IF fail = "primary" THEN Err(copied, "ERROR")
      ELSE Ok([copied EXCEPT !.source = s.key[u]])

(* v2_est_primary_environ: copy the unit's values, its bufstate among      *)
(* them, read the labels through the copy, and give up the bufstate.       *)
EstPrimaryEnviron(s, u, fail) ==
  LET p == s.primUnit
      copied == [s EXCEPT !.ptr[p] = s.ptr[u],
                          !.flagOpen = IF u \in @ THEN @ \cup {p} ELSE @ \ {p}]
  IN  IF fail = "primary" THEN Err(copied, "ERROR")
      ELSE Ok([copied EXCEPT !.ptr[p] = Null, !.source = s.key[u]])

PrimaryMade(e) ==
  LET p == e.lib.primUnit
  IN  IF e.status # "SUCCESS" THEN Err(CloseUnit(e.lib, p), e.status)
      ELSE Ok([e.lib EXCEPT !.primOpen = TRUE, !.flagOpen = @ \ {p}])

(* Mutant: the unit number is overwritten before it is known to be one.    *)
MakePrimaryUnchecked(a, u, fail) ==
  LET numbered == [a.lib EXCEPT !.primUnit = a.unit]
  IN  IF a.unit = NoUnit THEN Err(numbered, "ERROR")
      ELSE PrimaryMade(EstPrimaryEnviron(numbered, u, fail))

(* a is what v2_activate_a_unit has made of the primary input's unit.      *)
MakePrimary(a, u, fail) ==
  LET numbered == [a.lib EXCEPT !.primUnit = a.unit]
  IN  IF a.unit = NoUnit THEN Err(a.lib, "ERROR")
      ELSE PrimaryMade(EstPrimaryEnviron(numbered, u, fail))

(* v2_check_primary_input.                                                 *)
CheckPrimary(s, u, fail) ==
  IF IsPrimary(s, u) THEN MakePrimary(Activate(DropPrimary(s), Primary), u, fail)
  ELSE Ok(s)

(* v2_process_input_file.  The returns for a bad format, organization or   *)
(* size do not close the file down.                                        *)
PrimaryChecked(c, u) ==
  IF c.status # "SUCCESS" THEN Err(CloseDown(c.lib, u), c.status)
  ELSE Ok([c.lib EXCEPT !.flagOpen = @ \cup {u}])

InputOpened(o, u, fail) ==
  IF o.status # "SUCCESS" THEN Err(CloseDown(o.lib, u), o.status)
  ELSE IF fail = "label" THEN Err(CloseDown(o.lib, u), "BAD_INPUT_LABEL")
  ELSE IF fail = "format" THEN Err(o.lib, "ERROR")
  ELSE PrimaryChecked(CheckPrimary(o.lib, u, fail), u)

ProcessInput(s, u, fail) ==
  IF Bufs \subseteq s.heap THEN Err(s, "ERROR")
  ELSE InputOpened(OpenDisk(NewBufstate(s, u), u, fail), u, fail)

-----------------------------------------------------------------------------
(* The calls.                                                              *)

(* zvunit.  With no slot free the unit number is left as it was, and the   *)
(* unit of that number is deactivated.                                     *)
ZvUnit(s, key, fail, old) ==
  LET a == Activate(s, key)
  IN  IF a.unit = NoUnit
        THEN [unit |-> old, lib |-> Deactivate(s, old), status |-> "NO_FREE_UNITS"]
      ELSE IF fail \in {"option", "optionopen"}
        THEN [unit |-> a.unit, lib |-> Deactivate(a.lib, a.unit), status |-> "ERROR"]
      ELSE [unit |-> a.unit, lib |-> a.lib, status |-> "SUCCESS"]

(* zvopen sets up the translation last; it may be refused, with the file   *)
(* left open.                                                              *)
Translated(r, fail) ==
  IF r.status = "SUCCESS" /\ fail = "late" THEN Err(r.lib, "ERROR") ELSE r

(* Mutant: a unit that is open is opened again.                            *)
ZvOpenInputAgain(s, u, fail) ==
  IF u \notin Active(s) THEN Err(s, "NO_SUCH_UNIT")
  ELSE Translated(ProcessInput(s, u, fail), fail)

(* zvopen for input.                                                       *)
ZvOpenInput(s, u, fail) ==
  IF u \notin Active(s) THEN Err(s, "NO_SUCH_UNIT")
  ELSE IF u \in s.flagOpen THEN Err(s, "FILE_IS_ALREADY_OPEN")
  ELSE Translated(ProcessInput(s, u, fail), fail)

(* Mutant: the file is closed before its buffer is known to be flushed.    *)
ZvCloseTooSoon(s, u, free, fail) ==
  LET closed == CloseDown(s, u)
  IN  IF u \notin Active(s) THEN Err(s, "NO_SUCH_UNIT")
      ELSE IF u \notin s.flagOpen THEN Err(s, "FILE_NOT_OPEN")
      ELSE IF fail \in {"flush", "close"} THEN Err(CloseOsFile(s, u), "ERROR")
      ELSE IF free THEN Ok(Deactivate(closed, u))
      ELSE Ok(closed)

(* zvclose; free is whether CLOS_ACT says FREE.  A failure leaves the unit *)
(* open, even when close(2) has given the descriptor back.                 *)
ZvClose(s, u, free, fail) ==
  LET closed == CloseDown(s, u)
  IN  IF u \notin Active(s) THEN Err(s, "NO_SUCH_UNIT")
      ELSE IF u \notin s.flagOpen THEN Err(s, "FILE_NOT_OPEN")
      ELSE IF fail = "flush" THEN Err(s, "ERROR")
      ELSE IF fail = "close" THEN Err(CloseOsFile(s, u), "ERROR")
      ELSE IF free THEN Ok(Deactivate(closed, u))
      ELSE Ok(closed)

(* v2_est_primary_input: unless there is a primary input, open the file    *)
(* selected, which makes it the primary input, and close it again.  A file *)
(* that was open stays open.                                               *)
PrimaryOpened(o, s, u, fail) ==
  IF o.status = "FILE_IS_ALREADY_OPEN" THEN CheckPrimary(s, u, fail)
  ELSE IF o.status # "SUCCESS" THEN o
  ELSE ZvClose(o.lib, u, FALSE, fail)

OpenPrimary(z, fail) ==
  IF z.status # "SUCCESS" THEN z
  ELSE PrimaryOpened(ZvOpenInput(z.lib, z.unit, fail), z.lib, z.unit, fail)

EstPrimaryInput(s, fail, old) ==
  IF s.primOpen THEN Ok(s)
  ELSE IF s.byUnit # NoUnit
    THEN OpenPrimary([unit |-> s.byUnit, lib |-> s, status |-> "SUCCESS"], fail)
  ELSE IF s.byKey = NoKey \/ fail = "noinp" THEN Err(s, "BAD_INPUT_LABEL")
  ELSE OpenPrimary(ZvUnit(s, s.byKey, fail, old), fail)

(* v2_process_output_file, after the primary input; a primary input that   *)
(* is unlabelled or absent is no error.                                    *)
OutputOpened(o, u, fail) ==
  IF o.status # "SUCCESS" THEN Err(CloseDown(o.lib, u), o.status)
  ELSE IF fail = "label" THEN Err(CloseDown(o.lib, u), "ERROR")
  ELSE Ok([o.lib EXCEPT !.flagOpen = @ \cup {u}])

ProcessOutput(s, u, fail) ==
  IF fail = "format" \/ Bufs \subseteq s.heap THEN Err(s, "ERROR")
  ELSE OutputOpened(OpenDisk(NewBufstate(s, u), u, fail), u, fail)

PrimaryKnown(p, u, fail) ==
  IF p.status \in {"SUCCESS", "BAD_INPUT_LABEL"}
    THEN Translated(ProcessOutput(p.lib, u, fail), fail)
    ELSE Err(p.lib, "ERROR")

ZvOpenOutput(s, u, fail, failPrimary, old) ==
  IF u \notin Active(s) THEN Err(s, "NO_SUCH_UNIT")
  ELSE IF u \in s.flagOpen THEN Err(s, "FILE_IS_ALREADY_OPEN")
  ELSE PrimaryKnown(EstPrimaryInput(s, failPrimary, old), u, fail)

-----------------------------------------------------------------------------
Init ==
  /\ lib = [key      |-> [u \in Unit |-> NoKey],  \* active_units
            flagOpen |-> {},                       \* units with OPEN in FLAGS
            ptr      |-> [u \in Unit |-> Null],    \* BUFSTATE
            heap     |-> {},                       \* bufstates not freed
            chan     |-> [b \in Bufs |-> 0],       \* dev.disk.channel
            fds      |-> {Stdin},                  \* descriptors open
            primOpen |-> FALSE,                    \* primary_input_open
            primUnit |-> 0,                        \* primary_input_unit
            byKey    |-> DefaultPI,                \* primary_instance
            byUnit   |-> NoUnit,                   \* primary_unit_requested
            source   |-> NoKey,     \* history: whose values the primary has
            corrupt  |-> FALSE]     \* history: freed memory has been used
  /\ call = [name |-> "none", unit |-> NoUnit]
  /\ ended = FALSE

(* After a use of freed memory anything may happen, and nothing more is    *)
(* modelled.  Callers use the unit numbers that zvunit gave them.          *)
Running == ~ended /\ ~lib.corrupt
Theirs(u) == lib.key[u] # Primary

Returns(name, u, r) ==
  /\ lib' = r.lib
  /\ call' = [name |-> name, unit |-> u]
  /\ UNCHANGED ended

(* The unit number a variable may hold before zvunit has set it.           *)
LeftOver ==
  IF "stale" \in Failures THEN Unit ELSE Unit \ (lib.flagOpen \cup {lib.primUnit})

(* A zvunit that fails on a unit that is open is a failure of its own.     *)
OptionFails(key) ==
  IF \E u \in Open(lib) : lib.key[u] = key THEN "optionopen" ELSE "option"

OpenFails == {"none", "expand", "open", "label", "format", "late"}

CallUnit(key) ==
  /\ Running
  /\ \E fail \in {"none", OptionFails(key)}, old \in LeftOver :
       /\ May(fail)
       /\ LET r == ZvUnit(lib, key, fail, old) IN Returns("zvunit", r.unit, r)

CallOpenInput(u) ==
  /\ Running /\ Theirs(u)
  /\ \E fail \in OpenFails \cup {"primary"} :
       May(fail) /\ Returns("zvopen", u, ZvOpenInput(lib, u, fail))

CallOpenOutput(u) ==
  /\ Running /\ Theirs(u)
  /\ \E fail \in OpenFails, old \in LeftOver,
        failPrimary \in OpenFails \cup
          {"noinp", "primary", "flush", "close", OptionFails(lib.byKey)} :
       /\ May(fail) /\ May(failPrimary)
       /\ Returns("zvopen", u, ZvOpenOutput(lib, u, fail, failPrimary, old))

CallClose(u) ==
  /\ Running /\ Theirs(u)
  /\ \E fail \in {"none", "flush", "close"}, free \in BOOLEAN :
       May(fail) /\ Returns("zvclose", u, ZvClose(lib, u, free, fail))

(* Mutant: the primary input that is open stays.                           *)
CallSelectInstanceLater(key) ==
  /\ Running
  /\ Returns("zvselpi", NoUnit, Ok([lib EXCEPT !.byKey = key, !.byUnit = NoUnit]))

(* zvselpi: take the primary input from an instance of INP, or from none.  *)
CallSelectInstance(key) ==
  /\ Running
  /\ LET same == lib.byUnit = NoUnit /\ lib.byKey = key
         s == IF same THEN lib ELSE DropPrimary(lib)
     IN  Returns("zvselpi", NoUnit, Ok([s EXCEPT !.byKey = key, !.byUnit = NoUnit]))

(* zvselpiu: take it from a unit.                                          *)
CallSelectUnit(u) ==
  /\ Running /\ Theirs(u)
  /\ LET s == IF lib.byUnit = u THEN lib ELSE DropPrimary(lib)
     IN  Returns("zvselpiu", u, Ok([s EXCEPT !.byUnit = u]))

(* zvend: zvclose the open units one after the other, and exit whatever    *)
(* has become of them.                                                     *)
CallEnd ==
  /\ Running
  /\ \E done, shut \in SUBSET Open(lib) :
       /\ done \cup shut # Open(lib) => May("flush")
       /\ shut \ done # {} => May("close")
       /\ lib' = [lib EXCEPT
            !.corrupt = \E u \in done : lib.ptr[u] \notin lib.heap,
            !.fds = @ \ {Channel(lib, u) : u \in done \cup shut},
            !.heap = @ \ {lib.ptr[u] : u \in done},
            !.chan = Forget(@, {lib.ptr[u] : u \in done}),
            !.ptr = [u \in Unit |-> IF u \in done THEN Null ELSE @[u]],
            !.flagOpen = @ \ done]
  /\ call' = [name |-> "zvend", unit |-> NoUnit]
  /\ ended' = TRUE

Next ==
  \/ \E key \in Keys : CallUnit(key)
  \/ \E u \in Unit :
       \/ CallOpenInput(u)
       \/ CallOpenOutput(u)
       \/ CallClose(u)
       \/ CallSelectUnit(u)
  \/ \E key \in InpKeys \cup {NoKey} : CallSelectInstance(key)
  \/ CallEnd

Spec == Init /\ [][Next]_vars

-----------------------------------------------------------------------------
(* The invariant that the proofs use.                                      *)
LibType ==
  [key      : [Unit -> Keys \cup {Primary, NoKey}],
   flagOpen : SUBSET Unit,
   ptr      : [Unit -> Bufs \cup {Null}],
   heap     : SUBSET Bufs,
   chan     : [Bufs -> -1 .. (NFds - 1)],
   fds      : SUBSET (0 .. (NFds - 1)),
   primOpen : BOOLEAN,
   primUnit : Unit,
   byKey    : InpKeys \cup {NoKey},
   byUnit   : Unit \cup {NoUnit},
   source   : Keys \cup {Primary, NoKey},
   corrupt  : BOOLEAN]

(* The units of O, which are those that are open and perhaps one that is   *)
(* being opened, have a bufstate and a file each, and nothing else has.    *)
OwnedBy(s, O) ==
  /\ \A u \in O : /\ s.key[u] \notin {NoKey, Primary}
                 /\ s.ptr[u] \in s.heap
                 /\ Channel(s, u) \in s.fds \ {Stdin}
  /\ \A u \in Unit \ O : s.ptr[u] = Null
  /\ \A u, v \in O : u # v => s.ptr[u] # s.ptr[v] /\ Channel(s, u) # Channel(s, v)
  /\ \A b \in s.heap : \E u \in O : b = s.ptr[u]
  /\ Stdin \in s.fds
  /\ \A d \in s.fds \ {Stdin} : \E u \in O : d = Channel(s, u)

(* Only the primary input's unit has the name kept for it.                 *)
PrimaryIsKnown(s) ==
  /\ \A u \in Unit : s.key[u] = Primary => u = s.primUnit
  /\ s.byUnit # NoUnit => s.key[s.byUnit] # Primary
  /\ s.primOpen => /\ s.key[s.primUnit] = Primary
                   /\ s.byUnit = NoUnit => s.source = s.byKey

Sound(s, O) ==
  /\ s \in LibType /\ ~s.corrupt
  /\ O \in SUBSET Unit /\ s.flagOpen \subseteq O
  /\ OwnedBy(s, O)
  /\ PrimaryIsKnown(s)

IInv == Sound(lib, lib.flagOpen) /\ ended \in BOOLEAN

-----------------------------------------------------------------------------
TypeOK ==
  /\ lib.key \in [Unit -> Keys \cup {Primary, NoKey}]
  /\ lib.flagOpen \subseteq Unit
  /\ lib.ptr \in [Unit -> Bufs \cup {Null}]
  /\ lib.heap \subseteq Bufs
  /\ lib.chan \in [Bufs -> -1 .. (NFds - 1)]
  /\ lib.fds \subseteq 0 .. (NFds - 1)
  /\ lib.primUnit \in Unit
  /\ lib.byUnit \in Unit \cup {NoUnit}
  /\ lib.byKey \in InpKeys \cup {NoKey}
  /\ {lib.primOpen, lib.corrupt, ended} \subseteq BOOLEAN

(* No call uses or frees a bufstate that has been freed (v2_close_unit,    *)
(* v2_close_down; est_primary_environ.c on "two pointers to the same       *)
(* bufstate").                                                             *)
NothingFreedTwice == ~lib.corrupt

(* However opens, failed opens, closes and the primary input's own opens   *)
(* interleave, every open unit has a bufstate and an open file to itself.  *)
OpenUnitsOwnTheirFiles ==
  \A u \in Open(lib) :
    /\ lib.ptr[u] \in lib.heap
    /\ Channel(lib, u) \in lib.fds \ {Stdin}
    /\ \A v \in Unit \ {u} :
         /\ lib.ptr[v] # lib.ptr[u]
         /\ v \in Open(lib) => Channel(lib, v) # Channel(lib, u)

(* "The 'partially' opened file must be 'closed down'" (close_down.c):     *)
(* descriptors and bufstates belong to open units and to nothing else.     *)
NothingLeaks ==
  /\ lib.fds = {Stdin} \cup {Channel(lib, u) : u \in Open(lib)}
  /\ lib.heap = {lib.ptr[u] : u \in Open(lib)}

(* The primary input lives in a slot of its own, owns no file, and holds   *)
(* the values of the instance that is selected (v2_check_primary_input,    *)
(* zvselpi).                                                               *)
PrimaryInputIsSelected ==
  lib.primOpen =>
    /\ lib.key[lib.primUnit] = Primary
    /\ lib.ptr[lib.primUnit] = Null
    /\ lib.primUnit \notin lib.flagOpen
    /\ lib.byUnit = NoUnit => lib.source = lib.byKey

(* "Don't close if we didn't open!" (est_primary_input.c): a unit that is  *)
(* open stays open, on its file, through every call but a zvclose that     *)
(* names it and zvend.                                                     *)
ClosedOnlyByItsCaller ==
  [][\A u \in Open(lib) :
       \/ ended'
       \/ call'.name = "zvclose" /\ call'.unit = u
       \/ u \in Open(lib') /\ lib'.key[u] = lib.key[u]
          /\ lib'.ptr[u] = lib.ptr[u] /\ Channel(lib', u) = Channel(lib, u)]_vars

(* "If a different PI is already open, then get rid of it" (zvselpiu): a   *)
(* primary input that survives the selection of a unit is that unit's.     *)
SelectionTakesEffect ==
  [][call'.name = "zvselpiu" /\ lib'.primOpen /\ call'.unit \in Active(lib)
       => lib'.source = lib.key[call'.unit]]_vars
=============================================================================
