# VICAR in TLA+

VICAR is JPL's image processing system.  Every VICAR program reads and writes
images through one C library, the run-time library (RTL, `src/vos/rtl`); the
programs that show images, of the later Java generation, draw them tile by tile
through one display component, JADE's `JadeDisplay` (`src/vos/java/jpl/mipl/jade`).
This project models those two: the library's buffered record I/O, its labels,
its image calls and the life of its units, and the display with its damage
list.  The rest of the repository (user interfaces, display libraries,
application programs) is built on the library or beside it.

## Inventory

| Component | State it keeps | Operations | What is hard, and what makes it correct |
|---|---|---|---|
| Record buffer (`read_rec.c`, `write_rec.c`, `update_bufstate.c`, `flush_buffer.c`, `initialize_buffer_unix.c`, `close_file.c`, `finish_file_unix.c`) | `struct bufstate`: buffer, block number, VALID/DIRTY/ALIGN/SEQ flags, `eof_record` | read, write, flush, close | records straddle blocks and buffers; skipped pre-reads; failed flushes.  A record reads back as it was last written, whatever windows it went through; nothing is lost without an error status |
| Unit lifecycle (`xvunit.c`, `xvopen.c`, `xvclose.c`, `xvend.c`, `process_*_file.c`, `close_*.c`, `activate_a_unit.c`) | `active_units`, the value table of each unit (FLAGS, BUFSTATE), the process's descriptors | `zvunit`, `zvopen`, `zvclose`, `zvend` | partial failures of an open; reuse of slots.  Open units own their files, nothing else is owned |
| Primary input (`est_primary_*.c`, `check_primary_input.c`, `xvselpi.c`) | `primary_input_open/_unit`, `primary_instance`, `primary_unit_requested` | established by any open of the selected file, or by opening an output | calls nested in calls; pointers shared for a while; selection by reused numbers |
| Image I/O (`c_xvread.c`, `c_xvwrit.c`) | `IMG_REC` and the slices | `zvread`, `zvwrit` | sequential and random access share a counter; labels must not be reached |
| Labels on disk (`read_in_labels.c`, `create_output_label.c`, `place_cut.c`, `check_out_lbl_on_close.c`, ...) | LABELS, LBLSIZE, EOL, EOL_SIZE, LABELS_MODIFIED | read at open or by the first label call, rewrite at close | labels that outgrow their space go on behind the image; two writes that can each fail.  A label is what its caller has made of it, wherever its parts are |
| Label items (`c_xladd.c`, `c_xldel.c`, `c_xlget.c`, `c_xl*info.c`, ...) | the label string, POSITION, the current task or property | add, delete, get, iterate | edits of two steps; iteration while items are added and deleted; history order |
| Pixel translation (`movetrans.c`, `determine_translation.c`, `convert.c`) | `struct trans`, the partial pixel | per transfer | pixels cut by the window's edge |
| Tile display (`JadeDisplay.java`, `util/TilePainter.java`) | `_im`, `_damageList`, the TilePainters' `_queued` and `_queue_request`, `_repaintPolicy`, what shows | paint, a worker's answer, change of image or rendering, scroll, hide, show, repaint policy | tiles are computed by workers and painted in the event thread, in any order and late; damage is what ties the two.  Nothing that ought to be painted is forgotten, nothing out of date is painted, and in the end the display shows the image |
| Damage list (`util/RectRegion.java`) | `_list` of rectangles | union, subtract, intersect, translate | cutting and merging rectangles.  Each covers exactly the points it should |
| Value tables and optionals (`process_optionals.c`, `presets.c`, `global.c`) | value tables | every call | defaults that persist or not from call to call |
| Errors and exit (`error_handler.c`, `abend.c`) | default error actions | after every failed call | may end the program inside a call |
| Parameters, messages | parameter block | `zvp*`, `zvmessage` | look-ups |
| Tapes, array files, compression, VMS variants | - | - | not built on Linux, or another operating system's build |
| shell-VICAR, STAE, TAE, vrdi, vids, gui, MotifApp, the other Java libraries, p1/p2/p3, util, config, data, docsource, menu | - | - | clients and front ends of the library, and build data |

The library is single-threaded and, on Unix, does no asynchronous I/O: a call
runs to its end before the next.  What is hard there is not concurrency but
*sequences* of calls, *partial failures* inside them, and *numbers* at the
edges of records, blocks and buffers.  The caller is the nondeterministic
environment, and so is the file system, which may fail a call.  The display is
the opposite: two kinds of threads, and messages that wait in queues while
what they are about changes.

How components interact: `zvopen` allocates a `bufstate`, opens the file, reads
the label through it, and perhaps makes the file the primary input;
`zvread`/`zvwrit` turn lines and bands into record numbers and call the record
buffer; label calls edit the label in memory; `zvclose` has the labels
rewritten through the same record buffer, flushes it, truncates the file,
closes it, and resets the unit.  `JadeDisplay.paintComponent` adds what Swing
asks for to the damage list and has each TilePainter paint its tile at once or
queue it; workers notify the TilePainters, which post helpers to the event
thread; helpers paint what is damaged of their tile and take it off the list.

## Modules

| Module | Models | EXTENDS |
|---|---|---|
| `RecordFile` | the promise: a file of records (abstract specification) | |
| `BufferWindow` | the window's geometry: `v2_update_bufstate`, `v2_initialize_buffer`, the pieces of a record | |
| `RecordBuffer` | `v2_read_rec`, `v2_write_rec`, `v2_close_file` over a file on disk | `BufferWindow`; refines `RecordFile` |
| `MCRecordBuffer` | values for small instances | `RecordBuffer` |
| `RecordBufferProofs` | theorems: geometry, the invariant, the refinement | `RecordBuffer` |
| `LabelledImage` | the promise: a label and an image (abstract specification) | |
| `ImageFile` | `zvopen`, the label calls, `zvread`, `zvwrit` and `zvclose` of one unit over a file of records | refines `LabelledImage` |
| `MCImageFile` | labels for small instances | `ImageFile` |
| `ImageFileProofs` | theorems: the invariant, the refinement, the sizes | `ImageFile` |
| `LabelTable` | the promise: items by part and key, and a list of tasks (abstract specification) | |
| `LabelText` | a label in memory as a text, and how things are found in it | |
| `LabelItems` | `zladd`, `zldel`, `zlget`, `zlinfo`, `zlninfo`, `zlhinfo` and `zlpinfo` on one file, opened and closed again | `LabelText`; refines `LabelTable` |
| `MCLabelItems` | short labels | `LabelItems` |
| `LabelItemsProofs`, `LabelItemsRefinement` | theorems: the invariant and the action properties, the refinement | `LabelItems`, and the one before |
| `MoveTrans` | `v2_movetrans` as an operator on two buffers: prefix, whole pixels, the partial pixel | |
| `PixelTransfer` | one `zvread` or `zvwrit`, from samples to bytes, and the one or two calls of `v2_movetrans` it takes | `MoveTrans` |
| `MCPixelTransfer` | the calls on short records, and which of them a run takes | `PixelTransfer` |
| `PixelTransferProofs` | theorems: types, and that a call delivers what it was asked for | `PixelTransfer` |
| `Units` | unit table, bufstates, descriptors, primary input | |
| `UnitsProofs` | theorems | `Units` |
| `TileDisplay` | the display: event thread, workers, users | |
| `MCTileDisplay` | a row of cells in two tiles, and the setups | `TileDisplay` |
| `TileDisplayProofs` | theorems | `TileDisplay` |
| `Region` | the promise: a set of points (abstract specification) | |
| `RectRegion` | the damage list's rectangles | refines `Region` |
| `MCRectRegion` | every cut of one rectangle by another | `RectRegion` |
| `RectRegionProofs` | theorems | `RectRegion` |

The library's modules stack: `RecordBuffer` shows that windows and flushes make
a file of records; `ImageFile` takes its file to be one and shows that label
and image do not touch each other; `LabelItems` opens up what `ImageFile` has as
the items of a label, and takes the file to keep them; `PixelTransfer` opens up what `RecordBuffer`
copies as bytes; `Units` is about which units, files and buffers there are at
all.  `TileDisplay` has the damage list as the set of cells it covers, which is
what `RectRegion` shows its lists of rectangles to be.

### RecordBuffer

State and code: `buffer`, `blockno`, `valid`, `dirty`, `eof_record` are the
fields of `struct bufstate`; the other fields of that struct are functions of
`blockno` and of the sizes, the operators of `BufferWindow`.  `bytes` and
`size` are the file; `op` is OP while the unit is open.  Two variables are
history: `promised`, the addresses whose byte the caller may rely on (whole
records of the file opened, and what was written with success; a failed write
takes its own bytes out), and `userbuf`, what the last read put in the
caller's buffer.

One action is one call with one outcome.  A read is a hit, or a miss after
which the whole window moves; before the move the old window is flushed if
dirty, which may fail.  A write is the same, with the partial record written
into the old window first, and the read of the new window skipped when the
record is whole, last and first in its window.  A write that reaches the last
record of the window flushes it at once.  `write(2)` fails or comes up short
after any of the byte counts in `ShortWrites` has reached the disk; `read(2)`
fails when `ReadErrors`.  A read that hits the end of the file inside the
window leaves the rest of the buffer as it was, stale data included, exactly as
the code does.  In `RB_seq` memory never written reads as zero;
in the other runs as any garbage.

All positions and lengths are in bytes of the file; `UserPixel` and `FilePixel`,
the lengths of a pixel on either side, matter only where the code compares a
length of the one kind with one of the other (`TakenForWhole`).

What the model assumes of the code around it: transfers lie in the record
(`Requests`), and records of a labelled image are within it (`InImage`, the
test at the top of `c_xvread` and `c_xvwrit`).

### ImageFile

State and code: `file` is the file's records; `front`, `op`, `eol`, `eol_size`,
`labels`, `modified`, `img_rec` are LBLSIZE (in records), OP, EOL, EOL_SIZE,
LABELS, LABELS_MODIFIED and IMG_REC of the unit's value table; `result` is what
the last call returned.  A label is a sequence of items, each of one unit of
text; a record has room for `PerRec` of them, and its `note` stands for the
number that its first item carries: the EOL flag in the label's first record,
the size of the EOL label in that label's own.

`OpenInput` reads the EOL flag, and for an update the EOL label's size and
perhaps a history task; `OpenOutput` writes the label of a new file.  The label
calls (`LabelLook`, `LabelAdd`, `LabelDelete`) read the label into memory if no
call has yet.  `ReadLine` and `WriteLine` take a LINE and a BAND or neither,
check them in the code's order, and go on from `img_rec`.  A close cuts the
label at `Room` when it no longer fits in front of the image (`Main`, `EolText`),
writes the records of both parts in order, and truncates the file.  It may stop
after any of those records (`RewriteFails`) or in `v2_close_file`
(`CloseFails`), and then leaves the unit open.

`LabelledImage` promises a label that only edits change, lines that only writes
change, and opens and closes that change neither.  The refinement reads the
label from memory while a unit has it there, and from the file else.

### LabelText and LabelItems

`IsLabel` says what a label is: it begins with its size and nothing else does,
every item has elements, a header has one, and properties come before the
history.  It is what the code relies on of a file, and it is invariant.

State and code: `labels`, `lblalloc`, `modified`, `op` are LABELS, LBLALLOC, the
flag LABELS_MODIFIED and OP; `position` is POSITION, a place in the text that is
`live` unless the memory it points into has been freed; `call` is the last call
with its arguments, its status and what it returned, and stands for nothing in
the code.  A label is a sequence of items, each with its elements and the blanks
behind it.  Its parts are found as the code finds them: the header of a part is
an item like any other (PROPERTY, TASK), a part ends where the next header, or
the label, does, and the instance of a header is its number among those of its
name.  Lengths count one character for blanks, one for an element that other
software wrote, and `Wide` for one that `v2_convert_to_text` wrote, so that
rewriting an item may make it longer than it was (`CannotReplace`, and `zldel`'s
FAILURE) and inserting one may exceed the memory of the label (`AllocFor`).

`DeleteItem`, `AddElements` and `AddItem` are `v2_delete_label_item`,
`v2_add_complex_label_item` and `v2_add_label_item`; `WithProperty`,
`AfterReplacing` and `ZlAdd` are the three edits of a `zladd`, in their order,
with the failures between them: an argument that is missing when the property
has been created, a missing ULEN or a want of memory when the item to be
replaced has gone.  A call that fails leaves `position` as it was, and dangling
if the label has moved.  `Failures` says which of them may happen; `argument` is
the caller's, and the only one in `LI_ops`.  What `zlninfo` finds from inside an
item, or in freed memory, is not modelled.

`LabelTable` promises a function from parts and keys to elements, which
additions and deletions change at the one entry they name and nowhere else,
reads that return the elements asked for, refusals that change nothing and are
given for the reason they name, and a close that loses nothing.  It says nothing
of the order of items, nor of empty properties.  The refinement reads the table
off the text: an item belongs to the last header before it (`HeaderBefore`), which
is the system's, or the header with a name whose instance is its number among
those of that name (`PartAt`).

### Units

`lib` is the library's state as a record; each routine of the code is an
operator from it, and from the failure it meets, to the new state and a
status, so that nesting in the code is nesting in the model: `zvopen` for
output calls `EstPrimaryInput`, which calls `ZvUnit`, `ZvOpenInput` and
`ZvClose`.  `fail` names the step that fails; `Failures` says which may.  A
`bufstate` is an address in `Bufs`, a descriptor a number, given out lowest
first as POSIX has it, 0 being the standard input.  A use or second release of
a freed `bufstate` sets `corrupt`, and nothing is modelled after it.

`process_input_file.c:285-289` and `303-307` test a status that the call
before them has not set; the model has no failure there because the code has
none.

### MoveTrans and PixelTransfer

A byte is a tag and its place: in the prefix, in a pixel not yet translated, in
a translated one.  `MoveTrans` is `v2_movetrans` with its arithmetic, C's
division included (the lengths it divides may be negative).  `PixelTransfer`
lets a caller make any call in `Jobs`: `StartByte` and `NBytes` are the
computation that `c_xvread` and `c_xvwrit` share, and each step is one call of
`v2_movetrans`, with `partial` (pplen and partpix) passed on as in
`v2_read_rec` and `v2_write_rec`.  `pieces` are the four ways those routines
come to a record: whole; its first part in the old window and its last in the
new; the other way round; and its last part in the old window and the whole
record in the new one, which the start of the file has moved.  `CopiesTheOverlap`
states what should arrive from the samples asked for, without the arithmetic.
`Sound` are the calls of which it holds: those within the record (`InRecord`)
that are not among the three kinds that the code gets wrong (see Weaknesses) and
do not leave NSAMPS open after giving SAMP (`RunsToTheEnd`).

A destination has room around it, so that a byte written outside it shows.
What a source holds outside its length is `Junk`.  Where nothing is translated
the pixels of file and caller are taken to be of one size; `CONVERT OFF` with
different formats, and the binary header's records under such formats, whose
lengths `c_xvread` counts in the caller's pixels, are not modelled.

### TileDisplay

State and code: `im` is `_im`; `painted` the image that the present
TilePainters were made for; `damage` is `_damageList`, as a set of cells;
`request[t]` stands for `_queued` and `_queue_request` of tile t's TilePainter;
`policy` is `_repaintPolicy`, `setup.mode` is `_RCE_mode`.  `requests` are the
tile requests at the JAI scheduler, `helpers` the TilePainterHelpers in the
event queue, `cache` the tile cache; `visible`, `dirty` and `screen` are Swing's:
`getVisibleRect`, the area that it is going to paint, and what shows.  An image
has a list of renderings, each a version number per cell; a pixel shown is the
image and that number.

A step is one handler on the event thread (`PaintEvent`, `PaintNoErase`,
`RunHelper`, and what a user or the image does to the display) or one
notification on a worker (`TileComputed`, `TileComputationFailure`,
`TileCancelled`).  `PaintNoErase` is the one handler of several steps, a
rectangle at a time; nothing else runs on the event thread until it is done
(`EventThreadFree`), while workers go on.  `getGraphics` may clip wider than
the damage (see RectRegion); the model chooses either.

`Setups` says what the display may be like: `buffered`, Swing double-buffers it,
so that a paint reaches only its clip; `failures`, a tile's computation may
fail; `quiet`, the application replaces the image only while no answer is on
its way; and `mode`.

### RectRegion

`list` is `_list`; `call` is the call that is running and `index` where its loop
is.  `subtract`'s loop is modelled a pass at a time: `Passed` is its body, which
cuts a rectangle at the four edges in turn (`Cut`), appends what it cuts off to
the list it is going through, and removes the rectangle if what is left of it
lies within; then it stays at the same index.  `UnionMerges` is `union`'s easy
merge; `UnionSubtracts` takes out what is there already and adds the rectangle
when the loop has ended.  `CreateIntersect` keeps, as the code does,
intersections of negative size.

`Region` promises a set of points: each call does with it what its name says.
The mapping gives what the region will be when the loop has ended, so that the
passes are stuttering; that they do end is `PassesLeaveLess`, which needs no
fairness: what a pass leaves to be looked at is what there was, and pieces that
fewer edges cross.

## Runs

| Run | Question | Bounds |
|---|---|---|
| `RB_seq` | does sequential access with straddling records implement `RecordFile`, whichever writes fail or come up short? | records of 3 bytes, blocks of 4, windows of 8; all but the first byte of 3 records; a file of 7 bytes |
| `RB_aligned` | and aligned windows, METHOD=RANDOM, and a labelled image? | records of 2, blocks of 2, two blocks to a window; 4 records, whole or their first byte, 3 of them in the image; files of 0 or 5 bytes |
| `RB_errors` | is the proofs' invariant true with read errors too? | 2 records of 2 bytes, blocks of 1; files of 0 or 4 |
| `IF_file` | do label and image stay what callers made of them? | 2 items to a record, labels of at most 3 and new ones of 1, 2 and 3; one line in two bands; failures of a line's write, of the rewriting of a label that fits, and of the close itself |
| `IF_retry` | and if the rewriting of a label that does not fit fails? (no) | the same, with `split` |
| `LI_ops` | do items stay what callers made of them, and can a program go on from where it is in a label? | texts of at most 12 characters, memory with 2 to spare; two labels, one of them another's; one key, lists of one or two elements, ELEMENT of 0, 1, 2, NELEMENT of 0, 1; one property, one task of up to 3 instances; one update, after and before any number of reads |
| `PT_move` | does each sample asked for arrive, whatever the windows cut? | prefixes of 0, 1 and 3 bytes, 2 pixels of 1 or 4 bytes on either side, every range of samples, every cut, reads and writes |
| `U_life` | who owns files and bufstates after any sequence of calls and clean failures? | 3 slots, 4 names with the primary input's, 4 descriptors, 3 bufstates |
| `U_leak` | and if the open finds a bad format? (a leak) | the same |
| `JD_view` | is anything forgotten, is anything wrong painted, does the display settle? | 3 cells in 2 tiles, 2 images, 4 views, 2 events of users, 3 setups |
| `JD_stale` | and if the image is replaced while answers wait? (it does not) | the same, one setup |
| `RR_ops` | are the operations on rectangles exact? | a plane of 3 by 2, lists of up to 3 rectangles, one of them of negative size; and every cut of one rectangle by another on 4 by 4 |

Fairness.  Only `TileDisplay` states any, weak fairness of `PaintEvent`,
`PaintNoErase`, `RunHelper` and `WorkerAnswers`: Swing's event thread takes the
next event whenever there is one, and JAI's workers take the next request, live
or cancelled (a cancelled one is answered, or `TileCancelled` removes it).
Each is one queue that is served in order or, for the workers, in any order;
nothing more is needed, since users run out of events (`MaxEvents`) and a
worker's answer makes no new request.  Users and the application owe nothing.
In the library a call always returns, and nothing obliges a program to make
another; no liveness is claimed of it.

`CHECK_DEADLOCK FALSE` stands where the system may stop: a display that nobody
uses, a process after `zvend`, and a list of rectangles or a label that the
bounds leave no step.

`LI_ops` has a VIEW (`Lasting`) without `call`: no action reads what the last
call was, and everything that is said of calls is said of steps, which TLC
checks for each step it takes, also to a state that it has seen with another
`call`.

Why the bounds are enough.  What the record buffer does depends on where a
record lies relative to the window: before, after, cut at the front, cut at the
back, whole, whole and last.  With windows of 8 bytes and records of 3 (or
windows of 3 and records of 2) each of these occurs, as does the clamp at the
start of the file, and three records reach the second window and part of the
third.  A byte is a tag and its place in the record, so a misplaced piece
shows.  The proofs remove the bounds for the invariants and for the refinement.

A label of three items with two to a record fills one record, needs two, or is
split with one or two items behind; with one of each kind of line (the one in
front of the label behind, the other behind the label in front) a record too
many on either side shows.  An item added and one deleted lead a label across
its space in both directions, and the calls of a second open find what the
first close left.

In `LI_ops` the label of others has an item of three elements that the library
would write wider, so that deleting one of them fails and deleting two does not;
`ELEMENT` of 2 is inside, at the end of, or behind an item of one to three; an
item of two new elements does not fit the memory of the label as read, and the
next may again.  An item with the same key stands in the part behind the one
that is searched, so that a search that runs on finds it.  Two tasks of one name
and a third by the update's history make instances that differ from their number
in the label.  Edits are undone by other edits, so that one update covers long
sequences of them; it is read again, from the file, after the close.

In `U_life` three slots are filled by two callers' units and the primary
input's, so the table overflows and slots are reused; four descriptors leave
the table the smaller limit, and `open` stands for running out of them too.

For a transfer what matters is where the cut falls: in the prefix, at its end,
inside or between pixels, before, in or after the range asked for.  Two pixels
of four bytes behind prefixes of 0 (never cut), 1 and 3 have all of these, and
one byte against four gives both directions of narrowing and widening.
`PT_move` takes the calls that are `Sound`.  It leaves out those that fail, see
below, and reads and writes of a record with its prefix that give SAMP but not
NSAMPS, whose length reaches past the end of the record.

Two tiles, one of them of two cells, suffice for the display: a tile partly
damaged, partly visible, or off the screen while the other is not, and answers
that overtake each other.  Two events put any two of users' actions into every
gap between a paint, a worker's answer and the turn of its helper; each hazard
listed for the display needs at most two.  `SoundSetups` has each mode once,
with and without double buffering.  `TileDisplayProofs` removes these bounds
for the safety properties.

A rectangle of a plane of 3 by 2 lies before, in, after and across another on
both axes; cuts that leave four pieces need 3 by 3, which is why the cut of
one rectangle by another is evaluated for all pairs on 4 by 4 (`CutsAreExact`).

### Findings

1. `U_leak`: `process_input_file.c` returns without `v2_close_down` on a bad
   format, organization or size, against `close_down.c:7-9`: the file stays
   open and its bufstate allocated.
2. `JD_stale`: a tile of the previous image that waits in the event queue while
   the image is replaced, or taken away, is painted over the new one and taken
   off the damage list, against `TilePainter.java:425-427`: `run` asks whether
   the rendering is current for *its* TilePainter, which is not one of the
   display's any more.
3. `IF_retry`: `check_out_lbl_on_close.c:44` blanks what has to go behind the
   image out of the label in memory before anything is written, against its
   header (7-9): when a write fails, the unit stays open, and a retried close
   succeeds without those items.

### Weaknesses without a run of their own

Each shows by a change of one constant, or one property, of a run.  They are
left out of the passing runs by those constants.

- `RB_seq` with INVARIANT `ValidWindowHoldsFileData`: `read_rec.c:142` marks the
  buffer valid whatever the read returned, against the comment at
  `defines.h:370`.
- `RB_aligned` with `UserPixel = 2`: `write_rec.c:140` compares a number of bytes
  of the caller's pixels with the length of the file's record, so that half of a
  record, given in pixels of twice the file's length, is taken for all of it.
  If the record is the last of the file and the first of its window, the window
  is not read before the write, and the record's other half is lost
  (`Implements`).
- `U_life` with `primary` in `Failures`: `est_primary_environ.c:35` returns with
  the `bufstate` shared between the unit and the primary input, against its own
  comment (47-51): it is freed twice (`NothingFreedTwice`).
- `U_life` with PROPERTY `SelectionTakesEffect`: `xvselpi.c:73` compares unit
  numbers, which are reused, against `xvselpi.c:71`: a different primary input
  stays.
- `U_life` with `optionopen` or `stale`: a `zvunit` that fails on a unit whose
  file is open deactivates it (`xvunit.c:48`, `p_xvunit.c:23`), and `zvend`,
  which is to "close all open files", does not see it; with `expand`: a failed
  name expansion closes descriptor 0; with `close`: a `close(2)` that fails is
  retried on a number that may have another owner.
- `PT_move` with `Jobs <- ReadUpToTheCut`: `movetrans.c:163` takes a pixel cut
  by the end of the source not to fit where it just fits, against the comment
  at 161: the last pixel read is lost when two windows share it.  With
  `WriteBeforeTheCut`: `movetrans.c:195` does not ask whether the source is
  valid, against the comment at 193, so that a write changes the pixel after
  its last.  With `PrefixAlone`: `movetrans.c:134` counts a negative number of
  partial bytes for a request that ends in the prefix, and returns the
  INTERNAL_ERROR that "Shouldn't happen!".  These need a binary prefix whose
  length is not a multiple of the pixel's: windows start and end at multiples
  of the block size, so without one no pixel is ever cut.
- `IF_file` with `rewritten` in `Failures`: a close that fails after the label
  was written back has freed the label but not cleared LABELS_MODIFIED
  (`ModifiedIsInMemory`; the next close takes the length of a null pointer).
  With `eolsize`: an update that could not read the EOL label's size goes on
  with 0, and the close cuts that label off.  With `format`: half an edit is
  seen now and gone after the close, or saved with the next edit.  With
  `UnreadRewrites = TRUE`: an update that writes without LINE before it has
  read writes over the label's last record.  The last three violate
  `Implements`.
- `LI_ops` with `length` or `memory` in `Failures`: a `zladd` with MODE=REPLACE of
  several strings without ULEN (`add_label_item.c:36`), or without memory for a
  longer label (`add_complex_label_item.c:98`), fails when the old item has been
  cut out; the item is lost if anything else is edited, which violates
  `Implements`.
- A `zladd` that fails after it has created a property leaves POSITION where it
  was, in the middle of the text that came behind, or in memory that was freed
  when the label moved (`c_xladd.c:77-80`); `PositionStaysGood` excepts it.
- MODE=REPLACE without ELEMENT replaces nothing, and adds at the end:
  `c_xladd.c:104` takes the default as the end, where `v2_delete_label_item`
  has nothing to delete.  The model, and `LabelTable`, have what the code does.
- `JD_view` with a setup of `buffered` and `failures`: a tile that is painted
  again by Swing after its computation failed leaves a hole, because
  `tileComputationFailure` (`TilePainter.java:356-359`) relies on the damage
  list to have the tile painted by whichever paint comes next.
- What the class comment of `JadeDisplay` (123-142) says of the RCE modes is not
  what they do (1664, 1685): `RCE_FULL_NOERASE` erases where part of the image
  has changed, and `RCE_PARTIAL_NOERASE` does not where all of it has.
  `setImage(im, origin)` (473-476) and `setImageOrigin` (871-874) test
  `_imageOrigin` for null where they mean `origin`.  The model has what the code
  does.
- `RR_ops` with INVARIANT `NoOverlap`: the easy merge of `union` (333-350) may
  make rectangles overlap, against the class's comment (9-11).  Nothing is lost
  by it.  With `ContainsIsExact`: `contains` counts areas and is wrong then, or
  with rectangles of negative size, but nothing calls it.

## Proofs

`RecordBufferProofs` proves, for all values of the constants that satisfy the
assumptions `SizesArePositive`, `CallsAreInRange` and `InitialFilesAreFiles`:

- `Invariant`: `Spec => []IInv`;
- `TypeCorrect`, `NothingIsLost`, `EofIsHighWater`: the type invariant,
  `PromisedBytesExist` and `EofCoversWrites`;
- `Coherence`: without read errors, `CleanWindowIsOnDisk`.

Why a strengthening is needed: that a clean window agrees with the disk
(`CleanWindowIsOnDisk`) survives a move of the window only because every
promised byte of the new window is in the file (`PromisedBytesExist`), which
survives a skipped pre-read only because no record past the one written is
promised (`EofCoversWrites`), which holds after an open for input only because
a closed file is a whole number of records as far as anything in it is promised
(`ModesAgree`).  `IInv` is the conjunction of these.  With read errors, a stale
buffer may pass for valid, so that conjunct is dropped, and the rest is proved
without it.

Its first part has the arithmetic: the window holds the record it was
moved for, pieces lie in the buffer and in the record, window and piece
together cover the record, and locations are never negative.  Then comes
one lemma per action, and under it one step per conjunct.

Its second part proves, from the same assumptions:

- `RecordsExist`: `Spec => []PromisedRecordsExist`, a record promised in part
  exists in full;
- `BufferImplementsRecords`: without read errors, and if `UserPixel <= FilePixel`,
  `Spec => Implements`.

The refinement mapping takes `content` to be, at each promised address, the
byte in the window if the window has it and the byte on disk else (`View`).
`IInv` is not enough for it: a read that finds the end of the file returns
END_OF_FILE, which the file of records allows only for a record of which
nothing is promised, and the buffer finds the end of the file by the record's
last byte, not by the byte promised.  `PromisedRecordsExist` closes the gap,
and is inductive with `IInv`.  Then each call is shown to be one step of the
file of records: flushing changes no `View` (`FlushView`), moving the window
keeps those outside and loads the others (`MissView`), a write changes the
asked-for bytes and no others (`FinishRefines`), and what a read moves to the
caller from one window or two is the record (`FoundContent`).  `UserPixel <=
FilePixel` is what makes a record that the code takes for whole a whole one
(`WholeIsWhole`); the invariants do not need it.

`ImageFileProofs` proves from `LayoutIsSane`, for any sizes and failures:

- `Invariant`: the file stays a sequence of records and the label in memory a
  sequence of items, through reading in, cutting and placing;
- `ModifiedStaysInMemory`: if `v2_close_file` never fails after a rewrite, a
  label to be written back is in memory;
- `LinesStay`: `OnlyTheNamedLineChanges`.

The argument of `LinesStay` is that a record of the label is placed at most at
`front` or behind the image (`AfterWritingFacts`), that the truncation at the
close never cuts below the image (`TruncatedFacts`, and `eol_size` is a
natural number), and that a write puts only the record it names (`PutFacts`).
`ModifiedIsInMemory` needs the part in front of the image never to be empty,
which is because a record has room for two items at least (`MainFacts`).  The
lemma that a line's number is in the image is what showed that the cases of
`Named` have to be taken in the code's order: written as a CASE they overlap.

Its last parts prove, from the same assumption:

- `TypeCorrect`: if failures are `Harmless`, `TypeOK`: a text fits its record, and
  a label, in memory or in its two places in the file, has at most `MaxText` items
  and takes no more records than those need;
- `ImageKeepsItsPromise`: if failures are `Harmless`, `Spec => Implements`: label
  and image are what callers made of them, wherever the label's parts are.

`Harmless` allows failures of a line's write, of the rewriting of a label that
fits, and of the last flush, and no write to a file whose label an update has
not read: exactly what `IF_file` runs with.  Each of the others makes a label
lose items (see Findings and Weaknesses), so that the theorem is false for it.
The invariant needed is `RInv`: as long as nothing has been modified, the label
in memory is what the file holds (`Clean`), the flag and the size of the EOL
label are those in the file, and a modified label is in memory.  `LabelNow`
says what the mapping's label is in such a state.  The rest is that writing a
text and reading it back gives the text: a text cut into records of `PerRec`
items and put together again is the text (`RoundTrip`), a text cut at `Room` is
its two parts with the EOL label's own first item between them
(`PartsOfLabel`, `WrittenLabel`), and neither part is written to the image's
records (`RewrittenPlaces`).

`TypeCorrect` rests on the same invariant.  The label that is read in is not
measured by any call, so that its length is known only because it is the label
that was written: `SInv` bounds the label of the mapping, `Label`, and the bound on
`LABELS` follows (`LabelLength`).  The size that the EOL label starts with is
read from wherever it is looked for, a line or a hole included, so that `SInv`
bounds it for every record of the file (`SmallNotes`), and the close, which cuts
the label at `Room`, writes none that is larger (`EolRecsSmall`).

`LabelItemsProofs` proves from `ConstantsAreSane`, for labels of any length, any
number of parts, keys, elements, and every failure:

- `Invariance`: `IInv`, which is `TypeOK`, `LabelFits`, and that a closed file has no
  label in memory;
- `TypeCorrect`: what is in the file and in memory is always a label (`IsLabel`);
- `NothingOverflows`: `LabelFits`, the label and its terminator never reach the end of
  the memory allocated for it;
- `PositionIsKept`: `PositionStaysGood`;
- `DeletionsGoOn`: `DeletingGoesOn`;
- `NamesLeadBack`: `ListedInstancesAreFound`.

A place in the text is the length of what is in front of it, so that every
lemma on an edit says what it does to lengths: a cut takes the item's characters
out and leaves its blanks to the item before, an insertion moves what is behind
by the item's size.  `LengthOf` is a recursive function; that it adds up over
concatenation, the one fact about it that is needed, is proved by taking the
least length for which it fails.  `TypeCorrect` needs that an insertion keeps
properties in front of the history: `FindFirstHistItem` is behind every property,
and the end of a part is in front of the next header (`FindPart`'s lemmas).
`NamesLeadBack` compares two ways of counting: `zlhinfo` numbers a name by one
more than the last before it with the same name, `find_entry` by how many headers
of that name there are up to it.  The first is a recursion over the list of names;
its value is given outright, shown to satisfy the recursion, and shown to be the
only function that does, again by the least place where two would differ.

`LabelItemsRefinement` proves, from the same assumption:

- `TextIsATable`: if `Failures` holds at most `argument` and no label in a file has
  two items with one key in a part, `Spec => Implements`, for labels of any length.

Both conditions are needed.  The other failures lose the item that was to be
replaced (see Weaknesses).  Of two items with one key in a part the calls see
the first, so that deleting it would show the second; the code makes no such
label, which is part of the invariant (`TInv`: the labels in the file and in
memory are `Distinct`, only an update is `modified`, and what is not modified is
the table that the file holds).  The argument has three parts.  First, what an
edit at one place of the text does to headers: `Embeds(s, t, f)` says that the
places of `s` are those of `t`, in their order and with their keys, but for
headers and items that are new, and that a new header is behind those of its
kind and takes no item from another (`Aside`).  Then every item has the part in
`t` that it had in `s` (`EmbedsParts`, `EmbedsEntries`), because the instance of a
header counts those before it and the map is increasing (`CountMoved`); so that
inserting, rewriting and cutting an item are one entry of the table that comes,
changes and goes (`Grows`, `Changes`, `Shrinks`), and a new property or task
changes none (`PropertyTable`, `TaskTable`).  This needs that a property goes in
front of the history and that the end of a part is where the next header is.
Second, that a call finds what the table has: the place that `FindPart` gives
is the part that `Meant` names (`PartLocated`), with the last task for a part
without a name, whose instance the text counts from the front and the table from
the list of tasks (`TaskCount`), and the first key there is the item or there is
none (`CallSees`).  Third, the elements: what is cut, kept and added by the code's
offsets from zero is what the table says counting from one (`LeftIs`,
`ElementsAre`, `GotIs`).  An addition that replaces is two edits of the text and
one of the table (`WithItemTwice`); where the item was deleted with its last
element, the second edit inserts it again.

`RectRegionProofs` proves, for any plane, any set of rectangles in it, and lists
of any length:

- `Invariance`: `IInv`, that a list holds rectangles of the plane, and that what the
  loop has passed does not meet the rectangle that is being subtracted;
- `StaysInPlane`: `TypeOK`;
- `ClipsAreSafe`: `ClipIsSafe`;
- `LoopGoesOn`: `PassesLeaveLess`;
- `OthersDoNotOverlap`: `OnlyMergesOverlap`;
- `RegionIsASetOfPoints`: `Spec => Implements`.

Points are compared by their coordinates (`Has`), so that a cut is a statement of
linear arithmetic about one point: it is in the rectangle if and only if it is in
exactly one of the pieces (`CutIsWell`), and no edge goes through a piece that
did not go through the rectangle, one fewer at least.  That what the loop has
passed does not meet the rectangle (`Cleared`) is why the points left at the end
are the right ones (`RegionIsASetOfPoints`) and why the rectangle that a union
then adds overlaps nothing (`OthersDoNotOverlap`).

`TileDisplayProofs` proves from `GridIsSane`, for any plane, grid, number of
images, views and repaint requests:

- `Invariant`, `TypeCorrect`;
- `NothingIsForgotten`: in a setup that is `Sound` (images are replaced only
  when no answer waits, and tiles do not fail on a double-buffered display),
  `NothingForgotten`;
- `EveryQueuedTileIsAnswered`: `QueuedIsAnswered`, in every setup;
- `NothingElseIsPainted`: with `quiet`, `OnlyTheDisplayedImage`.

`IInv` adds to the type: what Swing is to paint is visible (`WindowInv`); what
waits in the event queue is of the image that the TilePainters are for
(`ImageInv`); damage that shows is in Swing's hands or of a queued tile
(`DamageIsQueued`), without which a paint that reaches only its clip could take
a tile off the damage list that it painted in part; and a queued tile's own
request is live and of the current rendering, or its helper waits
(`RequestInv`), since an answer of an older rendering leaves `_queued` set.

`UnitsProofs` proves, from the assumption `UnitTable` and provided that calls
fail only in the ways of `Clean` (the failures of `U_life`; the others are the
weaknesses listed above), for any number of slots, bufstates, descriptors and
names:

- `Ownership`: `Spec => []IInv`;
- `TypeCorrect`, `FreedOnce`, `OwnFiles`, `NoLeaks`, `PrimarySelected`: the
  invariants of `U_life`;
- `ClosedByCaller`: `ClosedOnlyByItsCaller`.

`Sound(s, O)` says that the units of `O` own a bufstate and a descriptor each,
distinct, and that nothing else owns any.  `IInv` is `Sound` with `O` the open
units.  The set is a parameter because a call passes through states in which
one unit owns a file and is not yet marked as open: `v2_open_disk_input` takes
`Sound(s, O)` to `Sound(s', O \cup {u})` (`OpenDiskFacts`), the primary input
made from that unit leaves `O` alone (`CheckPrimaryFacts`), and either the unit
is marked (`MarkedOpen`) or closed down (`ClosedAgain`).  `PrimaryIsKnown` is
the strengthening for the primary input: only its own unit has the name kept
for it, so the slot that `v2_activate_a_unit` finds for it is free or its own,
and dropping it frees a null pointer (`DropFacts`).  `Keeps` carries the action
property through the nested calls.  There is one lemma per routine and one per
action.

`PixelTransferProofs` proves from `BytesAreSmall` and `JobsAreCalls`, for pixels of
any size up to `MaxPixel` on either side, any prefix, any number of pixels and
samples, and any cut of the record that a window can make:

- `TransferTypes`: `TypeOK`, of every call;
- `NothingIsImpossible`: of a `Sound` call, `NoInternalError`;
- `OverlapIsCopied`: of a `Sound` call, `CopiesTheOverlap`.

`Sound` is a hypothesis and not an assumption: the other calls may be made, and
nothing is said of them but their types.  Each of its conjuncts names calls
that do go wrong, and whose counterexample TLC shows with the job sets of
`MCPixelTransfer`.

The code divides lengths by the size of a pixel on each side, and both
quotients and remainders depend on where prefix, overlap and pixels begin.
The proof gives them names once: `Side(pos, len, nbb, d, a, b, x, y)` says that a
buffer of `d`-byte pixels holds the pixels from `a` to `b`, the last `x` bytes of the pixel before them
and the first `y` bytes of the one after, and every buffer of a call, in the
file's pixels or the caller's, has such numbers.  Then a call of
`v2_movetrans` is arithmetic on numbers of pixels: where it begins in either
buffer, how many whole pixels it translates, and whether the partial pixel
that an earlier call has left is completed (`ReadStep`, `WriteStep` for calls
that translate; `CopiedReadStep`, `CopiedWriteStep`, byte by byte, for calls
that do not).  The invariant is `SoundSoFar`: when the parts of the record in
a set `D` have been moved, the destinations hold the overlap with these parts
and nothing else, and `partpix` holds as much of a cut pixel as its part of the
record has of it (`Reached`).  A call comes from part to part only in the four
ways of `Parts`, which is where the order of the two windows is needed
(`Stage`); which end of the cut pixel `partpix` holds depends on it (`Seen`).
When all the parts
have been moved, what has arrived is what was asked for (`AllHasArrived`).
`TransferTypes` has an invariant of its own (`OnItsWay`), since calls that are not
`Sound` fulfil no part of `SoundSoFar`.

Only model-checked: `TileDisplay!Settles`, a liveness property, which the
prover does not do, and what the runs that expect a violation refute.
`CutsAreExact` evaluates the cut of every pair of rectangles of a small plane;
`CutIsWell` is the same statement for every pair.

## Plan

Done, in order of importance: `BufferWindow`, `RecordFile`, `RecordBuffer` with
invariant and refinement proved; `Units` with its invariants proved;
`MoveTrans` and `PixelTransfer` with types and the delivery of what is asked for proved;
`ImageFile` and `LabelledImage` with invariant and refinement proved;
`TileDisplay` with its invariant proved; `RectRegion` and `Region` with invariant
and refinement proved; `LabelItems` and `LabelTable` with the invariants,
action properties and refinement proved.

Left:

1. `RecordBuffer` composed with `PixelTransfer`; binary headers;
2. the history that an output file inherits from the primary input, and NL and
   NB, which a `zladd` to the system label changes in the value table;
3. overlays and insets of the display, and rendering changes from other threads
   than the event thread's;
4. MotifApp's command lists (done, undone, redone);
5. the compression codecs (BASIC) as pure functions, and the device layer's
   status codes (`errno` against SUCCESS).

## Not modelled

Everything marked `not_modelled` in `PROJECT.json`, with its reason: text
handling (names, Fortran strings, messages), devices that the Linux build
leaves out (tapes, compression, VMS), front ends, applications and other
languages' implementations of the file format.  These are most of the
repository: TAE, the build tools and the display drivers are third-party or
older systems with changes, the application programs are packed in `.com` files
and are clients of the library, and much of the Java code is readers, writers
and viewers.  The share of the repository that the models cover is therefore
small; what they cover is the code whose state other code depends on.

Within the modelled parts:

- binary headers (NLB), and a caller who changes NL or LBLSIZE with `zladd`
  while the file is open;
- label records torn by a write that fails halfway through one;
- sequential devices, the PDS offset, files without labels in `ImageFile`;
- the values of the unit table other than those named, and array files;
- failures of memory allocation;
- in the display: overlays, insets, the area outside the image, resizing and
  panning, and changes of the image from an application's own thread, which the
  code does not lock against.
