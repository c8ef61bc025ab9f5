# A TLA+ model of the Utero kernel

This directory is a verification development of the kernel in `src/`: TLA+
modules that model its parts, TLC configurations that check them on small
instances, and TLAPS proofs of the properties that matter most for every
value of the constants. `PROJECT.json` is its index: components, runs, the
source lines behind each definition, findings, hazards, theorems.

## The system

Utero is a small 64-bit kernel loaded by GRUB (multiboot 2). `asm/boot.asm`
and `asm/long_mode_init.asm` check the processor, build first page tables,
switch to long mode and call `kmain(magic, addr)` (through
`src/kernel/main.cr`). `kmain` then runs once, top to bottom:

1. `screen_init`, `screen_clear`;
2. `multiboot_is_valid`, or `PANIC`; `read_multiboot_info` finds where the
   kernel and the multiboot structure lie;
3. `isr_init` programs both PICs and fills the IDT, `irq_init` executes `sti`.
   From here on interrupts interleave with everything below;
4. `timer_init(50)`, then `check_interrupts`, which waits for a tick;
5. `serial_init`, `keyboard_init`;
6. `mmu_init`: `mmap_init` of the frame allocator, and `paging_init` (empty);
7. `cmos_read_rtc`, a message, and `hlt` for ever. What happens afterwards
   happens in interrupt handlers: the tick is counted, keys are echoed.

There is one CPU and one stack. Concurrency comes from interrupts and
exceptions on that stack, and from the devices: the PIC and the PIT, the
keyboard controller, the real-time clock.

| part | source | modules |
|---|---|---|
| frame allocator | `src/mmu/mmap.c` | `MemoryMap`, `MmapRead`, `FrameAllocator`; `mmap_deallocate_frame` in `Paging` |
| interrupts, timer, keyboard, panic, order of `kmain` | `asm/interrupt.asm`, `src/core/{isr,idt,timer,check}.c`, `src/drivers/keyboard.c`, `src/kernel/{kmain,panic}.c` | `InterruptStub`, `Interrupts` |
| real-time clock | `src/core/cmos.c` | `Cmos`, `ClockRead`, `Rtc`, `RtcConvert` |
| multiboot information | `src/core/boot.c`, `src/mmu/mmu.c` | `Multiboot`, `BootMemory` |
| screen, shared with the keyboard handler | `src/drivers/{screen,keyboard}.c`, `src/libk/mem.c` | `Screen`, `Console` |
| formatted output and serial port | `src/libk/{printfk,itoa,ulltoa,strrev,ctype}.c`, `src/drivers/serial.c` | `Itoa`, `Serial`, `Printfk` |
| paging | `src/mmu/paging.c`, `set_up_page_tables` of `asm/boot.asm` | `Paging` |
| rest of the entry in assembly, port access, Crystal runtime | `asm/boot.asm`, ..., `src/core/ports.c` | not modelled, see below |

Paths in this file are relative to the repository; `src/mmu/mmap.c` there is
`src/src/mmu/mmap.c` in `PROJECT.json`.

## The frame allocator

**`MemoryMap`** defines what `mmap_read` computes. The map that GRUB hands over
is a sequence of entries; the page-sized *chunks* of the entries are numbered
from 0 in the order of the two nested loops. The operators keep what the code
does at the edges: the last page of an entry is not a chunk
(`i + PAGE_SIZE < entry_end`), only type 2 counts as reserved, both ends of a
chunk count as inside it, and `MMAP_GET_NUM` returns `cur_num + 1`. As a result
the number found for the address of chunk k is k when chunk k-1 ends there, and
k+1 when chunk k is the first of its run (`FirstOfRun`).

**`MmapRead`** has the loops themselves, one test or iteration per step.

**`FrameAllocator`** is the state machine of `mmap_init` and
`mmap_allocate_frame`. One step is one activation of the recursive function:

| action | code |
|---|---|
| `mmap_init` | `mmap_init`, with any map and any reserved areas of the constants |
| `AllocateCall` | a caller calls `mmap_allocate_frame` |
| `AllocateAgain` | the frame is reserved: `next_free_frame++` and the recursive call |
| `AllocateReturn` | `mmap_read(current_addr, MMAP_GET_NUM)`, `next_free_frame = num + 1`, return |

`memory_area` holds the chunks of the map rather than the entries,
`allocated`, `twice` and `exhausted` are history variables. `frame_t` has
`FRAME_T` values (2^32 in the code) and conversions to it are `% FRAME_T`.

| run | what it asks | answer |
|---|---|---|
| `frames` | Is every usable frame handed out (`NothingSkipped`), once (`NoDoubleAllocation`), after a test of its address (`GrantedWasChecked`)? Does the recursion end (`AllocateReturns`)? | yes, until the map is used up and below 4 GiB |
| `mmap_read` | Do the loops compute the operator (`ReturnsMmapRead`)? Can the moving `request` be overtaken (`RequestAhead`)? Do they end (`Returns`)? | yes; no; yes |

When no chunk is left the address found is 0, which is looked up as frame 1:
the allocator starts again and returns frames in use, although `mmap.c:105` says
"return the newly allocated frame num". `exhausted` records this, and the
properties speak of the time before. The number returned counts chunks,
across holes of the map, and is not the one that `frame_starting_address`
(`mmap.c:114`) turns back into the address.

*Bounds.* Pages have 4 bytes and `frame_t` has 64 values. The maps have three
entries with lengths just above, at and below multiples of the page size, with
and without a hole, with a reserved or an ACPI (type 3) entry in the middle;
kernel and multiboot areas lie before, inside and after each other and begin on
and inside pages. Every comparison of the code is met with equality and on both
sides. There are at most 9 chunks, and behaviours allocate beyond the end.
`mmap_read` runs over all maps of up to two entries with lengths
0, 1, 4, 5, 9, both modes and an invalid one; requests reach past every chunk.
Maps whose entries overlap or descend are outside `MapsAssumption`: GRUB sorts
and merges the map. No reserved bound is 0 (`ReservedAssumption`): the
kernel is linked at 1 MiB, GRUB gives every loaded section an address, and the
multiboot structure is never at address 0.

*Fairness.* Weak fairness of the activations of a call that was made: nothing
blocks in `mmap.c`.

*Proved* (`FrameAllocator_proofs`), for every page size, width, set of maps and
set of areas: `TypeCorrect`; and, when all addresses fit `frame_t` (`LowMemory`),
`NeverTwice`, `OnlyChecked`, `NoneLost`. None of the three is inductive alone.
`IInv` adds that the map ascends, and `Granted`: until exhaustion all frames
handed out lie below `next_free_frame`. The central lemma, `FoundChunk`, says
what one activation finds: with k the least usable chunk at or above the
pointer, `current_addr` is k's address and the number returned is k, or k+1
when k is `FirstOfRun`; in both cases it is at or above the pointer, therefore
new. `NoneLost` needs that everything between pointer and k is reserved.
The hypothesis is needed: `mmap.c:98` passes the 64-bit address as a 32-bit
`frame_t`, and from 4 GiB on the truncated address finds another frame, which
is then handed out a second time.

`Readers_proofs` proves, for every map of entries, page size, request and mode,
`NeverPastRequest` (`RequestAhead`) and `LoopsCompute` (`ReturnsMmapRead`: the nested
loops return what the operator says, so that the other modules may use the
operator). The operator speaks of the list of all chunks, which is joined from
the entries by a recursive function; `UpToUnfolds` gives its equation for each
entry (there is a function that satisfies it for the first n entries, or a least n
without one), and `MapLayout` says which chunk of the list is chunk j of entry e.
The invariant `LInv` ties the pointers to that list: at the head of the outer loop
`cur_num` is the number of chunks of the entries passed, in the inner loop `i` is
the address of chunk `cur_num`. `Searching` adds that no chunk passed was the
answer, and that `request`, once `cur_num` has reached it, moves along with it.

## The multiboot structure

**`Multiboot`** has the walks of `boot.c` over the tags GRUB left in memory, a
tag or an ELF section per step: `Invalid` or `BeginWalk`
(`multiboot_is_valid`), `OtherTag`, `ElfTag`, `ElfSection`, `EndOfSections`,
`EndOfTags` (`read_multiboot_info`), `FindNext`, `FindEnd`
(`find_multiboot_tag`). The pointer `tag` is an address, and what lies there
is given by GRUB's layout (`LaidOut`, external), not by the walk. Tags that
are only reported through `DEBUG` share one action, since nothing is computed
from them.

**`BootMemory`** composes it with `FrameAllocator` as `kmain` does: `mmu_init`
passes the areas and the map on, and allocation goes by them. When there is no
memory map the pointer is 0 and the map is whatever lies there
(`LowMemoryMaps`): `kmain` does not test for it.

| run | what it asks | answer |
|---|---|---|
| `boot_memory` | Do the walks stay on tags (`WalkOnTags`)? Are the areas the least ones around all loaded sections, and up to the end of the structure (`AreasExact`)? Is the first map found, or 0 (`FindsFirst`)? Does a frame handed out ever hold a byte of the kernel (`KernelNotGranted`)? Do the walks end (`AllocatorReady`)? | yes, yes, yes, no, yes |

*Bounds.* Pages of 16 bytes; up to five tags with sizes on both sides of a
multiple of 8, maps before and after the sections, two maps, or none; a null
section, empty sections, overlapping and unordered ones; the structure in low
memory or after the kernel; a wrong magic number and an unaligned structure.
Usable memory begins at 0 and at the address where the kernel is linked, as on
a PC. `KernelNotGranted` needs this: the allocator tests only the first address
of a frame, and for the first chunk of a run it hands out the second; both are
harmless because the kernel begins exactly where its run begins.

*Fairness.* Weak fairness of the walks and of `mmu_init`: nothing blocks there.

*Proved* (`BootMemory_proofs`), for any number of tags and sections, of any size
and in any order, that GRUB lays out as `InfosAssumption` says: `WalksStayOnTags`,
`ReservedAreasExact`, `FindsTheMap`. The inductive invariant `WInv` names the tag n
the pointer is at; the area found so far `Fits` exactly the sections `Met` before
section i of tag n, and in the second walk no tag before n is a memory map. The
step from one tag to the next rests on two lemmas: the masking of the code is
GRUB's rounding (`AlignedIsRoundUp`), and addresses grow with the number of the
tag (`Increasing`, by a least counterexample), so that there is one tag at an
address.

`KernelKept` proves `KernelNotGranted` for every such structure whose memory fits
`frame_t` (`LowMemory`, as above). Its assumptions are what the property depends on:
maps ascend (`MapAssumption`), and no chunk lies across the first byte of the
kernel, nor does a run of memory have only its first chunk below it
(`KernelAssumption`, from `. = 1M` of `linker.ld` and the memory of a PC). The invariant
`AInv` says that the allocator works with the map and the areas that the walks
found, and that each frame handed out is `Tested`: its chunk, or the one before it
at the beginning of a run, was held against the areas. `FoundChunk` is taken over
from `FrameAllocator_proofs` by instantiation.

## Interrupts

**`InterruptStub`** gives the two stubs of `asm/interrupt.asm` as operators: the
order of the pushes and of the pops, the load of the vector into `rdi`, and
where `get_stack` looks for the saved `RIP`.

**`Interrupts`** composes `kmain`, the stubs, the handlers and the devices.
`contexts` is what is stacked on the one CPU: `kmain` at the bottom, above it
the interrupts and exceptions being served, the last one running. A context
records where it is (`at`), the flag and registers of what it interrupted and
the words it pushed.

| action | code |
|---|---|
| `MultibootValid`, `MultibootInvalid`, `isr_init`, `irq_init`, `TimerRegister`, `TimerMode`, `TimerDivisor`, `CheckStart`, `CheckDone`, `keyboard_init` | `kmain` and the functions it calls, one step where another activity can see the difference |
| `StubEntry` | `cli`, `mov rdi, id`, the pushes and the call |
| `irq_handler`, then `timer_callback`, `keyboard_callback` or `NoCallback` | `irq_handler`: the end of interrupt first, then the registered handler |
| `IsrHandled`, `kernel_panic` | `isr_handler`: the registered handler, or `PANIC` |
| `StubReturn` | the pops, `sti`, `iretq` |
| `PitFires`, `KeyPressed`, `OtherDevice`, `Deliver`, `Exception` | devices, PIC and CPU (external) |

Between the gate and the `cli` of the stub there is a step of its own, because
the gates are trap gates: a higher line can interrupt there. The body of a
handler after its `cli` is one step, since nothing modelled here can observe its
middle. Lines of the second PIC have no gates and are not raised; a line of the
first one without gate becomes a general protection fault, as on the hardware.

| run | what it asks | answer |
|---|---|---|
| `interrupts` | The end of interrupt is sent before the handler runs. Can a handler be entered twice (`IrqNesting`)? Can the nonspecific EOI of one interrupt acknowledge another's line, or a line stay in service (`EoiMatches`)? Can `kmain` be left with interrupts off (`KmainInterruptible`)? Does a return ever meet an error code (`NoErrorCodeAtReturn`), does `get_stack` find `RIP` (`GetStackFindsRip`), are registers but `rdi` restored (`ReturnRestores`)? | no, no, no, no, yes, yes |
| `interrupts_liveness` | Does `check_interrupts` see a tick and boot complete (`BootCompletes`)? Is a keyboard interrupt served (`KeyServed`)? | yes, when all lines raised have gates |
| `interrupts_rdi` | "save registers", "restore registers" (`RegistersPreserved`)? | no: `rdi` is loaded with the vector before it is pushed |
| `interrupts_keyboard` | "keyboard routine enabled": is a key that waits in the controller read (`KeyboardEnabled`)? | no: a key pressed before `keyboard_init` is acknowledged unread (before `isr_init`, its request is cleared by ICW1 and not even acknowledged), and the full controller raises no further interrupt |

*Bounds.* Three lines: the timer, the keyboard, and a third that has a gate (4,
liveness) or none (5, safety). Nesting is bounded by the priorities, so that
three lines reach every shape of the stack. Exceptions: a breakpoint, which
returns, and a page fault, which has an error code and panics; two per
behaviour for safety, one for liveness. The counter has two values
(`TickMod`): it wraps on every second tick, and `check_interrupts` then sees an
equal value again.

*Fairness.* `WF(Serve)`: the CPU goes on executing a handler. `SF(PitFires)`: the
timer is periodic. `SF(Deliver(line))`: the PIC offers a pending line again and
again until it is taken. `SF(KmainStep)`: interrupts come at 50 Hz and `kmain`
runs between them. `SlowDevices` says that no device raises a line while a
handler runs: a handler takes microseconds, the timer's period is 20 ms.
Without it a device that fires during every handler starves `kmain`.

*Proved* (`Interrupts_proofs`), for every set of lines and exceptions and any number
of interrupts: `TypeCorrect`, `HandlersDoNotNest`, `EachAcknowledgesItsOwn`,
`KmainStaysInterruptible`, `StubsRestore`, `IretqFindsItsFrame`,
`ReportsTheRightFrame`. The conjuncts of `IInv` beyond the
properties: `Shape` (`kmain` is the bottom of the stack), `Masked` (the flag is
set, or will be restored set, only over a stack of `kmain` and stubs before
their `cli`), `InService` and `NothingElse` (the two halves of `EoiMatches`, the
second only while no exception is on its way to `PANIC`), `KmainFlag`, `Saved`
(what each context has pushed, and that a context interrupted before its `cli`
gets its registers back unchanged but for `rdi`) and `Handled` (only breakpoints
return); the last two theorems add `ErrorWords`, which says for each context on the
stack that it holds an error code exactly when its vector is one that pushes it. `Masked` carries the argument: a delivery needs the flag, hence all
interrupts below are still at their entry, hence in service, hence of a lower
priority; so the top IRQ has the least line, and `Min(inservice)` is its own.

## The real-time clock

**`ClockRead`** states the promise: the call returns what all registers showed at
one instant. **`Rtc`** is the loop of `cmos_read_rtc`, one port read per step,
against a clock that raises its update flag, changes its registers one at a
time in any order, and drops the flag, at any moment. **`RtcConvert`** is the
rest of the function: BCD to binary, 12 to 24 hours, the full year. **`Cmos`** has what
the two parts share, the fields of `cmos_rtc_t` and the variables of the call.

| run | what it asks | answer |
|---|---|---|
| `rtc` | Are the values returned those of one instant (`Consistent`)? Does the loop end (`CallReturns`)? Does it implement `ClockRead` (`ReadsAtomically`, refinement with `now <- time`)? | yes |
| `rtc_convert` | Does each format convert back to the time shown (`ConvertsBack`)? | yes, except the hours after noon and midnight of a 12 hour clock |

"Convert 12 hour clock to 24 hour clock" (`cmos.c:71`) fails for two hours: 12 PM
becomes (12 + 12) % 24 = 0 and 12 AM, without the PM bit, stays 12.
`ConvertsBack` excepts them.

*Bounds.* All eight registers; two updates per behaviour, a minute of three
seconds that ends within them, so that every register changes. Two updates are
enough to fall into both rounds that are compared. The conversion is checked
for all 24 hours, both bits of status register B, and values at the ends and at
the carries of the other fields.

*Assumptions about the device.* A register read during an update shows its old
or its new value. A register that has changed does not show its old value
again within `Period` updates (60 for seconds), and two rounds of reads take
less than `Period` updates: without this the comparison of two rounds proves
nothing, since a round that is delayed by exactly a minute looks the same.

*Fairness.* The call runs on and an update that has begun ends; updates are not
required to happen.

*Proved* (`Readers_proofs`, beside `mmap_read`), for every clock and every number of
updates that satisfy these assumptions: `TypeCorrect`, `NeverTorn`, `ImplementsAtomicRead`. `RtcInv` says
that all registers agree while the flag is clear (`Clock`), that what the current
round has read lies between its start and now (`Current`), and what the previous
round has read between its start and the start of the current one (`Previous`).
At the end both rounds have the same value in each register, so an instant
i <= start and an instant j >= start show the same value less than `Period` apart,
and therefore `start` shows it too. The module also proves
`ConversionExact` (`ConvertsBack`) for every set of times with two digits in each
field: what each step leaves in a field is followed from the format that was shown
(`BcdRoundTrip`, `HoursRoundTrip`, `YearFits`).

## The screen and the keyboard handler

**`Screen`** has the functions of `screen.c` as operators on the cells of the video
memory and the position. It keeps what the code does at the edges: the test for
scrolling follows the write and is off by one cell, scrolling moves rows 1 to 23
up and clears row 24 without copying it, and counts the row down by one.

**`Console`** lets `keyboard_callback` print in the middle of a `screen_write` of
`kmain`. Before `keyboard_init` a call is one step (`EarlyWrite`); after it, one
access to the shared variables, to a row of the screen or to a port. `k.x` and `k.y`
are the column and the row that `kmain` holds in registers, or `None`. An increment is
a read and a later write of what was read, plus or minus one, so that what a key
changed in between is lost:

| action | code |
|---|---|
| `BeginNewline`, `BeginChar` | the first access of a call: `screen_col = 0`, or the first variable that is read |
| `ReadColumn`, `ReadRow` | a read of one variable, at any point where the value can still be used |
| `StoreCell`, `ScrollRow`, `ScrollEnd`, `WriteRowUp` | the body of `screen_write_at`, with the arguments that were read one after the other; `screen_row--` |
| `WriteColumn`, `TestColumn` | `screen_col++` and the test of the value written, or of one read again |
| `ZeroColumn`, `WriteRowDown` | `screen_col = 0`, `screen_row++` |
| `CallMoveCursor`, `MoveCursor` | `move_cursor`, one port write per step |
| `keyboard_callback` | the handler to its end, as `IrqNesting` of `Interrupts` allows |

The variables are not volatile. The model leaves open what the compiler may choose:
which argument is read first, whether the row is read before the column is set to 0,
whether the test and the argument of `move_cursor` use what is held or read again. It
assumes two things: a value is not kept across the store through `framebuffer` (a
`char *`, which may alias the variables, and they have external linkage) or across a
call of another file, and writes keep the order of the source.

| run | what it asks | answer |
|---|---|---|
| `console` | Wherever keys interrupt: does the row stay near the screen (`RowBounded`)? Is the column inside the line again after each call (`ColumnInside`)? Is the cursor right unless the last call was interrupted (`CursorRight`)? How much text can a key destroy (`LossBounded`)? | yes; yes; yes; at most one report for each key that interrupts a call, until the screen scrolls |

*Bounds.* A screen of 3 by 2 cells above the extra row, tab stops of 2, bytes of 6
values, so that the cursor needs both; two characters before and three after
`keyboard_init`, three keys, with scancodes of one and of two digits and one
above `SCANCODE_MAX`: two million states. Reports of two or three characters wrap. The text of `kmain`
has lines of two characters or more and no two empty lines in a row
(`LineEnds`): with more empty lines the row would run away, since newlines are
never tested. No text of the kernel has a tab; the model has them before
`keyboard_init`, except with no stop left on the line (the column would go past the
width, where the test for equality misses it), and with three characters between
a tab and the next newline (a character that a tab puts into the last column
wraps the line and takes the row no further up).

*Proved* (`Console_proofs`), for every size of the screen that holds a report in a
line and whose positions fit two bytes, any number of keys, at every point, and of
characters in lines that `LineEnds` allows: `RowStaysBounded`, `ColumnStaysInside`,
`CursorFollows`, `LossStaysBounded`. That the row is bounded is not inductive; `Fits` gives, for each length of the current line, how far
down the row may be (four rows past the last only after an empty line or a tab),
and `RowInv` says for every point inside `screen_write` that what remains of it leads
back to `Fits`, both from the row that is shared and from the one that `kmain` holds, which
differ once a key has come: whichever of the two the step counts from, the row stays
within its bounds. `ColInv` relates the column to the copy that `kmain` read before a key
came, `CursorInv` the controller's registers to the port writes done so far. A key is
a whole `screen_print` of its report: `PrintUnfolds` turns the fold into its steps, and
`ReportPrinted` says that a report leaves column 0, ends no further down than one row
past the last or than where it began, and never takes a row at the end above it.

`LossBounded` counts the filled cells of the whole screen; what is inductive is a
count of those before a position. `LossInv` says for each point inside `screen_write`
before which cell as many are filled as characters were printed, up to one report
(`PREFIX + 2` characters) for each key that interrupted the call: before the position,
past it while the column is still to be counted, or before the next line. Where
`kmain` works with a column or a cell that it read before a key came, `LossInv` has
two cases: the position is still the one it read, or a key has moved it down to a
new line and is charged for what `kmain` will overwrite or skip. Where `kmain` holds a
row that it may still count from, as many cells are filled before the line after that
one: writing the row back can only undo what the key is charged for. For the key itself
`ReportMarks` says that a report fills the cells from its beginning on and leaves all
cells before it, and `ReportPushes` that the position after it is beyond what it
filled (a report that begins with the column at the width ends where it began, and
nothing is lost). `RowsAssumption` says that the video memory has a row below the screen.

`LossBounded` says nothing once the screen has scrolled (`put` is then -1): scrolling
itself drops text, as the next paragraph says, and which characters are gone because
of a key can no longer be told from the cells.

*What the code does beside the properties.* `screen_clear` leaves row 24, which is
shown, as it was. When the screen scrolls, the row just written is cleared
instead of moved, so that the first two characters of a line are lost.

## Formatted output and the serial port

**`Itoa`** has `itoa`, `ulltoa` and `strrev` with the width of `int` and of `uint64_t`
as constants; **`Serial`** has `serial_init` and the registers of the UART (external);
**`Printfk`** is `vprintfk`, one turn of the loop or one character per step. A call is
given by a list of items, from which follow both the text of the format, which
the code scans, and what should be printed (`Shows`, from a definition of
numerals by powers of the base).

| run | what it asks | answer |
|---|---|---|
| `printfk` | Is what should be printed printed (`Rendered`)? Does every character reach the device, once and in order (`NoneLost`)? Do the numbers fit `s_val` (`BufferFits`)? Is the UART left with the divisor asked for (`SpeedSet`)? Does every print end (`PrintReturns`)? | yes, with the exceptions below |

*Bounds.* `int` has 8 bits and `uint64_t` 16: all values of `int` and `unsigned` with
several pads, long values about each change of length and sign, on the screen
and, for a part of them, through the UART; formats with several items, an
unknown conversion, and a `%` or `%5` at the end. `s_val` has 5 bytes, which is to
16 bits what 20 is to 64: the longest decimal number just fails to fit.

*Fairness.* The kernel runs and the UART sends the byte it was given. Without the
second, `serial_write` polls for ever.

*Proved* (`Printfk_proofs`), for every width of the integers and every size of `s_val`
that fits it, every list of items and every device: `PrintsTheFormat` (`Rendered`),
`NothingIsLost` (`NoneLost`), `NumbersFit` (`BufferFits`), `SpeedStaysSet` (`SpeedSet`).
The argument has three layers.

1. *Numerals.* `DigitsSpell`: the loop of `itoa` yields, least significant first,
   the digits that the definition by powers gives, and no more of them; then
   `NumeralIs` reverses them, and `itoaIs` and `ulltoaIs` follow the sign and the
   conversions between `int` and `uint64_t`. Where a conversion is not exact they still
   bound the length, which is what `NumbersFit` needs.
2. *Items.* `PrintedIs`: what one turn prints for an item is what it should show.
   `Layout` and `Place` say where the text and the argument of item n lie in the
   joined format and argument list, so that the scan, which sees characters only,
   finds exactly that item there (`ConversionIs`, `ItemTurn`).
3. *The loop.* `IInv` says that between two turns `vprintfk` is `Aligned`: it stands in
   front of some item n, the argument of item n is the next one, and what was said is
   what the items before n show. A lone `%` at the end of a format is the exception
   (`LoneTurn`): the NUL, or a digit and the NUL, is taken for the conversion and the
   scan ends one past it. The rest of `IInv` is the state of the UART.

*Assumptions.* `CallsAssumption`: arguments have the type of their conversion, a digit
is no conversion, and a `%` without conversion is at the end of the format.
`BufferAssumption` relates `s_val` to the widths as 20 bytes are to 32 and 64 bits.
`WidthAssumption` and `PowerAssumption` are arithmetic (2^w = 2 * 2^(w-1), base^d = base
* base^(d-1)): the provers do not interpret `^`. TLC evaluates all of them.
`strrev` and `Concat` are written out rather than taken from `SequencesExt`, because
the provers are given every definition of a module that is extended.

*Exceptions* (`Exact`, and the premise of `BufferFits`): the least `int`, `%u` and `%x` of
2^31 or more, and `%L` of a value whose low half is negative as an `int` print
something else; `%L` of a number with 20 digits does not fit `s_val`. `serial.h:18`
says that the port expects "first the highest 8 bits on the data port"; the high
byte belongs to the next port, and only divisors below 256 are set right. The
kernel uses 1.

## Paging

**`Paging`** starts with the tables of `set_up_page_tables` and has the operations of
`paging.c` as operators on memory (`next_table_address`, `next_table_create`,
`map_page_to_frame`, `translate`, ...) and as actions (`map`, `identity_map`, and `unmap`
in its steps `UnmapEntry` or `UnmapAbsent`, `UnmapDeallocate`, `UnmapFlush`). The code
reaches tables through the last entry of the P4 table; so does the model, with
the processor's walk (`Down`, external) behind every access. `Access` is the
processor's: it keeps the translation of a page a handler uses, at any moment.

| run | what it asks | answer |
|---|---|---|
| `paging` | Do the code's walk and the processor's agree (`WalksAgree`)? Does a translation outlive `unmap` (`TlbFresh`)? Does mapping or unmapping one page change another (`OthersUntouched`)? Is a page that was mapped accessible with its flags (`MapTakesEffect`)? | yes, no, no, yes |

*Bounds.* Tables of 4 entries, pages of 11 bytes, a `frame_t` of 192 values; a page of
the first huge pages, and three that share a P2 or only the P4 table, mapped and
unmapped in any order until six frames are used; then the run stops, so deadlock is
not checked. `identity_map` wraps for two of them (20 becomes 2, and 87 becomes 17,
which shares its P1 table with 16), as it does in the code from frame 2^20 on.

*Assumptions.* Memory that was never used is zero: `next_table_create` does not clear
the table it makes. `unmap` is called for pages with a P1 table: it does not test
its pointers. The memory map is one area from address 0, pages fit `frame_t`.
`SizeAssumption`: the last entry of the P4 table lies beyond the pages that a `frame_t`
numbers (2^32 of 2^36 pages). `TablesAssumption`: the first tables lie in different frames
from 8 to `PAGE_SIZE - 1`; the kernel is linked at 1 MiB, frame 256. It matters twice:
`unmap` clears the first eight pages, and tables made later are put into frames that
are multiples of `PAGE_SIZE`. `PagingAssumption`: there is memory at frame `n * PAGE_SIZE`
for every frame `n` that is handed out, since the code puts the table there (`n` times
16 MiB). With 128 MiB this holds for seven frames; the eighth one that becomes a table
would lie outside, and nothing is claimed from there on. `PowerAssumption` is
arithmetic, as for `Printfk`.

*Proved*, for all tables, pages and flags that satisfy these assumptions, as many
frames as `PagingAssumption` has memory for, and any order of `map`, `identity_map`, the steps of `unmap` and accesses:
`RecursiveWalk` (`WalksAgree`), `NoStaleTranslation` (`TlbFresh`), `MappingTakesEffect`
(`MapTakesEffect`), `OthersKept` (`OthersUntouched`). The difficulty is that the tables are
changed through translations that they give themselves. The invariant (`IInv`) is that
the tables are a `Tree`: each table can be given a level, every present entry leads to a
table of the next level (`Descends`), no table is entered twice (`Unshared`), the entries
of `set_up_page_tables` are in place (`Rooted`), huge pages are those of the first P2 table
only and P1 tables point to frame 0 (`Plain`), and the frames `unmap` clears or the
allocator has not handed out hold no table, the latter being empty (`Spare`). `Kept`
adds that a translation in the buffer is that of the tables, unless its page was
mapped again or is the one `unmap` is at.

1. `PagingTree_proofs` is about one tree. `PageIndex` and `PageShift` are the arithmetic:
   a page is its four indices, and `next_table_address` moves them up by one level.
   `Pointers` shows that such a pointer, through the last entry of the P4 table, leads
   to the table that it is meant for, and `TreeWalks` that both walks agree. `Viewed`
   reduces what a page is mapped to to the entries on its way, and `Leaf` says that
   an entry of a P1 table belongs to one page (`OnePath`, from `Unshared`).
2. `Paging_proofs` is about change. `GrowTree` and `GrowView`: a table that
   `next_table_create` adds keeps the tree and, being empty, adds no page.
   `CreateAll`, `MapStep`, `UnmapStep` and `DeallocateStep` follow the operations, and one
   lemma for each action shows that it keeps `IInv` and every other page.

*What the code does beside the properties.* The flags overwrite the entry
(`paging.c:67`), so that every page mapped leads to frame 0. `next_table_create` passes
a byte address where `set_addr_mask` expects a frame number. `map` does not flush
a page that was mapped before (`remapped`). `translate` takes the offset from the
page number. `mmap_deallocate_frame` clears eight pages; they are always the
lowest ones, because of the first point. `map` of a page in the first GiB writes
its entry at address 0, as there is no P1 table there.

## What is proved and what is only checked

Proved for all values of the constants: the type invariants of the allocator,
the interrupts and the clock, and every safety property, action property and
refinement of the passing runs, under the assumptions and hypotheses named above.

Recursive functions (the chunks of a map, the digits of a number, the text of a
format, a printed string) are reasoned about in one way throughout: a lemma
`...Unfolds` shows, by a least counterexample among the natural numbers (`WFMin`), that
the function satisfies its equation, and what it computes follows by a second least
counterexample, since a theorem with an operator as its parameter cannot be used.

Only model-checked are the liveness properties (`AllocateReturns`, `Returns`,
`AllocatorReady`, `BootCompletes`, `KeyServed`, `CallReturns`, `PrintReturns`): liveness under
fairness is out of reach of the prover. The two runs that end in a violation show
a behaviour, which needs no proof.

Each property has a mutant in `PROJECT.json`: a `Fault...` operator beside the
definition it replaces, which makes TLC report the property violated.

## Disagreements between the code and its comments

Two have a run of their own (`interrupts_rdi`, `interrupts_keyboard`). The others are
described in the sections above, with the properties that except them, or here:

- `src/core/isr.c:71` says "mask all IRQs" and writes 0, which unmasks all.
- `src/core/idt.c:16` gives `gate_type` 1, with three ones above it: type 15, a
  trap gate, which does not clear the interrupt flag.
- `src/mmu/mmap.c:98` truncates an address to 32 bits (`LowMemory`, above).
- `src/mmu/mmap.c:86,89` test only the first address of a frame, so that a reserved
  area that begins inside a page is not noticed.

## What is not modelled

- Entry in assembly, but for the page tables: checks that end in `hlt`, and mode
  switches of the CPU.
- `serial_received` and `serial_read`: nothing calls them.
- `kmain` as one composition of all parts: each part is composed with what it
  interacts with (interrupts, console, boot memory); the others share no state.
- Port access: single `in` and `out` instructions; the devices behind the ports
  are modelled where they are used.
- Colours, and the wording of what is printed.
- The vendored Crystal distribution and the C library; `main.cr` calls `kmain`.

## How to run

    tlc -workers 2 -config MCFrameAllocator.cfg MCFrameAllocator
    tlapm FrameAllocator_proofs.tla

and likewise for the other rows of `runs` and `theorems` in `PROJECT.json`.
