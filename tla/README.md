# TopiOS: a verification project

TLA+ models of the TopiOS kernel, their model-checking runs (TLC) and machine-checked
proofs (TLAPS). File and line numbers refer to the repository.

TopiOS is two small kernels that share no code. The x86-64 one drives a VGA text
screen, a serial port and a PS/2 keyboard through interrupts; the RISC-V one drives a UART
and a virtio keyboard by polling. Each does one thing: print a greeting and echo the keys
that are typed. Most of its difficulty is in how the keyboard's bytes travel from the
device to the loop of `kernel_main`, and that is modelled first; the rest is the ground
this stands on: the boot code, the interrupt stubs, the screen and the serial ports. (README.MD:39-41 says
that the x86 build fails because `boot.asm` refers to symbols that are no longer defined;
at this commit `boot.asm:152-158` defines them, and the C++ modelled here is taken as it
stands.)

## 1. Inventory

### x86-64

| Component | State | Operations | Interacts with |
|---|---|---|---|
| PS/2 keyboard driver, `kernel/keyboard.cpp` | scancode ring `buf[64]`, `head`, `tail`; `shift` | `irq_handler`, `push_scancode`, `poll`, `read`, `process_scancode`, `init` | called by the dispatcher (producer) and by `kernel_main` (consumer); ports 0x60 and 0x64 |
| Interrupt path: `idt.cpp`, `interrupt.cpp`, `pic.cpp`, `boot/isr_stubs.asm` | `idt_table`, `handlers[256]`, the 8259's masks, requests and in-service bits, the CPU's IF and IDTR | `idt::init`, `register_handler`, `interrupt_dispatcher`, `remap`, `mask_all`, `unmask`, `send_eoi` | set up by `kernel_main`; then calls the keyboard driver |
| `kernel_main`, `kernel/kernel.cpp` | where it is | bring-up, then read and echo for ever | all of the others |
| VGA console, `kernel/vga.cpp` | cursor, colour, 80x25 cells | `put_char`, `put_string`, `put_line`, `clear_screen`, `set_color` | only `kernel_main` |
| Serial port, `kernel/serial.cpp` | the 16550's registers and transmitter | `init`, `put_char`, `put_string` | `kernel_main`, and the dispatcher for an unhandled vector |
| Boot, `boot/x86_64/boot.asm`, `linker.ld` | page tables, stack | long-mode check, page tables, paging, then `kernel_main` with interrupts off | |

### RISC-V

| Component | State | Operations | Interacts with |
|---|---|---|---|
| virtio keyboard, `kernel/riscv/virtio.cpp` | descriptor table, available and used rings, 128 event buffers, `last_used`, `shift`, `base` | `keyboard_init`, `queue_setup`, `keyboard_read` | the device, through shared memory and MMIO; `kernel_main` |
| `kernel_main`, `kernel/riscv/kernel_riscv.cpp` | none | init, then poll and echo for ever | virtio, UART |
| UART, `kernel/riscv/uart.cpp` | the 16550's registers and transmitter | `init`, `put_char`, `put_string`, `get_char` (no caller) | `kernel_main`, virtio |
| Boot, `boot/riscv64/boot.S`, `linker-riscv64.ld` | `.bss`, stack | zero `.bss`, call `kernel_main` | |

### What is hard, and what makes each part correct

* **The scancode ring** is shared with no lock between an interrupt handler and the code
  it interrupts. It must remain a FIFO queue wherever IRQ1 falls; only a full ring may
  lose a byte; decoding late must give what decoding at once would have given; the reader
  must not starve.
* **The interrupt path** is brought up piece by piece while the timer is already
  ticking, and is driven by *edges*: one that is lost is lost for ever. No interrupt may
  be entered before it is ready, every EOI must end the interrupt it is meant for, and a
  byte in the controller must always have something that announces it.
* **The virtio rings** are shared with a device that runs concurrently. Every buffer
  must have exactly one owner, through initialisation, its failures and the wrap of the
  16-bit indices; a call must return however fast the device is; the device must not be
  left without buffers.
* **The stubs** must build the frame that C++ declares from what the CPU pushed, for
  every vector, and give the interrupted program back all that is its own: its place,
  its registers, and what it keeps on its stack.
* **The serial port** of the x86 kernel has two users, one of which interrupts the other
  between its look at the transmitter and its write.
* **The boot code** runs loops over memory whose bounds are somebody else's (a linker
  script, the CPU's table format), with nothing to catch an off-by-one.
* **The console** has no concurrency, only boundaries: the last column, the last row.

`PROJECT.json` lists each hazard at its line, with the properties that would catch it.

## 2. Modules

```
  Scancode                     layout and shift, shared by both drivers
   |-- KeyboardRing            PS/2 driver            -- implements BoundedFifo, TypedLine
   |     |-- KernelX86         bring-up, 8259, dispatcher, handler access by access;
   |     |                     INSTANCEs KeyboardRing -- and implements it
   |     '-- Typist            EXTENDS KeyboardRing by the keyboard and the hands on it
   '-- VirtioKeyboard          virtio driver + device -- implements BoundedFifo
         '-- VirtioRelaxed     the same driver on a hart that reorders its accesses
  VgaConsole                   console + its caller   -- implements TextStrip
  IsrFrame                     CPU, stubs and dispatcher on the interrupted stack
  SerialPort                   both 16550 drivers, and the x86 port's two users
  BootX86, BootRiscv           the two boot codes
   '-- BringUp                 EXTENDS BootX86, BootRiscv and SerialPort: a board from its
                               boot code to the kernel that prints
```

Each specification that is run has an `MC...` module with the sets TLC uses (`KeyboardRing`
is run as part of `Typist`, the boot codes and `SerialPort` as parts of `BringUp`). The
theorems are in eight modules: `KeyboardRing`, `Typist`, `KernelX86`, `IsrFrame`,
`VirtioKeyboard`, `VirtioRelaxed` and `VgaConsole` have a `..._proofs` module each, and
`BringUp_proofs` holds those about `BringUp` and its parts.
Operators named `X_Something` under a comment "Mutant:" are plausible bugs in `X`; no
specification uses them. They document what each property is able to catch.

**BoundedFifo**, **TypedLine** and **TextStrip** are the abstract specifications.
BoundedFifo is an input queue: values come out once each, in order, and are refused only
when no place is free. TypedLine is a keyboard that understands each byte the moment it
is accepted and queues its *meaning*; it has its own statement of the layout. TextStrip is
a screen that is one cyclic strip of cells.

### Scancode
`process_scancode` and `scancode_to_char`. A character is the pair (key code,
shifted?) that selects it in the layout table. The table gives different characters to different
pairs, but for the four keys that ignore shift, so nothing that a property can tell
apart is lost. `keycode_to_char` in `virtio.cpp` is the same table (Linux key codes
below 128 are set-1 scancodes), and `VirtioKeyboard` uses the same operator.

### KeyboardRing (`keyboard.cpp`)
`port` is the controller's output buffer; the other variables have the names of
the code's. `IrqHandler` is one step because it runs behind an interrupt gate on the
only CPU (0x8E in `idt.cpp`); that this is sound is checked, and proved, as `HandlerIsAtomic` of
KernelX86. The main program may be interrupted anywhere, so `poll()` is `Test` (112), `Fetch`
(113), `Advance` (114) and `Decode` (115-116), one for each access to what is shared.
`tail = (tail + 1) % BUF_SIZE` is one step because only the main program writes `tail`,
and `shift` is decoded in one step because the handler never touches it. The return to
`kernel_main` is `Again`. Locals are reset when they go out of scope, here and in KernelX86's
handler: a dead value would only multiply the states.

### KernelX86 (`kernel.cpp`, `idt.cpp`, `pic.cpp`, `interrupt.cpp`, `isr_stubs.asm`)
`boot` walks through `kernel_main` up to `sti` in the order of the code: gates, default
handlers, ICW1, ICW2-4, `mask_all`, `lidt`, `keyboard::init`, `register_handler(33)`,
`unmask(1)`, `sti`. Then `MainLoop` is the main program of KeyboardRing, and
`Interrupt`, `Dispatch`, `ReadStatus`, `ReadData`, `PushTest`, `PushStore`, `PushMove`,
`SendEoi`, `Iretq` are an interrupt from the stub to `iretq`, one access each, while the
keyboard and the timer go on. The vectors are those of the lines that can be
requested: timer, keyboard, spurious. Nothing else raises a request: the disk and the
serial port are never told to interrupt.

External, from the way the code uses it and the part's data sheet: the 8259 latches a
request on a rising edge whether it is masked or not; ICW1 clears its registers and the
edge detectors; a non-specific EOI ends the request of highest priority in service; a
request that vanishes is answered with IRQ 7 and enters nothing in service. The i8042
holds one byte and keeps IRQ1 high until port 0x60 is read.

### VirtioKeyboard (`virtio.cpp`, `kernel_riscv.cpp`)
`pc` walks through `keyboard_init()`, in which the probe may find nothing and the queue
may be too small (`kernel_main` then polls all the same), and through `keyboard_read()`,
one step for each access to shared memory: `PollUsed` (250), `ReadElem` (255-256),
`ReadEvent` (257-265), `Recycle` (268), `Publish` (269-270), `Notify` (273). The device
takes a buffer, fills it together with its used element, and then moves the used index
on; it drops an event for which it has no buffer. The index modulus `IdxMod` (2^16 in the
code) and `QueueSize` (128) are parameters; the only assumption is that the one divides
the other, which is what the code relies on when it takes a free-running
index `% QUEUE_SIZE`. Accesses happen in program order.

### VirtioRelaxed (`virtio.cpp` on a weak memory model)
The same variables and device; `keyboard_read()` is written again with its stores going
into the hart's store buffer (`stores`) and its two loads of element and event possibly
done early (`early`), before the load of `used->idx` that guards them. A fence waits for
the store buffer to drain and forgets early loads: `Poll` is behind the one of line 249,
`FenceAndNotify` behind the one of line 272. What a hart never reorders is kept: accesses
to one place, a load that depends on another's value, a store behind the loads that decide
it. The constant `Harts` is the set of harts to look at, each by what it keeps in order
(`keeps.loads`, `keeps.stores`: both is total store order). Two simplifications: only the first
element of a batch and its event are ever loaded early, where RVWMO would let those of later rounds
of the loop go first as well; and `keyboard_init()` keeps program order, although its fences
(`fence rw,rw`) order accesses to memory and not those to the device's registers.

### Typist (`keyboard.cpp` under a pair of hands)
Keys go down and up; the keyboard sends the make and break bytes of scancode set 1, with the
fake shift that an extended key (here print screen, the only one that fakes a shift
*press*) sends; KeyboardRing does the rest. Each byte under way carries a mark: was a shift
press in force when it was sent (`ShiftSent`), because a shift key was down or because one had been
faked? The marks are history, the driver never reads
them. `lost` remembers that the last shift byte found the ring full.

### IsrFrame (`isr_stubs.asm`, `interrupt.hpp`, and a function that is interrupted)
Memory is the stack, in words; each word is a name ("rbp", "local 2", "error 14"), so that
a word in the wrong place is seen. The main program calls one of two functions, shaped as
the compiler builds them: `poll`, which calls others and moves RSP below its locals, and
`put_char`, a leaf, which keeps its locals in the red zone below RSP. An interrupt or
exception may come between any two steps: `Enter` (the CPU), `Stub`, `Save`, `Dispatcher`,
`Restore`, `Iretq`. The dispatcher leaves junk in the registers and in the stack that the
ABI gives it.

### SerialPort (`serial.cpp`, `uart.cpp`, and `interrupt.cpp:15-20`)
The 16550 is its line control register, divisor latch, FIFO and the number of
characters it has to send. `InitStep` performs `init`'s writes one at a time; `Wait` and
`Write` are `put_char`. On x86-64, from `Sti` on, an `Interrupt` without handler may come
anywhere and print its message of 27 characters with `HandlerWait` and `HandlerWrite`, while the main program prints a character whenever it
likes, as the loop of `kernel_main` does when it echoes (kernel.cpp:45).

### BootRiscv (`boot.S`, `linker-riscv64.ld`) and BootX86 (`boot.asm`)
One action per instruction of the `.bss` loop, on the memory that the linker script lays
out: `.bss`, up to 15 bytes of padding, the stack. The size of `.bss` is any number, as
`__bss_end` is not aligned. BootX86 has an action per block of boot.asm and per pass of its two loops,
on the three page tables as one array of 32-bit words, zeroed or not before; `LinksTo` and
`MapsTo` are the CPU's reading of an entry.

### BringUp (both boot codes, then SerialPort)
A board starts in its boot code; `RunKernel` and `TakeInterrupt` are SerialPort's steps, possible
once the boot code has called `kernel_main` (`Started`). `Send` goes on throughout, as the
firmware may have left a character in the transmitter. `Halt` is the loop in which `boot.asm:111-113`
ends on a CPU without long mode.

### VgaConsole (`vga.cpp`, and what `kernel.cpp` does with it)
`Script` is the list of console calls of `kernel_main` before its loop; then every
character that `read()` may return is echoed, a backspace as its three calls. `PutNext`
is one `put_char`.

## 3. Runs

| Run | Bounds | Question, and answer |
|---|---|---|
| `keyboard_ring` | Typist: ring of 2; shift, print screen and a letter going up and down in any order, 4 bytes under way | `TypeOK`, `TypistTypeOK`; `FetchedIsHead`: no number of interrupts inside `poll()` disturbs the byte being read; `DecodesAsTyped`: the driver implements TypedLine, so decoding late is decoding early; `ShiftLetsGo`: the flag is off when all keys are up, and `UpperNeedsShiftSent`: no upper case unless a shift press, real *or faked*, was in force, both but for a shift byte that a full ring has dropped. All hold. |
| `kernel_x86` | ring of 3; a letter, shift press and release | `TypeOK`, `EntersReadyHandler`, `EoiEndsItsOwn`, `ByteIsAnnounced`; `HandlerIsAtomic`: the handler, access by access, implements KeyboardRing; `RingIsFifo`: the ring, as that handler leaves it, implements BoundedFifo with BUF_SIZE - 1 places; `DecodesAsTyped` of that handler; `KeyIsRead`: every byte is taken out of the controller, and `QueuedKeyIsRead`: `read()` returns once a character is queued, however many bytes, timer ticks and spurious interrupts come. All hold when no byte comes before the 8259 is initialised. |
| `kernel_x86_early_key` | ring of 2, early bytes allowed | `KeyIsRead` is **violated**: finding 2. |
| `virtio_keyboard` | 3 buffers, indices modulo 6; letter, shift press and release, end of report | `TypeOK`; `OneOwnerEach`, `NotifiesLiveDevice`, `RingIsFifo` (implements BoundedFifo with QUEUE_SIZE places); `ReadReturns`, `BuffersComeBack`. All hold. |
| `virtio_keyboard_echo` | 2 buffers, two letters | `EchoesTypedKeys` is **violated**: finding 1. |
| `virtio_relaxed` | 3 buffers, indices modulo 6, two letters; a hart that reorders stores, and one that reorders loads as well | `RelaxedTypeOK`. On the first hart `OneOwnerInFlight`: each buffer still has one owner, counting the stores on their way, and `InOrderDecodesAnnounced`: the event decoded is the one announced; the missing fence between `avail->ring` and `avail->idx` does no harm, *because* this device returns buffers in the order it took them, so that the number stored is the one already there. On both, `CirculationIsClosed`: however wrong the buffers' numbers may get, their count stays `QUEUE_SIZE`. All hold. |
| `virtio_loads` | 2 buffers, a hart that reorders loads | `DecodesAnnounced` is **violated**: finding 5. |
| `isr_frame` | 46 vectors, both functions, every point of interruption | `FrameIsTrue`, `GoesOnWhereItWas`. Hold. |
| `isr_red_zone` | keyboard and spurious interrupt | `LocalsSurvive` is **violated**: finding 4. |
| `bring_up` | page tables of 128 entries, zeroed or full before; `.bss` of 0 to 48 bytes; FIFO of 16 and message of 27 characters, as in the code | `PagingIsIdentity`; `BssIsZero`, `StackUntouched`; `KernelMainStarts`: the boot loops end; `TypeOK` (of the serial port); `NothingLost`: no character is written to a full transmitter, although the look at it may be stale (what saves it is the FIFO that `init` enables); `LineIsSet`; `MessageEnds`; `PutCharReturns`. All hold. |
| `vga_console` | 3 x 2 cells, a banner longer than a row | `TypeOK`, `ScreenIsStrip`: the console implements TextStrip. Hold. |
| `vga_backspace` | the same | `BackspaceMovesBack` is **violated**: finding 3. |

*Why the bounds are enough.* The scancode ring comes in two sizes. `keyboard_ring` has the
smallest that works: with one place it fills, drops a byte and wraps at every turn, so that the
bytes of four under way (print screen sends four at once) meet it in each of its states with
the reader at each of its steps. In a queue of one place nothing can change its order, so it is
`kernel_x86`, with two places and a byte in hand, that checks `RingIsFifo`: there a byte can be
pushed between any two steps of `poll()`, be lost or overtaken, and a shift byte and a letter are
pending at once. For larger rings, longer queues and more bytes under way there
are the theorems of section 5: every safety property of every passing run is proved
for all values of the constants, so that the bounds matter to the liveness properties only.
Three virtio buffers
allow one to be read, one filled and one to wait at the same time; indices modulo 6 wrap after
two turns of the ring and, as in the code, are a multiple of its size but larger than it.
On 3 x 2 cells every position is at or next to an edge. `.bss` of 0 to 48 bytes ends at every
remainder by 8 and by 16. Page tables of 128 entries run through the same loops as those of 512,
which the theorem covers. The stack of `isr_frame` is deep enough for a function and one
frame; interrupts do not nest (every gate is an interrupt gate). No run has a state constraint:
apart from `UnderWay`, the bytes between hands and decoder, the models are finite as they stand, as
the ports hold one value and the rings are bounded by the code itself.

### Findings

1. `virtio.cpp:263`: `keyboard_read()` returns one character for a whole batch of events,
   and each press overwrites the one before; two presses between two polls (a slow
   `uart::put_char` is enough) lose the first. README.MD:24-25 says the kernel "echoes keys
   typed on the `virtio-keyboard` device".
2. `pic.cpp:32` with `keyboard.cpp:107-109`: a byte that arrives before `pic::remap` has its
   edge cleared by ICW1, and nothing empties port 0x60; as IRQ1 stays high no further
   edge comes, and the keyboard is deaf for good. docs/Drivers.md:15: "Keyboard es un driver
   que permite leer y escribir caracteres a través del teclado." (An emulator that raises
   an edge again on the next key does not show this; the 8259 as specified does.)
3. `kernel.cpp:38-41` with `vga.cpp:19-41`: a backspace is echoed as BS, space, BS, but
   `put_char` knows no BS and draws three glyphs, moving forwards. docs/Drivers.md:6 has
   the driver "manejar el cursor".
4. `isr_stubs.asm:27` with `CMakeLists.txt:55-61`: the kernel is compiled without
   `-mno-red-zone`, and the frame is pushed right below RSP, where a leaf function such as
   `vga::put_char` has its locals: a key that comes while a character is drawn replaces
   `video` and `offset` by words of the frame. isr_stubs.asm:26 and 44 promise to "save
   registers, call C++, restore" under the System V ABI, whose red zone this is.
5. `virtio.cpp:250`: no fence between the load of `used->idx` and the loads it guards. A hart
   that loads early decodes a buffer which the device has not filled yet, and the key is lost
   (README.MD:24-25: "echoes keys typed on the `virtio-keyboard` device"). A hart with total
   store order (QEMU on an x86 host) does not show it.

## 4. Fairness

Only the CPU is fair, and a transmitter that has been given something to send.

* `KernelX86!FairSpec`: the CPU executes whatever comes next (boot code, loop or handler), and
  it takes an interrupt that stays unmasked. The loop of `kernel_main` has strong fairness:
  an interrupt suspends it, but the timer's ticks and a keyboard's bytes are milliseconds
  apart and the handler, which has no loop but `put_char`'s, is done long before the next; a
  loop that is runnable again and again does get a step in. Nothing is assumed of keyboard, timer
  or spurious interrupts, which may stop or go on for ever.
* `VirtioKeyboard!FairSpec`: weak fairness of the driver alone, as that kernel runs nothing else;
  device and user owe nothing.
* `FairBringUp`: weak fairness of the CPU, which runs boot code and kernel alike, and of the
  transmitter. Interrupts owe nothing and may come for ever, which is why `PutCharReturns`
  excepts that case.

KeyboardRing and Typist, VirtioRelaxed, IsrFrame and VgaConsole are run for safety only.

## 5. Proofs

Every safety property of a passing run is a theorem, for all values of the constants, under
the `ASSUME`s of the modules and nothing else (but for `NoLostWakeup`, which says so): the
scancode ring has more than one place and carries bytes; the hands use the four keys that are
modelled; the virtio queue's size is positive and divides the larger index modulus, and its
events are pairs of a key code and a value; the screen is not empty and the banner is one line;
the serial FIFO has two places or more and a message is not empty; the page tables have 2 to 512
entries and are aligned; vectors are those of the 48 gates with a stub. The others give a constant
its type.

Each theorem is of a module's own specification. Those of the boot codes and of the serial port
are about `BootX86Spec`, `BootRiscvSpec` and SerialPort's `Spec`, and `BoardsComeUp` carries
them over to `BringUpSpec`, whose behaviours are behaviours of all three.

* **KeyboardRing_proofs.** `TypeCorrect`. `FetchSafe`: `FetchedIsHead` is inductive
  together with the types; the point of the proof is that `PushScancode` moves `head` only
  to a place other than `tail` and writes only a place other than `tail` when the
  ring is not empty. `RingImplementsFifo`: `Contents` of the ring from `tail` to `head` is
  the abstract queue. `ContentsShape` and `FullCount` say how long it is, `PushAppends`
  that a push appends to it, `AdvanceTakes` that moving `tail` takes its head; `FifoStep`
  then maps each action to one of BoundedFifo's or to a stutter, and it is `FetchSafe`
  that makes `Advance` map to `Take`: the byte fetched earlier is still the oldest.
  `DecodingMayWait` (`DecodesAsTyped`) maps the pending bytes to the characters they will
  become. What the flag will be before the i-th of them, `ShiftBefore`, is no recursion along
  the bytes but a closed form: some earlier byte, or the flag itself, sets it and none
  after that clears it. `ShiftAppend` says that one more byte at the end changes none of what
  was decided, `ShiftTail` that the flag left by the first byte stands for it; so `Accept` appends
  a meaning and `Decode` takes one off.
* **Typist_proofs.** The flag is followed further, along the bytes that the driver has not
  taken yet, and computed twice: from nothing, and from what the driver has taken, which a
  dropped shift byte may have falsified (`lost`). `SentInv`: where the bytes on their way leave the
  flag set, a key that sent a shift press is still down. `StruckInv`: a letter on its way that will
  find it set carries the mark. `TakenInv`: so does one in the ring. The two computations agree
  as soon as a shift byte is taken, which is why `lost` may be reset then (`FlagPasses`).
  A release sends its shift byte last, so that behind it the flag is off whatever was before
  (`FlagEnds`); this is why the flag does not stick although fake shifts count as real ones.
  (They do turn letters upper case while they last: section 6.)
  `ShiftIsLetGo`, `UpperFollowsShiftSent` and `TypistTypes` follow from the three.
* **KernelX86_proofs.** The inductive invariant `IInv` adds to `EoiEndsItsOwn` what each
  boot step has established for the next (`BootInv`) and which vector is handled where
  (`HandlerInv`): the order in `kernel_main` makes the keyboard's request the only one
  that is ever unmasked, so at most one interrupt is in service when an EOI is sent.
  `InterruptsFindHandler` and `EoiBalanced` follow. `NoLostWakeup` assumes
  `EarlyKeys = FALSE` and adds `AnnounceInv`: request and byte come and go together. That
  the assumption is needed is finding 2. `TypeCorrect` rests on the same invariant: that the
  handler pushes a byte follows from its look at the status port. `HandlerRunsAtomically`
  (`HandlerIsAtomic`) maps the handler to KeyboardRing's `IrqHandler` at the moment it reads the
  byte; `PushInv` says that what it found then (the next place, room in the ring, the byte in its
  slot) holds until it is done, because the main program does not run. `KernelRingIsFifo` and
  `KernelDecodesAsTyped` then cost nothing new: they cite `RingImplementsFifo` and `DecodingMayWait`
  of the instance of KeyboardRing.
* **IsrFrame_proofs.** `Base` is the interrupted RSP, aligned as the CPU aligns it. `StageInv`
  says of each stage of the handling what lies below it: the CPU's five words, the error code
  (its own or the stub's dummy), the vector, and the registers saved so far, in the order of the
  pushes. `Offsets` compares that order with the fields of `InterruptFrame`. `FramesAreTrue`
  and `GoesOn` hold for every vector and wherever the program is interrupted.
* **VirtioKeyboard_proofs.** `TypeCorrect`: all buffer numbers and indices stay in
  range, so that no access leaves `evbuf` or a ring. `NoNullNotify`: with a device that
  never came up the used index never moves, so `keyboard_read()` returns before the
  notification. The rest needs `RingInv`, whose core is `CircleInv`: a buffer always goes
  back into the place it came from, so the available ring stays the identity for ever, and
  what is lent, filled and waiting are three stretches of one circle of `QUEUE_SIZE` places,
  one behind the other, however often the 16-bit indices wrap (`Ahead` and `Place` with `ModUnique`
  and `Turns` do that arithmetic; it is here that the queue size must divide the modulus).
  `BuffersAreOwned` (`OneOwnerEach`): the stretches are disjoint and cover the circle.
  `SplitRingImplementsFifo` (`RingIsFifo`): the stretch that waits is the queue.
* **VirtioRelaxed_proofs.** What holds of every hart is about indices only (`OrderInv`): the
  stores to `avail->idx` that wait only move it on, so that memory's index is never past
  the hart's own nor behind what the device has taken; `CirculationCloses` follows, even
  where the loads are reordered and the numbers in the ring are wrong. For a hart that keeps
  its loads, `SeesKeyboard` says that the rings *as the hart itself sees them* (`OwnIdx`, `OwnRing`:
  its waiting stores done) satisfy VirtioKeyboard's `IInv`, an INSTANCE of the other proof, and
  that each waiting store to `avail->ring` writes what is already there (`InItsPlace`). A step of
  the hart is then a step of VirtioKeyboard; so is one of the device, but for an event that it loses
  because memory's index lags (`EventLost`). `OwnersInFlight` and `OrderedLoadsDecode` carry the
  conclusions over.
* **VgaConsole_proofs.** `CursorOnScreen`: no `put_char` writes outside video memory.
  `ConsoleImplementsStrip`: `PutCharMoves` and `NextRowStart` reduce the cursor's two
  coordinates to one position modulo the size of the screen.
* **BringUp_proofs.** *Serial port:* `CharactersKept` needs an invariant that says how stale the look
  may be: when the main program is about to write and no handler runs, the transmitter is
  empty or holds at most one character of a finished message (`RoomLeft`), so a FIFO of two
  places is enough; `LineSet` follows `init`'s writes one by one. *BootRiscv:* both theorems from one
  invariant: all below `t0` is zero, `t0` is a multiple of 8, and the last doubleword ends
  at or below the aligned bottom of the stack. *BootX86:* `MemInv` says what each loop has done
  so far; `IdentityMapped` then reads the entries' bits as the CPU does (`LinkBits`,
  `PageBits`). *BringUp:* `BoardsComeUp`, all of these together on a whole board, since every step of
  BringUp is a step or a stutter of each part.

*Only model-checked:* all liveness (`QueuedKeyIsRead`, `KeyIsRead`, `ReadReturns`,
`BuffersComeBack`, `MessageEnds`, `PutCharReturns`, `KernelMainStarts`; TLAPS does
not handle fairness), and the five violations, which are counterexamples.

## 6. Not modelled

* What follows a CPU exception. `default_handler` (idt.cpp:39) does nothing, so that a fault is
  taken again for ever; but no instruction of the kernel faults unless another error comes
  first, and what a wrong program does next is not a property of this one. IsrFrame does
  take every exception through its stub and back. Its vectors leave out 21 and 29, whose stubs
  push a dummy error code although the CPU would push one of its own: the features they
  belong to (control-flow enforcement, encrypted guests) are never turned on.
* `pic::mask`, `uart::get_char`, `print_dec` in `virtio.cpp`: they have no callers.
* The encoding of a gate in `idt_table` and of the 8259's command words: KernelX86 models what they
  do. The message on a CPU without long mode: it is printed and the CPU halts, which is
  BootX86's `halt` and BringUp's `Halt`.
* The weak memory of the hart during `keyboard_init()`, between memory and the device's registers,
  and the loads of later rounds of `keyboard_read()`'s loop done ahead of their turn.
* Sections other than `.bss`. That base, `last_used` and `shift` are in it is so in the objects under
  `build-riscv64/`; the flags do not say so (no `-msmall-data-limit=0`), and `linker-riscv64.ld`
  does not collect the `.sbss` into which a compiler may put small variables.
* Wording of messages, the layout tables' characters, the layout of the legacy ring in memory
  (`AVALI_OFF`, `ring_mem`): constants that no step of the program tests.
* `linker.ld` and the build files; and, under `build-x86/` and `build-riscv64/`, what CMake has left of a
  build. Four of those files (`CMakeCCompilerId.c` and `CMakeCXXCompilerId.cpp`, twice each) are
  C programs of 3,798 lines in all that CMake generates to find out which compiler it has.
  They are no part of the kernel and have no behaviour: a row of conditional
  compilation around one string. The kernel's own C++ is about 930 lines, of which the models
  cover all but the declarations, the port primitives and the functions without callers.

Two remarks on shift. A letter struck while print screen is held comes back in upper case although no
shift key is down: `keyboard.cpp:91` throws the prefix 0xE0 away, and what is left of the fake shift E0 2A
is the left shift key's byte. `UpperNeedsShiftSent` counts it as a press, and says that it lasts no longer than the
key is held. And that a letter is *lower* case only without a shift key does not hold, as the
one flag of `keyboard.cpp:96` goes off with the first of two shift keys that is released,
and with a fake release. No document says otherwise of either, so they are not listed as findings.

## 7. Plan

Done: (1) Scancode, BoundedFifo, KeyboardRing; (2) VirtioKeyboard; (3) KernelX86, which
composes the driver with the interrupt path; (4) VgaConsole; (5) VirtioRelaxed; (6) Typist;
(7) SerialPort; (8) IsrFrame; (9) BootRiscv and BootX86; (10) BringUp, which composes them with SerialPort; the theorems of section 5.

To do, most important first:

1. The safety halves of the liveness arguments as theorems, where a step that must not be missed can be
   stated as an invariant: for `ReadReturns`, that every pass of `keyboard_read()`'s loop brings
   `last_used` nearer to the snapshot; for `KeyIsRead`, what is left of the handling when a byte is
   announced; for `KernelMainStarts`, that each pass of a boot loop brings it nearer to its bound.
2. What a theorem says of the driver alone, said of the kernel: Typist's theorems through KernelX86,
   as `KernelDecodesAsTyped` does with KeyboardRing's.
