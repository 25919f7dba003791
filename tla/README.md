# Jnix in TLA+

Jnix is a small i386 kernel: boot code, interrupts, pages and a bucket allocator,
a text console and keyboard, an AMD 79C973 network driver with ARP, IP, ICMP and
UDP on top, threads, and a virtual file system. This directory holds TLA+ models
of all of it that a run of this commit reaches, and of the file system beside it,
the TLC configurations that check them, and proofs for TLAPS.

    tlc -config SkbQueue.cfg MCSkbQueue.tla     # each run: a .cfg and its MC module
    tlapm SkbQueueProofs.tla                    # the proofs: the modules named ...Proofs

## What makes this kernel hard

At this commit `main()` initialises the machine and calls `handle_net()`, which
never returns; `schedule()` and `restart()` are not reached. So there is one thread
of the boot, and everything concurrent comes from interrupt handlers:

- A gate enters a handler with interrupts off, `hwint_master` masks the line of the
  handler while it runs, and nothing else protects anything. The locks declared in
  `skbuffer.c` and `arp.c` are never taken.
- Code turns interrupts on as a side effect: `kmalloc` and `kfree` end in `sti`
  (kmalloc.c:183, 256), `console_set_cursor` and `set_console_start_addr` too
  (tty.c:148, 158), so every `printk` does, and `pop_buf` of the keyboard driver.
  From its first allocation or printed character on, a handler can be interrupted
  by every line but its own.
- Handlers nest as a stack: the one on top runs to its end. Sharing is between a
  piece of code and what interrupts it, never between processors.
- The build has no optimisation (Makefile:8), so each access to a shared variable
  is a load or a store that an interrupt can precede.

Every model follows from these four facts. Steps are single accesses to shared
state; a section between `cli` and `sti`, or one at the start of a handler with
interrupts off, is one step.

## Inventory

| component | state | operations | hard behaviour | correct when |
|---|---|---|---|---|
| Receive queue, `net/skbuffer.c` | `recv_head`, `recv_tail`, `next`, allocation | `skb_create`, `skb_recv_push` (card's handler), `skb_recv_shift`, `skb_handle_recv`, `skb_free` (timer's handler) | a tick between the test and the store of a push | the list is sound, frames leave in order, once, and are lost only to that race |
| Receive ring, `am79c793.c` | descriptors, `current_rx_buffer`, CSR0 | `am79c_interrupt_handle`, `receive` | index wraps a step late; CSR0 acknowledged from an old copy | frames handed over in order, a frame stays behind only for a known cause |
| Transmit ring, `am79c793.c` | descriptors, buffers, `current_tx_buffer` | `send` in the boot thread and on top of it in the timer's handler | an index read anew in each statement | what was accepted is sent once, whole, in order |
| Bucket allocator, `mm/kmalloc.c` | chains of descriptors, unused descriptors, free blocks, counts | `kmalloc`, `kfree` | the search of `kfree` runs with interrupts on | no block twice, no page lost or freed in use, lists stay lists |
| Page allocator, `mm/page.c` | `mem_map` | `get_free_page`, `free_page`, counts | called from handlers | as above; counts of shared pages |
| Console, `kernel/tty.c` | cursor, start of the screen, video memory, two registers of the controller | `console_out_char`, `scroll_screen`, `clear_screen` | printing inside printing | text stays in its console, on the screen, and printing ends |
| Keyboard, `keyboard.c` | ring of scan codes, modifiers, locks, tty input buffer | `keyboard_handler`, `keyboard_read`, `set_leds`, `handle_tty` | prefix bytes, a command's answer among scan codes, full buffers | every byte is consumed, no modifier sticks, no store behind a buffer |
| ARP cache, `net/arp.c` | hash table with chains | `arp_find`, `hash_put`, `hash_get`, `arp_rcv` | the boot thread searches while the timer's handler inserts | it says what was announced; searches end |
| IP, ICMP, UDP, `net/` | none of their own; buffers | `ip_send`, `ip_rcv`, `ip_hdr_checksum`, replies | fragments, checksums of odd length, memory given back | data sent where it should be, memory accounted for |
| Boot, `kernel.c`, `init.c`, `init.h`, `pci.c`, `bios.c` | what is set up; `mem_map`, the list of PCI functions | `init_arch`, `do_initcalls`, `handle_net` | interrupts are on from the first `kmalloc` | no handler runs before what it needs |
| Interrupts, `kernel.asm`, `8259A.c` | masks, `is_in_ring0`, the interrupt flag | `save`, `ret_to_proc`, `hwint_*`, `enable_8259A_irq` | nesting, stray `sti`, masks changed in three instructions | every handler returns to what it interrupted, masks are not lost |
| Threads, `thread.c`, `schedule.c` | thread ring, registers | `thread_create`, `schedule`, fork, exit, wait | not reached at this commit | |
| Paging, `arch/i386/page.c` | page tables, `mem_map` counts | `do_wp_page`, `do_no_page`, `copy_page` | copy on write | counts equal references |
| Files, `fs/` | descriptor tables, directory tree, mounts | open, close, dup, read, write, mkdir, mount, chroot | entries never given back, repeated mounts | counts equal references, tables do not fill up |

They interact like this. The card's handler runs `receive`, which allocates
(`kmalloc`) and pushes to the receive queue; the timer's handler shifts one
`sk_buffer` per tick and runs the protocols on it, which search and fill the ARP
cache, call `send`, print, and free (`kfree`). The boot thread looks up ARP, and
calls `send`, `kmalloc` and `kfree`, with interrupts on. The keyboard's handler
prints, scrolls and clears. The boot thread sets all this up with interrupts on, from
the first `kmalloc` of `pci_select_drivers`. The file system calls are called by
nobody yet: there is no thread, and `system_call.c` lists three of them.

## Modules

| module | models | checked by |
|---|---|---|
| `SkbQueue` | the receive queue under two nested handlers | `SkbQueue.cfg`, proofs in `SkbQueueProofs` |
| `FrameFifo` | what the receive queue promises: a FIFO that may lose a frame before it is queued | refined by `SkbQueue` |
| `RxRing` | receive ring, card and interrupt handler | `RxRing.cfg`, proofs in `RxRingProofs` |
| `RxPath` | `RxRing` and `SkbQueue` put together: from the wire to the protocols | `RxPath.cfg`; refines `FrameFifo`; proofs in `RxPathProofs` |
| `TxRing` | transmit ring, card and two nested callers of `send` | `TxRing.cfg`, proofs in `NestingProofs` |
| `KMalloc` | bucket allocator on the page allocator | `KMalloc.cfg`, `KMallocIrq.cfg`, proofs in `KMallocProofs` |
| `Console` | the console under nested operations | `Console.cfg`, proofs in `TerminalProofs` |
| `Keyboard` | keys, scan codes, ring, decoder and tty input | `Keyboard.cfg`, `KeyboardPrefix.cfg`, proofs in `TerminalProofs` |
| `Net` | ARP cache, IP, ICMP and UDP, the timer's handler and the boot thread that use them | `Net.cfg`, proofs in `NetProofs` |
| `Checksum` | `ip_hdr_checksum` and the sum of RFC 1071, as functions; `Net` extends it | `Net.cfg`, proofs in `NetProofs` |
| `Boot` | from `main` to `handle_net`, masks and nested interrupts | `Boot.cfg`, proofs in `NestingProofs` |
| `Vfs` | files, directories and mounts | `Vfs.cfg`, proofs in `VfsProofs` |

The `MC` modules instantiate them. Each definition carries the name of the code it
stands for where there is one; `PROJECT.json` gives the lines. Variables marked
"history" are not in the code: they record what happened so that properties can
speak of it. The operators under "slips" are the code with one plausible mistake;
they are no part of `Next`. They record, for every property, a mistake that breaks
it: put in place of the operator they vary, TLC finds the property violated.

**SkbQueue.** Two contexts, the card's handler and the timer's. `top` says which
one runs. The shift runs with interrupts off from the entry of the timer's handler
and is one step (`Shift`); the push may be interrupted and is a step for each load
and store. `chain` is the list from `recv_head` as a history variable, and
`QueueSound` says the pointers agree with it. `Tick` is the whole of
`skb_recv_shift`, also on an empty queue, where it repairs `recv_tail`.

**RxRing.** The card stores frames in the descriptors it owns, in turn, and raises
RINT; the handler reads CSR0 once (`temp`), takes all frames its index finds, and
writes `temp` back, which clears exactly those bits. Descriptor `Count` is the
memory behind the ring, whose contents another owner (`NeighbourWrites`) decides. Where
that word looks like a good frame, length and address are foreign as well: either some
bytes are copied and queued (`Take`, frame 0), or the handler does not come back
(`TakePanics`): the length less 4, unsigned, is too large for `kzmalloc`, which panics,
or the address is not mapped. In `SkbQueue` this is `SkbCreatePanics`; interrupts are on
then, so other handlers go on running on top of the loop of `panic()` (`PanicLoop`).

**TxRing.** `send` by the thread and, between any two of its statements, by the
timer's handler. A buffer is two halves, to see torn frames. The address of the
`memcpy` is computed once, everything else reads `current_tx_buffer` again, as the
code does.

**KMalloc.** `kmalloc` and the release part of `kfree` are single steps (interrupts
off); the search of `kfree` goes descriptor by descriptor. The fields `chain`,
`next` and `free_bucket_desc` are the code's pointers; `bucket` and `spare` are the
same lists as sequences. `HeapSound` says they agree, which justifies that the
model reads a list whole where the code walks it with interrupts off. The test of a
descriptor and the load of its `next` are one step; the comment at `Found` says why
this hides nothing. The model ends (`stopped`) at a panic in the middle of a change
of the heap, and where a block is chained to the wrong descriptor: what the heap
does after that is arbitrary. It goes on after the panic of a search: `panic()`
prints, printing turns interrupts on, and handlers keep running on top of it.

**Console.** Any operation may begin inside any other (`stack`), one per context.
`cursor` and `start` are loaded and stored separately; the two writes of a position
to the controller are one step, as they are between `cli` and `sti`, but their
argument is loaded before. Of the contents of the screen only `inked`, the end of
the text, is kept. A local variable that is not read again goes back to a fixed
value, so that states which differ only in dead values are one.

**RxPath.** The card's handler is one handler in `RxRing` and in `SkbQueue`: an
action of the composition is an action of each, or of one while the other stutters.
The push to the queue lies between the test of a descriptor (`R!Take`) and its
return to the card (`R!GiveBack`). The mapping to `FrameFifo` takes the queue and
what was delivered through `received`, which says what the frames are.

**Keyboard.** `Press` and `Release` put the bytes of a key on the wire, one byte is an
interrupt, one turn of the loop of `keyboard_read` a step. The decoder is the code's:
`get_tail` does not consume, so what is popped and what is decoded in a turn is not
what the branches of `keyboard_read` suggest; the comment at `pops` says what it
comes to. `set_leds` waits for the keyboard's answer and takes what comes before it;
the history variable `swallowed` has the modifiers whose break code was among that.

**Net.** A received frame is one step of the timer's handler, since it runs to its end
on top of the boot thread; the boot thread's search is a step per read of an entry,
and its copy of a hardware address two. The bucket of an address is computed as the
code computes it, from the four numbers of the address (`inet_aton`, `htonl`,
`hash_code`). Blocks of the heap are counted, not told apart. `ChecksumHolds` is the
verdict of the checksum by kinds of packets; `VerdictIsChecksum` compares it, at each answered packet, with
`Checksum`, where bytes are added.

**Boot.** `Order` is the sequence of calls, the initcalls in the order in which they
are linked; `ready` says what has been set up, `Needs` (part of a property) what a
handler goes through. Interrupts are frames on `stack`; the changes of a mask are
three instructions (`EnableRead`, `EnableWrite`, `UnmaskRead`, `UnmaskWrite`), as in the
code, and a device that shares the card's line may interrupt before the card is
started. `IsMachine` says what a machine is: the card has an I/O base address and a line
other than 8. A card on line 8 would never be heard, since `enable_8259A_irq` tests
`irq <= 8` (8259A.c:122) and clears a bit of the first 8259 that does not exist; on a PC
that line is the clock's. The specification is called `BootSpec`, so that one module can
extend `Boot` and `TxRing`.

**Vfs.** One action per call. Entries and inodes are created together and never freed,
so they share a number. A lookup that goes through a null or uninitialised pointer
ends the model (`wild`), as do the two file systems' missing operations; what the
code does after it is arbitrary. Its initial state is that after `mount_root`.
Descriptor numbers are those of the table, and one past it for the calls that compare:
no call compares with 0, and `close` and `dup` do not compare at all (file_op.c:95, 108,
669), so a negative number, or one past the table, reaches memory the model does not have.

## Runs

| run | bounds | states | shows |
|---|---|---|---|
| `SkbQueue` | 3 sk_buffers, 4 frames | 11,816 | the list stays sound under every nesting (`QueueSound`); a frame is lost and its memory leaks only if a tick falls inside a push (`LossNeedsRace`); any other tick repairs both ends (`TickHeals`) and deafness ends (`DeafnessEnds`); a linked frame reaches the protocols (`QueuedIsDelivered`), both unless the card's handler panics on top of the timer's (`Hung`); the queue implements `FrameFifo` (`RefinesFifo`) |
| `RxRing` | 3 descriptors, 6 frames | 261,717 | frames in order in spite of the late wrap, and the indexes of driver and card never drift apart (`ReceivedInOrder`); a frame is left behind without an interrupt pending only for the two causes `StrandedHasCause` names |
| `RxPath` | 2 descriptors, 3 frames, 4 sk_buffers | 275,004 | from the wire to the protocols: what is lost is lost with its sk_buffer, in a tick inside a push (`LossIsLeak`); when all is quiet every whole frame has been delivered but for three causes (`QuietMeansDelivered`); a frame in the ring arrives unless a tick falls inside a push or the driver stops, by its loop or by a panic, behind the ring (`FrameArrives`); the whole path implements `FrameFifo` |
| `TxRing` | 3 descriptors, 4 sends | 29,723 | whole, in order, once, dropped only when the ring is full (`WireIsAccepted`); no buffer of the card is written: all as long as no `send` begins inside another. With one inside another only the types in `WireIsAccepted` remain: the index stays within one of the ring |
| `KMalloc` | 4 pages, 2 block sizes (2 and 1 to a page), 3 descriptors to a page, 3 blocks in use | 384,787 | lists, blocks and pages stay consistent (`HeapSound`, `BlocksAccounted`); a search goes astray only if a bucket was released during it (`StrayNeedsRace`) |
| `KMallocIrq` | same | violation | `KfreeFinds`: a `kfree` in a handler makes the search it interrupts end in a panic, or at the wrong descriptor, for a block that is valid |
| `Console` | 9 characters, screens of 4, lines of 2; one printer beside the keyboard | 2,012,458 | not interrupted: stores stay in the console (a part of `OverrunBounded`), text is not printed over, every operation ends. Interrupted: the cursor passes the end by at most a line per further context (`OverrunBounded`); an operation that is not itself interrupted brings the registers and the screen back in line (`RegistersFollow`, `CursorNotBelowScreen`) |
| `Keyboard` | ring of 4, input buffer of 1, 6 keys | 3,586,506 | each interrupt consumes its byte (`RingDrained`), a modifier stays on only if `set_leds` took its own break code, and no longer than to its next code (`ModifiersReleased`), the input buffer takes what is echoed until it is full and then nothing (`InputIsEchoPrefix`) |
| `KeyboardPrefix` | same, 4 keys | violation | `PrefixSelectsColumn`: a byte after E0 is not looked up in the third column |
| `Net` | 3 hosts, 2 in one bucket; 2 hardware addresses, 2 announcements each; 7 blocks | 407,218 | what the cache says (`CacheTruth`); where packets go and when the search runs wild (`SentWhereTold`); what every path leaves in memory (`MemoryAccounted`); what fragments lose (`FragmentsLose`); the checksum against RFC 1071 (`VerdictIsChecksum`); the boot thread gets past its requests (`Resolved`) |
| `Boot` | 5 machines, 3 handlers deep | 205,872 | no handler runs before what it needs (`HandlersReady`); masks and `is_in_ring0` follow the nesting at every instruction (`MasksNest`); what the boot found is there (`FoundIsThere`) |
| `Vfs` | 2 descriptors, 2 open files, 4 inodes, 6 paths | 306,560 | counts are exact (`RefCounts`), the tree with its mounts is one (`TreeSound`), a refused call leaves nothing behind (`FailureLeavesNoTrace`) |

**Bounds, and why they are enough.** `SkbQueue`: three buffers give a queue with a
first, a last and one between, and four frames let a buffer be reused after a loss.
`RxRing`: three descriptors and six frames wrap the ring twice, through the
descriptor behind it. `RxPath`: two descriptors and three frames wrap it once with a
full ring on the way; four sk_buffers are as many as can be in use, so `kmalloc` does
not run out, and which of them it returns is fixed, since `SkbQueue` tries all. `TxRing`: three descriptors distinguish "the next" from "the
previous", four sends fill the ring and wrap it. `KMalloc`: a chain of up to three
buckets has a first, a middle and a last to unlink, the two sizes make the search
go on to the next chain, a page of descriptors runs out, and four pages run out too.
`Console`: like the real one (5461 characters, screens of 2000, lines of 80) it has a
last line that is not complete, and a newline past it reaches exactly the first
position scrolling cannot show (10 = 6 + 4; in the code 5520 = 3520 + 2000). The
thread is not a context of that run: as a printer it does nothing the timer's
handler does not, and begins at the bottom only.

`Keyboard`: a ring of four is full before the six bytes of Pause are in, if bytes
stayed in it; the keys are two that share `ctrl_l`, the sequence with a shift inside
(PrintScreen), the one without a break code (Pause), a lock (`set_leds`) and a letter
that is echoed; Num Lock is also in the sequence of Pause, so that `set_leds` runs
between its two codes of Ctrl; an input buffer of one is full after the first character. `Net`:
10.0.2.2 and 10.0.2.7 share a bucket, as the code computes it, 10.0.2.4 does not; data
is 4 bytes, which `handle_net` sends, 1480, where fragments begin, and 2033, the size of
the call of `udp_send` that is commented out (kernel.c:203), without which no code
reaches the fragments, and 2952, which with its header is a whole number of fragments;
seven blocks run out. The checksum's words are made of bytes
0..2, so that four of them already need the second folding, as some 65,000 bytes do
with real ones. `Boot`: three handlers deep is a handler inside a handler with a third
at the end of either; the machines differ in where the card stands and whether its
line is shared, in memory below, in and above what the kernel can use. `Vfs`: two of
each table is one more than a call takes; four inodes give a directory in a mounted
file system and a mount on a mount; names cover a missing component in the middle and
at the beginning of a path.

`MaxFrames`, `MaxSends`, `MaxLive`, `MaxChanges`, `MaxBehind`, `MaxEcho` and `MaxDepth` cap
what the environment does, not the code.

**Deadlock** is checked for `SkbQueue`, `RxRing` and `Console`. It is not for
`TxRing`, where all `MaxSends` calls may be over, for `RxPath`, where all frames may
have arrived, for `KMalloc`, `Net`, `Boot` and `Vfs`, which end at a panic or a wild
pointer, or where the boot thread idles, and for `Keyboard`, which ends at `MaxEcho`.

**Fairness.** Nothing makes the outside world send frames or press keys; no run
assumes it. What is assumed:

- a handler that is running is executed: weak fairness of the handlers' steps;
- strong fairness of `Tick` in `SkbQueue`: the timer keeps ticking, a tick that finds
  interrupts off stays pending in the 8259A, and IRQ 0 has the highest priority;
- strong fairness of `SkbFree`: the card may interrupt the handler that is about to
  free, but only once per event and events are bounded;
- weak fairness of the card's own steps (`Transmit`): it transmits what it owns;
- weak fairness of entering the card's handler in `RxPath`: its line is
  level-triggered, so an interrupt that is not acknowledged is taken; the rest of
  `RxPath` has the fairness of `SkbQueue`;
- weak fairness of the boot thread in `Net`, and strong fairness of the answer to a
  request that is sent again and again: not all of them are lost.

## Disagreements between code and comments

- kmalloc.c:21-22 promises that `malloc` and `free` can be called from interrupt
  routines. Run `KMallocIrq` shows that the search of `kfree`, with interrupts on,
  can be led onto the list of unused descriptors. It then panics; or, as an unused
  descriptor keeps the number of its old page, it finds the wrong one.
- keyboard.c:35 heads the third column of the keymap "E0 XX". Run `KeyboardPrefix`
  shows that the byte after E0 is looked up in another column: `get_tail` (line 386)
  answers E0 again, which is decoded by itself. For the same reason the branches for
  PrintScreen (lines 391 and 415) are never taken.

Not a disagreement with a comment, but seen in the models: am79c793.c:194 wraps
`current_rx_buffer` when `current_rx_buffer+1 > rx_buffer_count`, one step later than
`send` does at line 239 with `>=`. The driver visits the memory behind the ring once a
lap; `ReceivedInOrder` still holds, because it comes back to the right descriptor, but
`StrandedHasCause` has to except the case that this memory looks owned by the card, and
`FrameArrives` the one that it looks like a frame of impossible length.

Nor is this: `sys_close` (file_op.c:93) counts down but leaves `inode` set, and `sys_open`
(line 38) takes only objects without an inode (`FreeDescs`). An object that was open once
is never free again, so that `sys_open` reports a full table (line 44) after as many opens
as it has entries, with no file open. `RefCounts` shows that the count it could look at
instead is exact.

**What the properties except.** Where the code does not survive an interleaving, its
property names the interleaving as the only cause, and says what still holds after it:

- `send` inside `send` (am79c793.c:215, 235, 242): `WireIsAccepted`, `AcceptedIsSent` and
  `CardBufferStable` say nothing of the packets after it. What remains is the bound of
  the index, which is what keeps the stores of `send` within one descriptor of the ring.
- Printing inside printing (tty.c:119): `TextBeforeCursor` is about operations that
  nothing interrupts; under interruption `OverrunBounded` bounds where characters land,
  and they may land on each other.
- `open` on a directory without operations goes through a null pointer when the
  descriptor has already been filled in (file_op.c:62). That ends the model, so
  `FailureLeavesNoTrace` is not about it.
- `ip_send` to 0.0.0.0, the broadcast (ip.c:19-24), is left out by the assumption that
  no host has this address.

## Proofs

Eight modules hold the proofs. Each theorem holds for every value of the constants
that the module's `ASSUME` allows; the assumptions say no more than what the sizes
are in the code (a ring has a descriptor, a bucket a block, `NULL` is not an object, no
host is 0.0.0.0, the two blocks of `arp_init` exist, a machine is as `IsMachine` says, a
byte has at least two values and a packet is shorter than 2 * `WordValues` bytes, 128 KB)
and that the bounds of the model are numbers. `Data` has to contain one packet of odd
length whose last byte is not 0, without which the two sums could not be told apart.

| module | theorem | states |
|---|---|---|
| `SkbQueueProofs` | `QueueIsSound` | `[]QueueSound`, with the types in it |
| | `LossOnlyByRace` | `[]LossNeedsRace` |
| | `QueueRefinesFifo` | `RefinesFifo`: each step is one of `FrameFifo`, or a stutter |
| | `TickAlwaysHeals` | `TickHeals` (an action property) |
| `RxRingProofs` | `RingKeepsOrder` | `[]ReceivedInOrder` |
| | `StrandingIsExplained` | `[]StrandedHasCause` |
| `RxPathProofs` | `LossMeansLeak` | `[]LossIsLeak` |
| | `QuietIsComplete` | `[]QuietMeansDelivered` |
| | `PathRefinesFifo` | `RefinesFifo`: from the wire to the protocols, each step is one of `FrameFifo`, or a stutter |
| `NestingProofs` | `CardTransmitsAccepted`, `TypeCorrect` | `[]WireIsAccepted`, `[]TypeOK` of `TxRing` |
| | `CardBufferIsStable` | `CardBufferStable` (an action property) |
| | `HandlersFindSetUp` | `[]HandlersReady` of `Boot` |
| | `NestingIsKept` | `[]MasksNest` |
| | `BootFinds` | `[]FoundIsThere` |
| `KMallocProofs` | `SpecHeapSound` | `[]HeapSound` |
| | `SpecBlocksAccounted` | `[]BlocksAccounted` |
| | `SpecStrayNeedsRace` | `[]StrayNeedsRace` |
| `TerminalProofs` | `CursorBounded` | `[]OverrunBounded` |
| | `NothingOverprinted` | `[]TextBeforeCursor` |
| | `ControllerFollows` | `[]RegistersFollow` |
| | `CursorOnScreen` | `[]CursorNotBelowScreen` |
| | `RingIsDrained` | `[]RingDrained` |
| | `ModifiersGoOff` | `[]ModifiersReleased` |
| | `InputStopsAtRoom` | `[]InputIsEchoPrefix` |
| `NetProofs` | `SpecCacheTruth` | `[]CacheTruth` |
| | `SpecSentWhereTold` | `[]SentWhereTold` |
| | `SpecMemoryAccounted` | `[]MemoryAccounted` |
| | `SpecFragmentsLose` | `[]FragmentsLose` |
| | `SpecVerdictIsChecksum` | `[]VerdictIsChecksum` |
| `VfsProofs` | `CountsAreUsers` | `[]RefCounts` |
| | `TreeStaysSound` | `[]TreeSound` |
| | `FailureIsClean` | `FailureLeavesNoTrace` (an action property) |

Every proof has the same shape: an inductive invariant `IInv`, one lemma per action
(`...Inv`) that the action keeps it, `InitInv`, `NextInv`, and the theorems from
`Spec => []IInv`. No property of a run is inductive as it stands. What `IInv` adds:

**SkbQueueProofs.** Whether the store `recv_tail->next = skb` extends the list, changes
a freed object or ties a knot depends on what `recv_tail`, the value loaded from it and
the new object are at that moment. `Control` relates the program counters to who holds
which object; `Fresh` says the object being pushed is allocated, unlinked and not in the
list; `TailKnown` says that while the queue is not empty `recv_tail` (and the loaded
copy) is its last element, at each statement of the push; `Unraced` is what holds
without a tick inside a push. `TailKnown` holds also after races: a queue that became
non-empty again did so through the head branch, so a stale tail can only coexist with
an empty queue. The refinement needs `FramesInOrder` besides: what is queued has been
accepted, in the order of its numbers.

**RxRingProofs.** Counted from the driver's next descriptor (`T`, `Pos`), those that
wait come first and the card's after them (`Shape`); what waits is in the order of its
numbers and is the rest of what was stored (`Order`); what has been handed over is its
beginning (`Handed`); and for whatever waits RINT is set, the handler is still in its
loop, or one of the named causes is there (`Seen`). `Shape` covers the excursion of
`current_rx_buffer` to `Count`.

**RxPathProofs.** Instantiates both modules above. A step of the path is a step of each
or of one while the other stutters, so both invariants hold together with `OneHandler`
(the card's handler runs in both parts or in neither) and `Numbered`; what they say of
one frame is joined. The refinement maps the queue to the frames of its objects without
those that carry none (`Real`). `Real` is a recursion over a sequence; what the proof
needs of it (it is a sequence of frames, an element more at the end, an element less at
the front, a change of an object that is not in the sequence) is proved by induction
over its length. The library's induction theorems take an operator, so the induction is
over a set: a set of numbers that is not empty has a least element
(`NatLessThanWellFounded` and `WFMin`), hence one that holds 0 and with each n also
n + 1 holds them all (`SetInduction`).

**NestingProofs.** Two parts that interrupts nest in; they share nothing else.

Of `Boot`, the invariant is `BootInv`. `Masks`: every change of a mask is a read and a
later write of the whole register, so each frame of the stack, and the boot thread below
it, may hold a copy. The copy is still right, whatever has been handled on top, because
a handler that ends gives the mask back as it found it: the mask is determined, at each
level of the stack, by what is enabled and by which of the handlers up to there have not
yet unmasked their line (`MaskIs`, `Waiting`). Hence one statement for every level, and an
interrupt, its end and its unmasking each extend or shorten it at the top. A line that
is being handled is masked, so it is not taken again; only the spurious one is. `Setup`
says for every step of the boot what the steps before have set up, `Found` what of the
card. The list `pci_select_drivers` builds holds exactly the functions of the machine
(`AllAreInserted`, by induction over the functions): only the head keeps its place, but
`pci_find_device` needs no order. `Memory` is the arithmetic of `reset_paging`.

Of `TxRing`, `Alone`: until one `send` begins inside another, the descriptors from
the card's own on are the card's, one for each packet accepted and not transmitted, with
that packet in both halves of the buffer; a sender at each statement knows what it has
tested. `Reach`: how far the index can get after such an overlap, which `TypeOK` needs.

**KMallocProofs.** `Lists`: a descriptor stands in exactly one place of one list
(`Apart`), every one created stands in one (`AllPlaced`), and the pointers are those of
the sequences (`Linked`); `Unborn`, because `init_bucket_desc` relies on a fresh page
for the last `next`. `Buckets` gives each descriptor of a chain the blocks of its page.
Neither mentions a search, which is why no interruption of `kfree` can break them:
before it unlinks a bucket, with interrupts off, it checks the `prev` its search found
against the list as it is then (`Predecessor`, `UnlinkPlace`: only the one descriptor
before a bucket leads to it). `Track` is what a search knows while no bucket has been
released under it: it is on the chain of its block and not past its bucket, which a
`kmalloc` on top of it does not change (`SearchesGrow`: chains grow at the head).

**TerminalProofs.** `Console` and `Keyboard` share nothing but the name of the part; the
module extends both. Of the console: a context that has found room may be interrupted by others that find
less: how far each can still carry the cursor depends on its place in the stack
(`CursorAt`, `StartAt`), a line for each context that may come on top. `Alone` and
`Single` say what an operation that nothing interrupts knows at each statement.

Of the keyboard, `Tracked`: follow the bytes on their way to the driver to their end;
a modifier they leave set belongs to a key that is still down, whose break sequence
will clear it. For a modifier whose break code was swallowed only the bytes still on
their way count, so that nothing is lost for it beyond that one code: its next code makes
the full statement true again. The proof goes through the make and break sequences of
every key, and through what may be cut from the front of the wire (`SetAfterDrop`).

**NetProofs.** `CacheTruth` is kept by `hash_put` in each of its three forms (`PutShape`,
`PutKnown`, `PutTruth`), and a block is taken exactly for an entry that is not its
bucket's head (`PutBehind`), which is what `MemoryAccounted` counts. `Searching` is what
the boot thread's search knows between two of its reads, whatever is announced there:
the entry it stands on stays in the chain, an entry it has seen is not taken away, and a
half of a hardware address once copied stays one that was announced. `Fragments`: as long
as something is left, whole fragments have been sent; `FragmentsLose` alone would allow
a fragment of any length in the middle.

The checksum (`ChecksumIsRight`) needs no state: both sums are recursive functions of the
number of words, and both leave the same (`Leaves`): the sum of the words less a multiple
of the greatest word, and 0 only of 0. The code's 32 bits do not overflow for a packet
shorter than 2 * `WordValues` bytes (`TotalFits`), and two foldings leave it (`FoldedLeaves`); an
end-around carry leaves it at each word (`LeavesPlus`). With the checksum in its field
the greatest word is left (`Completed`). A changed byte changes the sum by less than the
greatest word, and not by 0, so that something else is left (`DamageNoticed`); so does a last
byte that one side counts as the high half of a word and the other as the low one
(`TakesOthers`). Each sum over a packet is an induction over a set of numbers, as in
`RxPathProofs`; `SumsChange` compares the sums of two packets that differ in one word.

**VfsProofs.** `Links`: what an entry refers to exists, and what covers it is newer. It
is what makes the two recursions of the module total: the walk over `mounted_dir` ends
at an entry (`TopIs`), and each component of a path leaves `dir` and `mid_dir` at an
entry, unset or wild (`GoWalks`, `ParentAnswers`, `NameiAnswers`), both by the same
induction. `Counted` keeps the two counters equal to the cardinalities of the sets of
descriptors; `CountInv` serves `close` and `dup` alike. For `TreeSound` the two actions
that add an entry are compared set by set: who has it among the children, and whom it
covers (`MkdirInv`, `MountInv`).

What is only model-checked:

- Liveness (`AcceptedIsSent`, `QueuedIsDelivered`, `DeafnessEnds`, `FrameArrives`,
  `OperationEnds`, `Resolved`): the proof system has no rule for fairness and `ENABLED`.
- `KfreeFinds` and `PrefixSelectsColumn`, which are false.

Every invariant and every action property without fairness that a run checks is the
statement of a theorem.

## Not modelled

- Threads and the scheduler, page faults, `copy_page`, fork: `handle_net` never returns,
  so `main` does not reach `thread_create`, `schedule` is called nowhere and no page
  fault has a thread to serve. (The one place a fault could come from is the foreign
  address behind the receive ring; `do_no_page` then goes through the null
  `current_thread`, and `RxRing` has the handler stop.) `sys_fork` moreover makes the new thread the current one
  before it copies (thread.c:86), so that nothing is ever shared and `do_wp_page` has no
  page to copy. Exceptions and the entry of system calls: no user code runs.
- The system call table: a dispatch without state. Of the file calls it lists
  `sys_read`, `sys_write` and `sys_open`.
- `fs/namei.c` and devfs: `fs/Makefile` links `file_op.o` and the `super.o` of rootfs.
  `mount_root` is commented out. What `Vfs` says of devfs is its `super.c`.
- The mode switch, the descriptor tables, the first page tables: straight-line code
  before interrupts are on. `vga.c` and `pirq_peer_trick`: called nowhere, or only print.
- The library (`printf`, strings): sequential and without state; the models take what
  it does where it matters.
- Spin locks: never taken. `hash_remove`, `hash_clear` and the senders of `icmp.c` but the
  echo reply: called nowhere.
- What registers the card is programmed with; what frames, characters and files hold.
- The damage after a wrong release in `kfree`, a wild pointer, or a panic in the middle
  of a change of the heap.
- What the cells of the screen show. `clear_screen` blanks the cells up to
  `v_mem_limit/2`, which for the first console is more than a screen.
