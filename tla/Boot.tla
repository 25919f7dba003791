---------------------------------- MODULE Boot ----------------------------------
(***************************************************************************)
(* The boot thread from main to handle_net (kernel/kernel.c,               *)
(* arch/i386/init.c, include/system/init.h), and the interrupts that nest  *)
(* on top of it (kernel/kernel.asm, arch/i386/8259A.c).                    *)
(*                                                                         *)
(* The loader enters main with interrupts off.  No step of the boot turns  *)
(* them on by name: the sti at the end of the first kmalloc does, in       *)
(* pci_select_drivers, and from there every enabled line may interrupt.    *)
(* An interrupt gate turns them off, and the sti of a kmalloc, a kfree or  *)
(* a printk in a handler on again, so that handlers nest.                  *)
(*                                                                         *)
(* Memory is counted in pages of 4 KB, and its regions end at pages.       *)
(*                                                                         *)
(* Its Init, Next, Spec and TypeOK carry the module's name, so that one    *)
(* module can extend Boot and another specification.                       *)
(***************************************************************************)
EXTENDS Integers, Sequences, SequencesExt, FiniteSets

CONSTANTS
  Machines,   \* [memory, functions, tables, shared]: what the kernel may run on
  MaxDepth    \* handlers on the stack at a time

CLOCK_IRQ == 0
KEYBOARD_IRQ == 1
CASCADE_IRQ == 2
SPURIOUS == 7      \* the 8259 raises it for a request that went away, masked or not
Lines == 0..15
Register(irq) == IF irq < 8 THEN 0..7 ELSE 8..15    \* the 8259 of a line

IsCard(f) == f.id = "am79c973"

\* What a machine is.  The card has an I/O base address, and the BIOS has given
\* it a line, which is not that of the clock of the second 8259.
IsMachine(m) ==
  /\ m.memory \in Seq([base : Nat, length : Nat, free : BOOLEAN])
  /\ m.functions \in Seq([id : STRING, line : Nat, header : Nat,
                          bars : SUBSET {"io", "mem", "none"}])
  /\ \A f \in ToSet(m.functions) :
       IsCard(f) => f.line \in Lines \ {8} /\ f.header = 0 /\ "io" \in f.bars
  /\ m.shared \in BOOLEAN

ASSUME BootAssumption == MaxDepth \in Nat /\ \A m \in Machines : IsMachine(m)

VARIABLES
  machine,
  step,        \* boot thread: position in Order
  al,          \* boot thread: what enable_8259A_irq has read
  ready,       \* what has been set up so far
  pages,       \* mem_map: its number of pages, and the first unused one
  pci_device,  \* the list of functions found
  card,        \* the function am79c793_probe found, or none
  pirq_penalty,
  mask,        \* the lines masked in the two 8259
  handler,     \* irq_table
  flag,        \* are interrupts on?
  stack,       \* the interrupts being handled, innermost last
  is_in_ring0,
  frames,      \* has the card's handler queued a frame?
  halted,      \* "no", "panic" (no memory), "wild", "restart" (no thread to return to)
  enabled      \* history: the lines the boot thread has enabled

found == <<pages, pci_device, card, pirq_penalty>>
interrupts == <<mask, handler, flag, stack, is_in_ring0, frames>>
bootVars == <<machine, step, al, ready, found, interrupts, halted, enabled>>

-----------------------------------------------------------------------------
(* What the boot does, in order                                             *)

\* register_irq, and the two halves of enable_8259A_irq.
register(name) ==
  CASE name = "timer" -> <<"timer_handler", "timer_read", "timer_write">>
    [] name = "keyboard" -> <<"keyboard_handler", "keyboard_read", "keyboard_write">>
    [] name = "card" -> <<"card_handler", "card_read", "card_write">>

init_arch == <<"init_tty", "reset_paging", "reset_gdt", "init_idt", "init_8259A",
               "pci_select_drivers", "pcibios_irq_init">> \o register("timer")

\* do_initcalls: level 1, then level 6 in the order of linking.
am79c793_init == <<"probe">> \o register("card") \o <<"setup", "start">>
initcalls == <<"thread_int", "arp_init", "kb_in">> \o register("keyboard") \o am79c793_init

\* Mutant of Order: the ARP cache is set up after the card.
OrderArpLast == init_arch \o <<"init_rootfs", "thread_int", "kb_in">> \o register("keyboard")
                \o am79c793_init \o <<"arp_init", "handle_net", "idle">>

Order == init_arch \o <<"init_rootfs">> \o initcalls \o <<"handle_net", "idle">>

AtStep(name) == Order[step] = name
Reached(name) == \E i \in 1..step : Order[i] = name

BootInit ==
  /\ machine \in Machines
  /\ step = 1 /\ al = {}
  /\ ready = {}
  /\ pages = [count |-> 0, first |-> 0]
  /\ pci_device = <<>> /\ card = [id |-> "none"]
  /\ pirq_penalty = [i \in Lines |->
       IF i < 3 THEN 1000000 ELSE IF i \in {3, 4, 6, 7, 12} THEN 1000
       ELSE IF i > 12 THEN 100000 ELSE 0]
  /\ mask = Lines \ {0, 1, 2}     \* as the BIOS leaves it
  /\ handler = [i \in Lines |-> "spurious"]
  /\ flag = FALSE
  /\ stack = <<>> /\ is_in_ring0 = 1
  /\ frames = FALSE
  /\ halted = "no" /\ enabled = {}

Goes == step' = step + 1 /\ UNCHANGED <<machine, stack, is_in_ring0, frames>>
Stops(why) == halted' = why /\ UNCHANGED <<machine, step, al, ready, found, interrupts, enabled>>

\* Steps that only set something up; handle_net sends through the card's data.
Sets(name) == CASE name = "init_tty" -> {"console"}
                [] name = "arp_init" -> {"arp_map"}
                [] name = "kb_in" -> {"kb_in"}
                [] name = "setup" -> {"custom_data"}
                [] OTHER -> {name}

SetUp ==
  /\ \E name \in {"init_tty", "reset_gdt", "init_rootfs", "thread_int", "arp_init", "kb_in",
                  "setup", "start"} : AtStep(name) /\ ready' = ready \cup Sets(name)
  /\ Goes /\ UNCHANGED <<al, found, mask, handler, flag, halted, enabled>>

handle_net ==
  /\ AtStep("handle_net")
  /\ IF "custom_data" \notin ready THEN Stops("wild")
     ELSE Goes /\ UNCHANGED <<al, ready, found, mask, handler, flag, halted, enabled>>

-----------------------------------------------------------------------------
(* Memory                                                                   *)

FOUR_GB == \h100000       \* in pages

\* The end of the highest free region, as a 32-bit number of bytes.
End(region) == (region.base + region.length) % FOUR_GB
load_memory_size(regions) ==
  LET ends == {End(r) : r \in {x \in ToSet(regions) : x.free}} \cup {0}
  IN  CHOOSE e \in ends : \A f \in ends : f =< e

HIGH_MEMORY == 896 * 256
MEM_MAP == \h300                        \* the page where mem_map begins
page_table_count(size) == ((IF size < HIGH_MEMORY THEN size ELSE HIGH_MEMORY) + 1023) \div 1024

\* A size of 2 GB or more is a negative int: the count of tables becomes huge,
\* and their writing runs over all memory.
reset_paging ==
  /\ AtStep("reset_paging")
  /\ LET size == load_memory_size(machine.memory)
         tables == page_table_count(size)
     IN  IF size >= FOUR_GB \div 2 THEN Stops("wild")
         ELSE /\ pages' = [count |-> tables * 1024, first |-> 1024 + tables * 2]
              /\ ready' = ready \cup {"mem_map"}
              /\ Goes
              /\ UNCHANGED <<al, pci_device, card, pirq_penalty, mask, handler, flag, halted, enabled>>

\* Four calls of get_free_page; the table is in the first page.
init_idt ==
  /\ AtStep("init_idt")
  /\ IF pages.first + 4 > pages.count THEN Stops("panic")
     ELSE /\ pages' = [pages EXCEPT !.first = @ + 4]
          /\ ready' = ready \cup {"idt"}
          /\ Goes
          /\ UNCHANGED <<al, pci_device, card, pirq_penalty, mask, handler, flag, halted, enabled>>

-----------------------------------------------------------------------------
(* PCI and the BIOS                                                         *)

\* Mutant of insert: the new element loses its next.
insertAlone(l, f) == IF l = <<>> THEN <<f>> ELSE <<Head(l), f>>

\* The first function found stays first, each later one goes behind it.
insert(l, f) == IF l = <<>> THEN <<f>> ELSE <<Head(l), f>> \o Tail(l)

\* Each function found has its base addresses read, sized and restored; those
\* of size 0, and all of a bridge, are left out.
pci_get_device_desc(f) ==
  [f EXCEPT !.bars = IF f.header = 0 THEN f.bars \ {"none"} ELSE {}]

\* The list after all functions on the buses.
AllInserted(functions) ==
  LET list[n \in 0..Len(functions)] ==
        IF n = 0 THEN <<>> ELSE insert(list[n-1], pci_get_device_desc(functions[n]))
  IN  list[Len(functions)]

pci_select_drivers ==
  /\ AtStep("pci_select_drivers")
  /\ pci_device' = AllInserted(machine.functions)
  /\ flag' = TRUE      \* the sti of kmalloc
  /\ Goes /\ UNCHANGED <<al, ready, pages, card, pirq_penalty, mask, handler, halted, enabled>>

\* The first table with the right signature, size and sum counts.
pirq_find_routing_table(tables) == SelectSeq(tables, LAMBDA t : t.wellFormed /\ t.sum = 0)

pcibios_irq_init ==
  /\ AtStep("pcibios_irq_init")
  /\ LET tables == pirq_find_routing_table(machine.tables)
     IN  IF tables # <<>> /\ tables[1].exclusive # {}
           THEN pirq_penalty' = [i \in Lines |-> pirq_penalty[i]
                                   + (IF i \in tables[1].exclusive THEN 0 ELSE 100)]
           ELSE UNCHANGED pirq_penalty
  /\ Goes /\ UNCHANGED <<al, ready, pages, pci_device, card, mask, handler, flag, halted, enabled>>

\* The position of the first function with the card's numbers, or 0.
pci_find_device == SelectInSeq(pci_device, IsCard)

\* Without a card the rest of its initialisation is left out; nobody looks at
\* what register_netdev answers.
am79c793_probe ==
  /\ AtStep("probe")
  /\ IF pci_find_device = 0
       THEN step' = Len(Order) - 1 /\ UNCHANGED <<machine, stack, is_in_ring0, frames, card, ready>>
       ELSE /\ card' = pci_device[pci_find_device]
            /\ ready' = ready \cup (IF "io" \in card'.bars THEN {"io_base"} ELSE {})
            /\ Goes
  /\ UNCHANGED <<al, pages, pci_device, pirq_penalty, mask, handler, flag, halted, enabled>>

-----------------------------------------------------------------------------
(* The 8259                                                                 *)

\* All lines masked but the cascade; the gates of IRQ 0 to 15.
init_8259A ==
  /\ AtStep("init_8259A")
  /\ mask' = Lines \ {CASCADE_IRQ}
  /\ enabled' = {CASCADE_IRQ}
  /\ ready' = ready \cup {"gates"}
  /\ Goes /\ UNCHANGED <<al, found, handler, flag, halted>>

Users == {"timer", "keyboard", "card"}
LineOf(name) == CASE name = "timer" -> CLOCK_IRQ [] name = "keyboard" -> KEYBOARD_IRQ
                  [] name = "card" -> card.line

register_irq(name) ==
  /\ AtStep(register(name)[1])
  /\ handler' = [handler EXCEPT ![LineOf(name)] = name]
  /\ Goes /\ UNCHANGED <<al, ready, found, mask, flag, halted, enabled>>

\* enable_8259A_irq: in, and, out.  IRQ 8 counts as the master's, which has no
\* such bit.
EnableRegister(irq) == IF irq =< 8 THEN Register(0) ELSE Register(irq)

EnableRead(name) ==
  /\ AtStep(register(name)[2])
  /\ al' = mask \cap EnableRegister(LineOf(name))
  /\ Goes /\ UNCHANGED <<ready, found, mask, handler, flag, halted, enabled>>

EnableWrite(name) ==
  /\ AtStep(register(name)[3])
  /\ mask' = (mask \ EnableRegister(LineOf(name))) \cup (al \ {LineOf(name)})
  /\ enabled' = enabled \cup {LineOf(name)}
  /\ al' = {}
  /\ Goes /\ UNCHANGED <<ready, found, handler, flag, halted>>

BootStep ==
  \/ SetUp \/ handle_net \/ reset_paging \/ init_idt \/ pci_select_drivers
  \/ pcibios_irq_init \/ am79c793_probe \/ init_8259A
  \/ \E name \in Users : register_irq(name) \/ EnableRead(name) \/ EnableWrite(name)

-----------------------------------------------------------------------------
(* An interrupt, from its gate to iretd                                     *)

\* The card interrupts once it is started; a device that shares its line may
\* do so before.
Raises(irq) ==
  \/ irq \in {CLOCK_IRQ, KEYBOARD_IRQ}
  \/ card.id # "none" /\ irq = card.line /\ (machine.shared \/ "start" \in ready)

\* A request that goes away, on any enabled line, leaves a spurious interrupt.
Pending(irq) ==
  \/ irq = SPURIOUS /\ enabled # {CASCADE_IRQ}
  \/ (irq \notin mask /\ (irq >= 8 => CASCADE_IRQ \notin mask) /\ Raises(irq))

Top(f) == stack' = [stack EXCEPT ![Len(stack)] = f]
InStage(s) == stack # <<>> /\ Last(stack).stage = s
Handles == UNCHANGED <<machine, step, al, ready, found, handler, halted, enabled>>

Enter(irq) ==
  /\ flag /\ Pending(irq) /\ Len(stack) < MaxDepth
  /\ stack' = Append(stack, [irq |-> irq, stage |-> "body", al |-> {}])
  /\ is_in_ring0' = is_in_ring0 + 1
  /\ flag' = FALSE
  /\ halted' = IF is_in_ring0' = 0 THEN "restart" ELSE halted
  /\ UNCHANGED <<machine, step, al, ready, found, handler, frames, enabled>>

\* Mutant of Interrupt: the line is not masked while its handler runs.
InterruptUnmasked(irq) == Enter(irq) /\ UNCHANGED mask

\* save, and the masking of the line, with interrupts off.
Interrupt(irq) == Enter(irq) /\ mask' = mask \cup {irq}

\* An sti in the handler.
BodySti ==
  /\ InStage("body") /\ ~flag
  /\ flag' = TRUE
  /\ UNCHANGED <<mask, stack, is_in_ring0, frames>> /\ Handles

\* The handler returns; that of the card, once it is started, may have queued
\* a frame.
BodyEnd ==
  /\ InStage("body")
  /\ Top([Last(stack) EXCEPT !.stage = "read"])
  /\ frames' \in {frames, frames \/ (handler[Last(stack).irq] = "card" /\ "start" \in ready)}
  /\ UNCHANGED <<mask, flag, is_in_ring0>> /\ Handles

UnmaskRead ==
  /\ InStage("read")
  /\ Top([Last(stack) EXCEPT !.stage = "write", !.al = mask \cap Register(Last(stack).irq)])
  /\ UNCHANGED <<mask, flag, is_in_ring0, frames>> /\ Handles

UnmaskWrite ==
  /\ InStage("write")
  /\ LET f == Last(stack)
     IN  /\ mask' = (mask \ Register(f.irq)) \cup (f.al \ {f.irq})
         /\ Top([f EXCEPT !.stage = "exit", !.al = {}])
  /\ UNCHANGED <<flag, is_in_ring0, frames>> /\ Handles

\* ret_to_proc: what was interrupted had interrupts on.
ret_to_proc ==
  /\ InStage("exit")
  /\ stack' = SubSeq(stack, 1, Len(stack) - 1)
  /\ is_in_ring0' = is_in_ring0 - 1
  /\ flag' = TRUE
  /\ UNCHANGED <<mask, frames>> /\ Handles

BootNext ==
  /\ halted = "no"
  /\ \/ stack = <<>> /\ BootStep
     \/ \E irq \in Lines : Interrupt(irq)
     \/ BodySti \/ BodyEnd \/ UnmaskRead \/ UnmaskWrite \/ ret_to_proc

BootSpec == BootInit /\ [][BootNext]_bootVars

-----------------------------------------------------------------------------
(* Properties                                                               *)

Stages == {"body", "read", "write", "exit"}

\* Every variable keeps its kind of value (a part of MasksNest).
BootTypeOK ==
  /\ machine \in Machines
  /\ step \in DOMAIN Order
  /\ al \subseteq Lines /\ mask \subseteq Lines /\ enabled \subseteq Lines
  /\ pages \in [count : Nat, first : Nat]
  /\ pirq_penalty \in [Lines -> Nat]
  /\ handler \in [Lines -> Users \cup {"spurious"}]
  /\ flag \in BOOLEAN /\ frames \in BOOLEAN
  /\ \A i \in DOMAIN stack : stack[i].irq \in Lines /\ stack[i].stage \in Stages /\ stack[i].al \subseteq Lines
  /\ halted \in {"no", "panic", "wild", "restart"}

\* What the handler of a line goes through.
Needs(irq) ==
  {"idt", "gates"} \cup
  CASE handler[irq] = "spurious" -> {"console"}
    [] handler[irq] = "keyboard" -> {"console", "kb_in"}
    [] handler[irq] = "card" -> {"io_base"} \cup (IF "start" \in ready THEN {"custom_data"} ELSE {})
    [] handler[irq] = "timer" -> IF frames THEN {"arp_map", "custom_data"} ELSE {}

\* Although no step of the boot turns interrupts on on purpose, none is taken
\* before there is a table to take it through, and no handler runs before what
\* it goes through is set up: not the timer's, which reaches the ARP cache
\* with the first frame, and not the card's, whose line is enabled before
\* its data exists and may be another device's too.
HandlersReady ==
  \A i \in DOMAIN stack : Needs(stack[i].irq) \subseteq ready

\* The masks and is_in_ring0 follow the nesting although both are changed with
\* interrupts on, the masks in three instructions by handlers and boot thread:
\* a line stays masked from its handler's call to the write that ends it, so
\* that no handler is entered again before; no other line stays masked that was
\* enabled, none is enabled that was not; and no handler leaves by restart,
\* which has no thread to go to.  (The handler of a spurious
\* interrupt may nest in itself, and unmasks its line.)
MasksNest ==
  /\ BootTypeOK
  /\ is_in_ring0 = 1 + Len(stack) /\ halted # "restart"
  /\ LET handling == {i \in DOMAIN stack : stack[i].stage # "exit"}
     IN  /\ \A i, j \in handling : stack[i].irq = stack[j].irq => i = j \/ stack[i].irq = SPURIOUS
         /\ Reached("pci_select_drivers") =>
              mask \ {SPURIOUS} = (Lines \ (enabled \cup {SPURIOUS})) \cup
                                  ({stack[i].irq : i \in handling} \ {SPURIOUS})

\* What the boot has found is there.  Its unused pages lie behind the kernel,
\* the page tables and mem_map, below the end of the highest free region or in
\* the last 4 MB it reaches into (the code counts these, and the holes below,
\* as memory); the card is found wherever it stands among the functions, its
\* handler is the one on its line, and only a machine without a card or with
\* too little or too much memory stops.
FoundIsThere ==
  /\ "mem_map" \in ready =>
       LET size == load_memory_size(machine.memory)
           mapEnd == MEM_MAP + (pages.count * 8 + 4095) \div 4096
       IN  /\ pages.first >= mapEnd /\ \h200 + pages.count \div 1024 =< MEM_MAP
           /\ pages.count =< ((size + 1023) \div 1024) * 1024
  /\ AtStep("idle") =>
       /\ \E i \in DOMAIN machine.functions : IsCard(machine.functions[i]) /\ card.line = machine.functions[i].line
       /\ handler[card.line] = "card" /\ card.line \in enabled
       /\ "io_base" \in ready
  /\ halted # "no" =>
       \/ \A i \in DOMAIN machine.functions : ~IsCard(machine.functions[i])
       \/ load_memory_size(machine.memory) \notin 1025..FOUR_GB \div 2 - 1

=============================================================================
