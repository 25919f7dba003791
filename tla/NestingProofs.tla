----------------------------- MODULE NestingProofs -----------------------------
(***************************************************************************)
(* Proofs about two parts of the kernel that interrupts nest in.           *)
(*                                                                         *)
(* Boot, for every machine and any depth of handlers.  The inductive       *)
(* invariant (BootInv) adds to MasksNest what each handler's read-modify-  *)
(* write and that of the boot thread have read of the masks (Masks), and   *)
(* to the others how far each step of the boot has come: what is set up    *)
(* (Setup), what of the card (Found), which pages (Memory).                *)
(*                                                                         *)
(* TxRing, for every size of the ring and every number of sends.  The      *)
(* inductive invariant (IInv) adds to TypeOK                               *)
(*   - Reach: how far the increment of a send() inside another can carry   *)
(*     current_tx_buffer, which TypeOK depends on;                         *)
(*   - Alone: without such a send(), the card owns the descriptors from    *)
(*     its own on, one for each frame accepted and not transmitted, and    *)
(*     the sender knows what is in the one it fills.                       *)
(***************************************************************************)
EXTENDS Boot, TxRing, NaturalsInduction, WellFoundedInduction, FiniteSetTheorems, TLAPS

-----------------------------------------------------------------------------
(* Boot: its invariant.                                                    *)

Frame == [irq : Lines, stage : Stages, al : SUBSET Lines]

\* Set up, at each step of the boot, is what it has come past; and the card's
\* handler has something to read from the time it is registered.
Setup ==
  /\ step > 1 => "console" \in ready
  /\ step > 2 => "mem_map" \in ready
  /\ step > 4 => "idt" \in ready
  /\ step > 5 => "gates" \in ready
  /\ step > 13 => "arp_map" \in ready
  /\ step > 14 => "kb_in" \in ready
  /\ step \in 19..23 => "io_base" \in ready
  /\ step = 23 => "custom_data" \in ready
  /\ "start" \in ready => "custom_data" \in ready /\ "arp_map" \in ready
  /\ frames => "start" \in ready
  /\ flag => step > 6
  /\ stack # <<>> => step > 6
  /\ \A irq \in Lines : /\ handler[irq] = "keyboard" => step > 15
                        /\ handler[irq] = "card" => "io_base" \in ready

\* The functions found are those of the machine; the card found is one of
\* them, and set up as far as the boot has come.
Cards == {i \in DOMAIN machine.functions : IsCard(machine.functions[i])}
CardHas ==
  /\ \E i \in Cards : card.line = machine.functions[i].line
  /\ card.id # "none" /\ card.line \in Lines \ {8}

Found ==
  /\ step > 6 => pci_device = AllInserted(machine.functions)
  /\ card.id # "none" => CardHas
  /\ step \in 19..23 => CardHas
  /\ step \in 20..23 => handler[card.line] = "card"
  /\ step \in 22..23 => card.line \in enabled
  /\ step \in {24, 25} =>
       \/ step = 24 /\ Cards = {} /\ "custom_data" \notin ready
       \/ /\ CardHas /\ handler[card.line] = "card" /\ card.line \in enabled
          /\ "io_base" \in ready /\ "custom_data" \in ready
  /\ "custom_data" \in ready => step > 22

\* The pages after reset_paging.
Memory ==
  /\ step > 2 =>
       LET size == load_memory_size(machine.memory)
           mapEnd == MEM_MAP + (pages.count * 8 + 4095) \div 4096
       IN  /\ size < FOUR_GB \div 2
           /\ pages.first >= mapEnd /\ \h200 + pages.count \div 1024 =< MEM_MAP
           /\ pages.count =< ((size + 1023) \div 1024) * 1024
  /\ step \in 3..4 => /\ pages.count = page_table_count(load_memory_size(machine.memory)) * 1024
                      /\ pages.first = 1024 + page_table_count(load_memory_size(machine.memory)) * 2
  /\ "mem_map" \in ready => step > 2
  /\ halted # "no" => Cards = {} \/ load_memory_size(machine.memory) \notin 1025..FOUR_GB \div 2 - 1

\* Is the line that of a handler among the first k on the stack that has not
\* unmasked it?
Handling(i) == i \in DOMAIN stack /\ stack[i].stage # "exit"
Waiting(l, k) == \E i \in 1..k : Handling(i) /\ stack[i].irq = l

MaskIs(m, k) == \A l \in Lines \ {SPURIOUS} : l \in m <=> l \notin enabled \/ Waiting(l, k)

BootLine == CASE step = 10 -> CLOCK_IRQ [] step = 17 -> KEYBOARD_IRQ [] OTHER -> card.line

\* The mask is the nesting, now and as the handlers and the boot thread have
\* read it.
Masks ==
  /\ stack \in Seq(Frame)
  /\ is_in_ring0 = 1 + Len(stack) /\ halted # "restart"
  /\ step > 5 => MaskIs(mask, Len(stack))
  /\ \A k \in DOMAIN stack : stack[k].stage = "write" =>
       /\ stack[k].al \subseteq Register(stack[k].irq)
       /\ \A l \in Register(stack[k].irq) \ {SPURIOUS} :
            l \in stack[k].al <=> l \notin enabled \/ Waiting(l, k)
  /\ \A i \in DOMAIN stack : Handling(i) => stack[i].irq \in enabled \cup {SPURIOUS}
  /\ \A i, j \in DOMAIN stack :
       Handling(i) /\ Handling(j) /\ stack[i].irq = stack[j].irq => i = j \/ stack[i].irq = SPURIOUS
  /\ step \in {10, 17, 21} =>
       /\ al \subseteq EnableRegister(BootLine)
       /\ \A l \in EnableRegister(BootLine) \ {SPURIOUS} : l \in al <=> l \notin enabled

\* Masks with no interrupt being handled.
Quiet ==
  /\ is_in_ring0 = 1 /\ halted # "restart"
  /\ step > 5 => \A l \in Lines \ {SPURIOUS} : l \in mask <=> l \notin enabled
  /\ step \in {10, 17, 21} =>
       /\ al \subseteq EnableRegister(BootLine)
       /\ \A l \in EnableRegister(BootLine) \ {SPURIOUS} : l \in al <=> l \notin enabled

BootInv == BootTypeOK /\ Setup /\ Found /\ Memory /\ Masks

-----------------------------------------------------------------------------
(* Numbers.                                                                *)

\* A set of numbers that is not empty has a least one.
LEMMA LeastExists ==
  ASSUME NEW S, S \subseteq Nat, S # {}
  PROVE  \E x \in S : \A y \in S : x =< y
<1> DEFINE Below == OpToRel(<, Nat)
<1>1. IsWellFoundedOn(Below, Nat)
  BY NatLessThanWellFounded
<1> HIDE DEF Below
<1>2. \E x \in S : \A y \in S : ~(<<y, x>> \in Below)
  BY <1>1, WFMin
<1>3. PICK x \in S : \A y \in S : ~(<<y, x>> \in Below)
  BY <1>2
<1>4. \A y \in S : ~(y < x)
  BY <1>3 DEF Below, OpToRel
<1>5. \A y \in S : x =< y
  BY <1>4
<1>6. QED
  BY <1>5

\* Induction over the numbers.
LEMMA SetInduction ==
  ASSUME NEW T, 0 \in T, \A n \in Nat : n \in T => n + 1 \in T
  PROVE  Nat \subseteq T
<1> DEFINE U == Nat \ T
<1> SUFFICES ASSUME U # {} PROVE FALSE
  OBVIOUS
<1> HIDE DEF U
<1>1. U \subseteq Nat
  BY DEF U
<1>2. PICK x \in U : \A y \in U : x =< y
  BY <1>1, LeastExists
<1>3. x \in Nat /\ x \notin T /\ x # 0
  BY <1>2 DEF U
<1>4. x - 1 \in Nat /\ (x - 1) + 1 = x /\ ~(x =< x - 1)
  BY <1>3
<1>5. x - 1 \in U
  BY <1>3, <1>4 DEF U
<1>6. QED
  BY <1>2, <1>4, <1>5

Recurses(f, m, a, by) == \A i \in 0..m : f[i] = IF i = 0 THEN a ELSE by[i][f[i-1]]

\* A recursive function over 0..m exists.
LEMMA Recursion ==
  ASSUME NEW S, NEW m \in Nat, NEW a \in S, NEW by \in [1..m -> [S -> S]]
  PROVE  \E f \in [0..m -> S] : Recurses(f, m, a, by)
<1> DEFINE Upto(f, k) == \A i \in 0..k : f[i] = IF i = 0 THEN a ELSE by[i][f[i-1]]
           T == {k \in Nat : k > m \/ \E f \in [0..m -> S] : Upto(f, k)}
<1>1. 0 \in T
  <2> DEFINE f == [i \in 0..m |-> a]
  <2>1. f \in [0..m -> S] /\ Upto(f, 0)
    OBVIOUS
  <2>2. QED
    BY <2>1
<1>2. ASSUME NEW k \in Nat, k \in T PROVE k + 1 \in T
  <2>1. CASE k + 1 > m
    BY <2>1
  <2>2. CASE k + 1 <= m
    <3>1. PICK f \in [0..m -> S] : Upto(f, k)
      BY <1>2, <2>2
    <3> DEFINE g == [f EXCEPT ![k+1] = by[k+1][f[k]]]
    <3>2. k \in 0..m /\ k + 1 \in 1..m /\ k + 1 \in 0..m /\ (k + 1) - 1 = k /\ k + 1 # k
      BY <2>2
    <3>3. by[k+1][f[k]] \in S
      BY <3>1, <3>2
    <3>4. /\ g \in [0..m -> S] /\ g[k+1] = by[k+1][f[k]]
          /\ \A i \in 0..m : i # k + 1 => g[i] = f[i]
      BY <3>2, <3>3
    <3> HIDE DEF g
    <3>5. ASSUME NEW i \in 0..k+1
          PROVE  g[i] = IF i = 0 THEN a ELSE by[i][g[i-1]]
      <4>1. CASE i = k + 1
        BY <4>1, <3>2, <3>4
      <4>2. CASE i # k + 1
        <5>1. i \in 0..k /\ i \in 0..m /\ (i # 0 => i - 1 \in 0..m /\ i - 1 # k + 1)
          BY <4>2, <3>2
        <5>2. g[i] = f[i] /\ (i # 0 => g[i-1] = f[i-1])
          BY <5>1, <4>2, <3>4
        <5>3. QED
          BY <5>1, <5>2, <3>1
      <4>3. QED
        BY <4>1, <4>2
    <3>6. QED
      BY <3>4, <3>5
  <2>3. QED
    BY <2>1, <2>2
<1> HIDE DEF T
<1>3. m \in T
  BY <1>1, <1>2, SetInduction
<1>4. QED
  BY <1>3 DEF T, Recurses

-----------------------------------------------------------------------------
(* The boot thread's steps, by their positions in Order.                   *)

LEMMA OrderIs ==
  <<"init_tty", "reset_paging", "reset_gdt", "init_idt", "init_8259A",
    "pci_select_drivers", "pcibios_irq_init", "timer_handler", "timer_read",
    "timer_write", "init_rootfs", "thread_int", "arp_init", "kb_in", "keyboard_handler",
    "keyboard_read", "keyboard_write", "probe", "card_handler", "card_read",
    "card_write", "setup", "start", "handle_net", "idle">> = Order
<1>1. /\ register("timer") = <<"timer_handler", "timer_read", "timer_write">>
      /\ register("keyboard") = <<"keyboard_handler", "keyboard_read", "keyboard_write">>
      /\ register("card") = <<"card_handler", "card_read", "card_write">>
  BY DEF register
<1>2a. <<"init_tty", "reset_paging", "reset_gdt", "init_idt", "init_8259A",
       "pci_select_drivers", "pcibios_irq_init", "timer_handler", "timer_read",
       "timer_write">> = <<"init_tty", "reset_paging", "reset_gdt", "init_idt",
       "init_8259A", "pci_select_drivers", "pcibios_irq_init">> \o <<"timer_handler",
       "timer_read", "timer_write">>
  BY SMT
<1>2b. <<"init_tty", "reset_paging", "reset_gdt", "init_idt", "init_8259A",
       "pci_select_drivers", "pcibios_irq_init", "timer_handler", "timer_read",
       "timer_write">> = init_arch
  BY <1>2a, <1>1, Zenon DEF init_arch
<1>3a. <<"probe", "card_handler", "card_read", "card_write">> = <<"probe">> \o
       <<"card_handler", "card_read", "card_write">>
  BY SMT
<1>3b. <<"probe", "card_handler", "card_read", "card_write">> = <<"probe">> \o
       register("card")
  BY <1>3a, <1>1, Zenon
<1>4a. <<"probe", "card_handler", "card_read", "card_write", "setup", "start">> =
       <<"probe", "card_handler", "card_read", "card_write">> \o <<"setup", "start">>
  BY SMT
<1>4b. <<"probe", "card_handler", "card_read", "card_write", "setup", "start">> =
       am79c793_init
  BY <1>4a, <1>3b, Zenon DEF am79c793_init
<1>5a. <<"thread_int", "arp_init", "kb_in", "keyboard_handler", "keyboard_read",
       "keyboard_write">> = <<"thread_int", "arp_init", "kb_in">> \o
       <<"keyboard_handler", "keyboard_read", "keyboard_write">>
  BY SMT
<1>5b. <<"thread_int", "arp_init", "kb_in", "keyboard_handler", "keyboard_read",
       "keyboard_write">> = <<"thread_int", "arp_init", "kb_in">> \o
       register("keyboard")
  BY <1>5a, <1>1, Zenon
<1>6a. <<"thread_int", "arp_init", "kb_in", "keyboard_handler", "keyboard_read",
       "keyboard_write", "probe", "card_handler", "card_read", "card_write", "setup",
       "start">> = <<"thread_int", "arp_init", "kb_in", "keyboard_handler",
       "keyboard_read", "keyboard_write">> \o <<"probe", "card_handler", "card_read",
       "card_write", "setup", "start">>
  BY SMT
<1>6b. <<"thread_int", "arp_init", "kb_in", "keyboard_handler", "keyboard_read",
       "keyboard_write", "probe", "card_handler", "card_read", "card_write", "setup",
       "start">> = initcalls
  BY <1>6a, <1>4b, <1>5b, Zenon DEF initcalls
<1>7a. <<"init_tty", "reset_paging", "reset_gdt", "init_idt", "init_8259A",
       "pci_select_drivers", "pcibios_irq_init", "timer_handler", "timer_read",
       "timer_write", "init_rootfs">> = <<"init_tty", "reset_paging", "reset_gdt",
       "init_idt", "init_8259A", "pci_select_drivers", "pcibios_irq_init",
       "timer_handler", "timer_read", "timer_write">> \o <<"init_rootfs">>
  BY SMT
<1>7b. <<"init_tty", "reset_paging", "reset_gdt", "init_idt", "init_8259A",
       "pci_select_drivers", "pcibios_irq_init", "timer_handler", "timer_read",
       "timer_write", "init_rootfs">> = init_arch \o <<"init_rootfs">>
  BY <1>7a, <1>2b, Zenon
<1>8a. <<"init_tty", "reset_paging", "reset_gdt", "init_idt", "init_8259A",
       "pci_select_drivers", "pcibios_irq_init", "timer_handler", "timer_read",
       "timer_write", "init_rootfs", "thread_int", "arp_init", "kb_in",
       "keyboard_handler", "keyboard_read", "keyboard_write", "probe", "card_handler",
       "card_read", "card_write", "setup", "start">> = <<"init_tty", "reset_paging",
       "reset_gdt", "init_idt", "init_8259A", "pci_select_drivers", "pcibios_irq_init",
       "timer_handler", "timer_read", "timer_write", "init_rootfs">> \o <<"thread_int",
       "arp_init", "kb_in", "keyboard_handler", "keyboard_read", "keyboard_write",
       "probe", "card_handler", "card_read", "card_write", "setup", "start">>
  BY SMT
<1>8b. <<"init_tty", "reset_paging", "reset_gdt", "init_idt", "init_8259A",
       "pci_select_drivers", "pcibios_irq_init", "timer_handler", "timer_read",
       "timer_write", "init_rootfs", "thread_int", "arp_init", "kb_in",
       "keyboard_handler", "keyboard_read", "keyboard_write", "probe", "card_handler",
       "card_read", "card_write", "setup", "start">> = init_arch \o <<"init_rootfs">> \o
       initcalls
  BY <1>8a, <1>6b, <1>7b, Zenon
<1>9a. <<"init_tty", "reset_paging", "reset_gdt", "init_idt", "init_8259A",
       "pci_select_drivers", "pcibios_irq_init", "timer_handler", "timer_read",
       "timer_write", "init_rootfs", "thread_int", "arp_init", "kb_in",
       "keyboard_handler", "keyboard_read", "keyboard_write", "probe", "card_handler",
       "card_read", "card_write", "setup", "start", "handle_net", "idle">> =
       <<"init_tty", "reset_paging", "reset_gdt", "init_idt", "init_8259A",
       "pci_select_drivers", "pcibios_irq_init", "timer_handler", "timer_read",
       "timer_write", "init_rootfs", "thread_int", "arp_init", "kb_in",
       "keyboard_handler", "keyboard_read", "keyboard_write", "probe", "card_handler",
       "card_read", "card_write", "setup", "start">> \o <<"handle_net", "idle">>
  BY SMT
<1>9b. <<"init_tty", "reset_paging", "reset_gdt", "init_idt", "init_8259A",
       "pci_select_drivers", "pcibios_irq_init", "timer_handler", "timer_read",
       "timer_write", "init_rootfs", "thread_int", "arp_init", "kb_in",
       "keyboard_handler", "keyboard_read", "keyboard_write", "probe", "card_handler",
       "card_read", "card_write", "setup", "start", "handle_net", "idle">> = Order
  BY <1>9a, <1>8b, Zenon DEF Order
<1>10. QED
  BY <1>9b

LEMMA Steps ==
  /\ DOMAIN Order = 1..25 /\ Len(Order) = 25
  /\ step \in 1..25 =>
            /\ AtStep("init_tty") <=> step = 1 
            /\ AtStep("reset_paging") <=> step = 2
            /\ AtStep("reset_gdt") <=> step = 3
            /\ AtStep("init_idt") <=> step = 4
            /\ AtStep("init_8259A") <=> step = 5
            /\ AtStep("pci_select_drivers") <=> step = 6
            /\ AtStep("pcibios_irq_init") <=> step = 7
            /\ AtStep("init_rootfs") <=> step = 11
            /\ AtStep("thread_int") <=> step = 12
            /\ AtStep("arp_init") <=> step = 13
            /\ AtStep("kb_in") <=> step = 14
            /\ AtStep("probe") <=> step = 18
            /\ AtStep("setup") <=> step = 22
            /\ AtStep("start") <=> step = 23
            /\ AtStep("handle_net") <=> step = 24
            /\ AtStep("idle") <=> step = 25
            /\ Reached("pci_select_drivers") <=> step >= 6
BY OrderIs DEF AtStep, Reached

\* The position of each step of register(name).
At(name) == CASE name = "timer" -> 8 [] name = "keyboard" -> 15 [] name = "card" -> 19

LEMMA UserSteps ==
  ASSUME step \in 1..25, NEW name \in Users
  PROVE  /\ AtStep(register(name)[1]) <=> step = At(name)
         /\ AtStep(register(name)[2]) <=> step = At(name) + 1
         /\ AtStep(register(name)[3]) <=> step = At(name) + 2
<1>1. CASE name = "timer"
  BY <1>1, OrderIs DEF AtStep, register, At
<1>2. CASE name = "keyboard"
  BY <1>2, OrderIs DEF AtStep, register, At
<1>3. CASE name = "card"
  BY <1>3, OrderIs DEF AtStep, register, At
<1>4. QED
  BY <1>1, <1>2, <1>3 DEF Users

-----------------------------------------------------------------------------
(* The list of functions.                                                  *)

LEMMA PairFirst ==
  ASSUME NEW D, NEW a \in D, NEW b \in D, NEW u \in Seq(D)
  PROVE  /\ <<a, b>> \o u \in Seq(D) /\ Len(<<a, b>> \o u) = Len(u) + 2
         /\ (<<a, b>> \o u)[1] = a /\ (<<a, b>> \o u)[2] = b
         /\ \A i \in 1..Len(u) : (<<a, b>> \o u)[2 + i] = u[i]
OBVIOUS

LEMMA InsertIs ==
  ASSUME NEW D, NEW l \in Seq(D), NEW f \in D
  PROVE  insert(l, f) \in Seq(D) /\ ToSet(insert(l, f)) = ToSet(l) \cup {f}
<1>1. CASE l = <<>>
  <2>1. insert(l, f) = <<f>>
    BY <1>1 DEF insert
  <2>2. <<f>> \in Seq(D) /\ ToSet(<<f>>) = {f} /\ ToSet(l) = {}
    BY <1>1 DEF ToSet
  <2>3. QED
    BY <2>1, <2>2
<1>2. CASE l # <<>>
  <2> DEFINE r == insert(l, f)
  <2>1. Len(l) \in Nat \ {0} /\ Tail(l) \in Seq(D) /\ Len(Tail(l)) = Len(l) - 1 /\ Head(l) = l[1]
        /\ \A i \in 1..Len(l)-1 : Tail(l)[i] = l[i+1]
    BY <1>2
  <2>2. l[1] \in D /\ DOMAIN l = 1..Len(l)
    BY <2>1
  <2>3. r = <<l[1], f>> \o Tail(l)
    BY <1>2, <2>1 DEF insert
  <2> HIDE DEF r
  <2>4. /\ r \in Seq(D) /\ Len(r) = Len(Tail(l)) + 2 /\ r[1] = l[1] /\ r[2] = f
        /\ \A i \in 1..Len(Tail(l)) : r[2 + i] = Tail(l)[i]
    <3> DEFINE u == Tail(l)
    <3>1. u \in Seq(D) /\ r = <<l[1], f>> \o u
      BY <2>1, <2>3
    <3> HIDE DEF u
    <3>2. /\ r \in Seq(D) /\ Len(r) = Len(u) + 2 /\ r[1] = l[1] /\ r[2] = f
          /\ \A i \in 1..Len(u) : r[2 + i] = u[i]
      BY <2>2, <3>1, PairFirst
    <3>3. QED
      BY <3>2 DEF u
  <2>5. /\ r \in Seq(D) /\ Len(r) = Len(l) + 1 /\ r[1] = l[1] /\ r[2] = f
        /\ \A i \in 1..Len(l)-1 : r[2 + i] = Tail(l)[i]
    BY <2>1, <2>4
  <2>6. \A i \in 1..Len(r) : r[i] \in ToSet(l) \cup {f}
    <3>1. SUFFICES ASSUME NEW i \in 1..Len(r), i > 2 PROVE r[i] \in ToSet(l)
      BY <2>2, <2>5, <2>1 DEF ToSet
    <3>2. i - 2 \in 1..Len(l)-1 /\ 2 + (i - 2) = i /\ (i - 2) + 1 = i - 1 /\ i - 1 \in 1..Len(l)
      BY <3>1, <2>1, <2>5
    <3>3. r[i] = l[i - 1]
      BY <3>2, <2>5, <2>1
    <3>4. QED
      BY <3>2, <3>3, <2>2 DEF ToSet
  <2>7. f \in ToSet(r)
    <3>1. 2 \in DOMAIN r
      BY <2>1, <2>5
    <3>2. QED
      BY <3>1, <2>5 DEF ToSet
  <2>8. ASSUME NEW i \in 1..Len(l) PROVE l[i] \in ToSet(r)
    <3>1. CASE i = 1
      <4>1. 1 \in DOMAIN r
        BY <2>1, <2>5
      <4>2. QED
        BY <4>1, <3>1, <2>5 DEF ToSet
    <3>2. CASE i # 1
      <4>1. i - 1 \in 1..Len(l)-1 /\ 2 + (i - 1) = i + 1 /\ (i - 1) + 1 = i /\ i + 1 \in DOMAIN r
        BY <3>2, <2>1, <2>5
      <4>2. r[i + 1] = l[i]
        BY <4>1, <2>5, <2>1
      <4>3. QED
        BY <4>1, <4>2 DEF ToSet
    <3>3. QED
      BY <3>1, <3>2
  <2>9. DOMAIN r = 1..Len(r)
    BY <2>5
  <2>10. ToSet(r) = ToSet(l) \cup {f}
    BY <2>6, <2>7, <2>8, <2>9, <2>2 DEF ToSet
  <2>11. QED
    BY <2>5, <2>10 DEF r
<1>3. QED
  BY <1>1, <1>2

\* The list holds what the buses hold.
LEMMA AllAreInserted ==
  ASSUME NEW functions, Len(functions) \in Nat, NEW D,
         \A i \in 1..Len(functions) : pci_get_device_desc(functions[i]) \in D
  PROVE  /\ AllInserted(functions) \in Seq(D)
         /\ ToSet(AllInserted(functions)) =
              {pci_get_device_desc(functions[i]) : i \in 1..Len(functions)}
<1> DEFINE m == Len(functions)
           d(i) == pci_get_device_desc(functions[i])
           by == [i \in 1..m |-> [l \in Seq(D) |-> insert(l, d(i))]]
           list[n \in 0..Len(functions)] ==
             IF n = 0 THEN <<>> ELSE insert(list[n-1], pci_get_device_desc(functions[n]))
           Fits(f) == f = [n \in 0..m |-> IF n = 0 THEN <<>> ELSE insert(f[n-1], d(n))]
<1>1. AllInserted(functions) = list[m]
  BY DEF AllInserted
<1>2. by \in [1..m -> [Seq(D) -> Seq(D)]]
  <2>1. \A i \in 1..m, l \in Seq(D) : insert(l, d(i)) \in Seq(D)
    BY InsertIs
  <2>2. QED
    BY <2>1
<1>3. <<>> \in Seq(D) /\ ToSet(<<>>) = {}
  BY DEF ToSet
<1>4. m \in Nat /\ \A i \in 1..m : d(i) \in D
  OBVIOUS
<1>5. Fits(CHOOSE h : Fits(h)) => Fits(list)
  OBVIOUS
<1> HIDE DEF list, m, d, by
<1>6. PICK f \in [0..m -> Seq(D)] : Recurses(f, m, <<>>, by)
  BY <1>2, <1>3, <1>4, Recursion
<1>7. \A i \in 0..m : f[i] = IF i = 0 THEN <<>> ELSE insert(f[i-1], d(i))
  <2> TAKE i \in 0..m
  <2>1. CASE i = 0
    BY <2>1, <1>6 DEF Recurses
  <2>2. CASE i # 0
    <3>1. i \in 1..m /\ i - 1 \in 0..m
      BY <2>2, <1>4
    <3>2. f[i-1] \in Seq(D)
      BY <3>1, <1>6
    <3>3. by[i][f[i-1]] = insert(f[i-1], d(i))
      BY <3>1, <3>2 DEF by
    <3>4. QED
      BY <3>3, <2>2, <1>6 DEF Recurses
  <2>3. QED
    BY <2>1, <2>2
<1>8. Fits(f)
  BY <1>6, <1>7
<1>9. Fits(list)
  <2> HIDE DEF Fits
  <2>1. QED
    BY <1>5, <1>8
<1>10. \A i \in 0..m : list[i] = IF i = 0 THEN <<>> ELSE insert(list[i-1], d(i))
  BY <1>9
<1> HIDE DEF Fits
<1> DEFINE Holds(i) == list[i] \in Seq(D) /\ ToSet(list[i]) = {d(j) : j \in 1..i}
           T == {k \in Nat : k <= m => Holds(k)}
<1>11. 0 \in T
  <2>1. list[0] = <<>>
    BY <1>4, <1>10
  <2>2. {d(j) : j \in 1..0} = {}
    OBVIOUS
  <2>3. QED
    BY <2>1, <2>2, <1>3
<1>12. ASSUME NEW k \in Nat, k \in T PROVE k + 1 \in T
  <2>1. ASSUME k + 1 <= m PROVE Holds(k + 1)
    <3>1. k + 1 \in 0..m /\ k + 1 # 0 /\ (k + 1) - 1 = k /\ k <= m /\ k + 1 \in 1..m
      BY <2>1, <1>4
    <3>2. Holds(k) /\ d(k + 1) \in D
      BY <3>1, <1>12, <1>4
    <3>3. list[k + 1] = insert(list[k], d(k + 1))
      BY <3>1, <1>10
    <3>4. list[k + 1] \in Seq(D) /\ ToSet(list[k + 1]) = ToSet(list[k]) \cup {d(k + 1)}
      BY <3>2, <3>3, InsertIs
    <3>5. {d(j) : j \in 1..k+1} = {d(j) : j \in 1..k} \cup {d(k + 1)}
      <4>1. 1..k+1 = (1..k) \cup {k + 1}
        OBVIOUS
      <4>2. QED
        BY <4>1
    <3>6. QED
      BY <3>2, <3>4, <3>5
  <2>2. QED
    BY <2>1
<1>13. m \in T
  <2> HIDE DEF T
  <2>1. QED
    BY <1>4, <1>11, <1>12, SetInduction
<1>14. QED
  BY <1>1, <1>13, <1>4 DEF d, m

LEMMA DescIs ==
  ASSUME NEW f \in [id : STRING, line : Nat, header : Nat, bars : SUBSET {"io", "mem", "none"}]
  PROVE  LET d == pci_get_device_desc(f)
         IN  /\ d.id = f.id /\ d.line = f.line
             /\ f.header = 0 => d.bars = f.bars \ {"none"}
BY DEF pci_get_device_desc

\* The card is found if there is one.
LEMMA FindDevice ==
  ASSUME machine \in Machines, pci_device = AllInserted(machine.functions)
  PROVE  /\ pci_find_device = 0 => Cards = {}
         /\ pci_find_device # 0 =>
              LET c == pci_device[pci_find_device]
              IN  /\ \E i \in Cards : c.line = machine.functions[i].line
                  /\ c.id # "none" /\ c.line \in Lines \ {8} /\ "io" \in c.bars
<1> DEFINE fs == machine.functions
           F == [id : STRING, line : Nat, header : Nat, bars : SUBSET {"io", "mem", "none"}]
           m == Len(fs)
           D == {pci_get_device_desc(fs[i]) : i \in 1..m}
           I == {i \in 1..Len(pci_device) : IsCard(pci_device[i])}
<1>1. IsMachine(machine)
  BY BootAssumption
<1>2. fs \in Seq(F)
  BY <1>1 DEF IsMachine
<1>3. m \in Nat /\ DOMAIN fs = 1..m /\ \A i \in 1..m : fs[i] \in F
  <2> HIDE DEF fs, F
  <2>1. QED
    BY <1>2
<1>4. \A i \in 1..m : IsCard(fs[i]) =>
        fs[i].line \in Lines \ {8} /\ fs[i].header = 0 /\ "io" \in fs[i].bars
  <2>1. \A i \in 1..m : fs[i] \in ToSet(fs)
    BY <1>3 DEF ToSet
  <2>2. QED
    BY <2>1, <1>1 DEF IsMachine
<1>5. \A i \in 1..m : /\ pci_get_device_desc(fs[i]).id = fs[i].id
                      /\ pci_get_device_desc(fs[i]).line = fs[i].line
                      /\ fs[i].header = 0 => pci_get_device_desc(fs[i]).bars = fs[i].bars \ {"none"}
  <2> TAKE i \in 1..m
  <2>1. fs[i] \in F
    BY <1>3
  <2> HIDE DEF fs
  <2>2. QED
    BY <2>1, DescIs
<1>6. Cards = {i \in 1..m : IsCard(fs[i])}
  BY <1>3 DEF Cards
<1>7. pci_device \in Seq(D) /\ ToSet(pci_device) = D
  <2> HIDE DEF m
  <2>1. \A i \in 1..m : pci_get_device_desc(fs[i]) \in D
    OBVIOUS
  <2>2. QED
    BY <2>1, <1>3, AllAreInserted DEF m
<1>8. pci_find_device = IF I # {} THEN Min(I) ELSE 0
  BY DEF pci_find_device, SelectInSeq
<1> HIDE DEF fs, F, m, D, I
<1>9. Len(pci_device) \in Nat /\ DOMAIN pci_device = 1..Len(pci_device)
  BY <1>7
<1>10. ASSUME I = {} PROVE Cards = {}
  <2>1. SUFFICES ASSUME NEW i \in 1..m, IsCard(fs[i]) PROVE FALSE
    BY <1>6
  <2>2. pci_get_device_desc(fs[i]) \in ToSet(pci_device)
    BY <2>1, <1>7 DEF D
  <2>3. PICK j \in 1..Len(pci_device) : pci_device[j] = pci_get_device_desc(fs[i])
    BY <2>2, <1>9 DEF ToSet
  <2>4. IsCard(pci_device[j])
    BY <2>1, <2>3, <1>5 DEF IsCard
  <2>5. QED
    BY <2>4, <1>10 DEF I
<1>11. ASSUME I # {} PROVE Min(I) \in I
  <2>1. I \subseteq Nat
    BY <1>9 DEF I
  <2>2. \E x \in I : \A y \in I : x =< y
    BY <2>1, <1>11, LeastExists
  <2>3. QED
    BY <2>2 DEF Min
<1>12. ASSUME pci_find_device # 0
       PROVE  LET c == pci_device[pci_find_device]
              IN  /\ \E i \in Cards : c.line = machine.functions[i].line
                  /\ c.id # "none" /\ c.line \in Lines \ {8} /\ "io" \in c.bars
  <2> DEFINE k == pci_find_device
  <2>1. k \in I
    BY <1>8, <1>11, <1>12
  <2>2. k \in 1..Len(pci_device) /\ IsCard(pci_device[k])
    BY <2>1 DEF I
  <2>3. pci_device[k] \in D
    BY <2>2, <1>7
  <2>4. PICK i \in 1..m : pci_device[k] = pci_get_device_desc(fs[i])
    BY <2>3 DEF D
  <2>5. IsCard(fs[i]) /\ i \in Cards
    BY <2>2, <2>4, <1>5, <1>6 DEF IsCard
  <2>6. /\ pci_device[k].line = fs[i].line /\ pci_device[k].id # "none"
        /\ fs[i].line \in Lines \ {8} /\ "io" \in pci_device[k].bars
    BY <2>2, <2>4, <2>5, <1>4, <1>5 DEF IsCard
  <2>7. QED
    BY <2>5, <2>6 DEF fs
<1>13. I = {} => pci_find_device = 0
  BY <1>8
<1>14. I # {} => pci_find_device # 0
  BY <1>8, <1>11 DEF I
<1>15. QED
  BY <1>10, <1>12, <1>14

-----------------------------------------------------------------------------
(* Memory.                                                                 *)

LEMMA FourGB == FOUR_GB \in Nat \ {0} /\ FOUR_GB \div 2 \in Nat
BY SMT DEF FOUR_GB

LEMMA MemorySize ==
  ASSUME machine \in Machines
  PROVE  load_memory_size(machine.memory) \in 0..FOUR_GB-1
<1> DEFINE rs == {x \in ToSet(machine.memory) : x.free}
           ends == {End(r) : r \in rs} \cup {0}
           down == {FOUR_GB - e : e \in ends}
<1>1. machine.memory \in Seq([base : Nat, length : Nat, free : BOOLEAN])
  BY BootAssumption DEF IsMachine
<1>2. \A r \in rs : r.base \in Nat /\ r.length \in Nat
  <2> DEFINE s == machine.memory
             R == [base : Nat, length : Nat, free : BOOLEAN]
  <2>1. \A i \in DOMAIN s : s[i] \in R
    <3> HIDE DEF s, R
    <3>1. s \in Seq(R)
      BY <1>1 DEF s, R
    <3>2. QED
      BY <3>1
  <2>2. QED
    BY <2>1 DEF ToSet
<1> HIDE DEF rs
<1>3. \A r \in rs : End(r) \in 0..FOUR_GB-1
  BY <1>2, FourGB DEF End
<1>4. ends \subseteq 0..FOUR_GB-1 /\ 0 \in ends
  BY <1>3, FourGB
<1>5. load_memory_size(machine.memory) = CHOOSE e \in ends : \A f \in ends : f =< e
  BY DEF load_memory_size, rs
<1> HIDE DEF ends
<1>6. down \subseteq Nat /\ down # {}
  BY <1>4, FourGB
<1>7. \E x \in down : \A y \in down : x =< y
  <2> HIDE DEF down
  <2>1. QED
    BY <1>6, LeastExists
<1>8. PICK e \in ends : \A f \in ends : FOUR_GB - e =< FOUR_GB - f
  BY <1>7
<1>9. \A f \in ends : f =< e
  BY <1>4, <1>8, FourGB
<1>10. QED
  BY <1>4, <1>5, <1>9

LEMMA PagesAre ==
  ASSUME NEW size \in 0..FOUR_GB \div 2 - 1
  PROVE  LET tables == page_table_count(size)
         IN  /\ tables \in 0..224
             /\ tables * 1024 =< ((size + 1023) \div 1024) * 1024
             /\ size > 1024 => tables > 1
BY FourGB, SMT DEF page_table_count, HIGH_MEMORY

-----------------------------------------------------------------------------
(* The boot thread: each step keeps the invariant.                         *)

LEMMA QuietIs ==
  /\ stack = <<>> => (Masks <=> Quiet)
  /\ (stack = <<>>)' => (Masks' <=> Quiet')
<1>1. <<>> \in Seq(Frame) /\ Len(<<>>) = 0 /\ DOMAIN <<>> = {} /\ 1..0 = {}
  OBVIOUS
<1>2. stack = <<>> => (Masks <=> Quiet)
  BY <1>1 DEF Masks, Quiet, MaskIs, Waiting, Handling
<1>3. (stack = <<>>)' => (Masks' <=> Quiet')
  BY <1>1 DEF Masks, Quiet, MaskIs, Waiting, Handling
<1>4. QED
  BY <1>2, <1>3

LEMMA StepType == BootTypeOK => step \in 1..25 /\ DOMAIN Order = 1..25
BY Steps DEF BootTypeOK

LEMMA SetUpInv ==
  ASSUME BootInv, halted = "no", stack = <<>>, SetUp
  PROVE  BootInv'
<1>1. PICK name \in {"init_tty", "reset_gdt", "init_rootfs", "thread_int", "arp_init", "kb_in",
                     "setup", "start"} : AtStep(name) /\ ready' = ready \cup Sets(name)
  BY DEF SetUp
<1>2. /\ step' = step + 1 /\ step \in 1..25
      /\ UNCHANGED <<machine, stack, is_in_ring0, frames, al, pages, pci_device, card,
                     pirq_penalty, mask, handler, flag, halted, enabled>>
  BY StepType DEF SetUp, Goes, BootInv, found
<1>3. \/ step = 1 /\ Sets(name) = {"console"}
      \/ step = 3 /\ Sets(name) = {"reset_gdt"}
      \/ step = 11 /\ Sets(name) = {"init_rootfs"}
      \/ step = 12 /\ Sets(name) = {"thread_int"}
      \/ step = 13 /\ Sets(name) = {"arp_map"}
      \/ step = 14 /\ Sets(name) = {"kb_in"}
      \/ step = 22 /\ Sets(name) = {"custom_data"}
      \/ step = 23 /\ Sets(name) = {"start"}
  BY <1>1, <1>2, Steps DEF Sets
<1>4. BootTypeOK'
  <2>1. step' \in DOMAIN Order
    BY <1>2, <1>3, StepType DEF BootInv
  <2>2. QED
    BY <1>2, <2>1 DEF BootTypeOK, BootInv
<1>5. Setup'
  BY <1>1, <1>2, <1>3 DEF Setup, BootInv
<1>6. Found'
  BY <1>1, <1>2, <1>3 DEF Found, CardHas, Cards, Setup, BootInv
<1>7. Memory'
  BY <1>1, <1>2, <1>3 DEF Memory, Cards, BootInv
<1>8. Masks'
  BY <1>2, <1>3, QuietIs DEF Quiet, BootLine, BootInv
<1>9. QED
  BY <1>4, <1>5, <1>6, <1>7, <1>8 DEF BootInv

LEMMA HandleNetInv ==
  ASSUME BootInv, halted = "no", stack = <<>>, handle_net
  PROVE  BootInv'
<1>1. step = 24
  BY StepType, Steps DEF handle_net, BootInv
<1>2. CASE "custom_data" \notin ready
  <2>1. /\ halted' = "wild"
        /\ UNCHANGED <<machine, step, al, ready, pages, pci_device, card, pirq_penalty, mask,
                       handler, flag, stack, is_in_ring0, frames, enabled>>
    BY <1>2 DEF handle_net, Stops, found, interrupts
  <2>2. Cards = {}
    BY <1>1, <1>2 DEF Found, BootInv
  <2>3. BootTypeOK' /\ Setup' /\ Found'
    BY <2>1 DEF BootTypeOK, Setup, Found, CardHas, Cards, BootInv
  <2>4. Memory'
    BY <2>1, <2>2 DEF Memory, Cards, BootInv
  <2>5. Masks'
    BY <2>1, QuietIs DEF Quiet, BootLine, BootInv
  <2>6. QED
    BY <2>3, <2>4, <2>5 DEF BootInv
<1>3. CASE "custom_data" \in ready
  <2>1. /\ step' = 25
        /\ UNCHANGED <<machine, stack, is_in_ring0, frames, al, ready, pages, pci_device, card,
                       pirq_penalty, mask, handler, flag, halted, enabled>>
    BY <1>1, <1>3 DEF handle_net, Goes, found
  <2>2. BootTypeOK'
    BY <2>1, Steps DEF BootTypeOK, BootInv
  <2>3. Setup' /\ Found' /\ Memory'
    BY <1>1, <1>3, <2>1 DEF Setup, Found, CardHas, Cards, Memory, BootInv
  <2>4. Masks'
    BY <1>1, <2>1, QuietIs DEF Quiet, BootLine, BootInv
  <2>5. QED
    BY <2>2, <2>3, <2>4 DEF BootInv
<1>4. QED
  BY <1>2, <1>3

LEMMA ResetPagingInv ==
  ASSUME BootInv, halted = "no", stack = <<>>, reset_paging
  PROVE  BootInv'
<1> DEFINE size == load_memory_size(machine.memory)
           tables == page_table_count(size)
<1>1. step = 2 /\ machine \in Machines
  BY StepType, Steps DEF reset_paging, BootInv, BootTypeOK
<1>2. size \in 0..FOUR_GB-1
  BY <1>1, MemorySize
<1>3. CASE size >= FOUR_GB \div 2
  <2>1. /\ halted' = "wild"
        /\ UNCHANGED <<machine, step, al, ready, pages, pci_device, card, pirq_penalty, mask,
                       handler, flag, stack, is_in_ring0, frames, enabled>>
    BY <1>3 DEF reset_paging, Stops, found, interrupts
  <2>2. size \notin 1025..FOUR_GB \div 2 - 1
    <3> HIDE DEF size
    <3>1. QED
      BY <1>2, <1>3, FourGB
  <2>3. BootTypeOK' /\ Setup' /\ Found'
    BY <2>1 DEF BootTypeOK, Setup, Found, CardHas, Cards, BootInv
  <2>4. Memory'
    BY <1>1, <2>1, <2>2 DEF Memory, Cards, BootInv
  <2>5. Masks'
    BY <2>1, QuietIs DEF Quiet, BootLine, BootInv
  <2>6. QED
    BY <2>3, <2>4, <2>5 DEF BootInv
<1>4. CASE ~(size >= FOUR_GB \div 2)
  <2>1. /\ step' = 3 /\ ready' = ready \cup {"mem_map"}
        /\ pages' = [count |-> tables * 1024, first |-> 1024 + tables * 2]
        /\ UNCHANGED <<machine, stack, is_in_ring0, frames, al, pci_device, card, pirq_penalty,
                       mask, handler, flag, halted, enabled>>
    BY <1>1, <1>4 DEF reset_paging, Goes
  <2>2. /\ tables \in 0..224 /\ size < FOUR_GB \div 2
        /\ tables * 1024 =< ((size + 1023) \div 1024) * 1024
    <3> HIDE DEF size
    <3>1. size \in 0..FOUR_GB \div 2 - 1
      BY <1>2, <1>4, FourGB
    <3>2. QED
      BY <3>1, FourGB, PagesAre
  <2>3. /\ pages'.count = tables * 1024 /\ pages'.first = 1024 + tables * 2
        /\ UNCHANGED size
    BY <2>1
  <2> HIDE DEF tables, size
  <2>4. BootTypeOK'
    <3>1. step' \in DOMAIN Order
      BY <2>1, StepType DEF BootInv
    <3>2. pages' \in [count : Nat, first : Nat]
      BY <2>1, <2>2
    <3>3. QED
      BY <2>1, <3>1, <3>2 DEF BootTypeOK, BootInv
  <2>5. Setup' /\ Found'
    BY <1>1, <2>1 DEF Setup, Found, CardHas, Cards, BootInv
  <2>6. Memory'
    <3>1. /\ pages'.first >= MEM_MAP + (pages'.count * 8 + 4095) \div 4096
          /\ \h200 + pages'.count \div 1024 =< MEM_MAP
      BY <2>2, <2>3, SMT DEF MEM_MAP
    <3>2. /\ load_memory_size(machine'.memory) = size
          /\ pages'.count = page_table_count(size) * 1024
          /\ pages'.first = 1024 + page_table_count(size) * 2
      BY <2>1, <2>3 DEF size, tables
    <3>3. halted' = "no" /\ step' = 3
      BY <2>1
    <3>4. pages'.count =< ((size + 1023) \div 1024) * 1024 /\ size < FOUR_GB \div 2
      BY <2>2, <2>3
    <3>5. QED
      BY <3>1, <3>2, <3>3, <3>4 DEF Memory
  <2>7. Masks'
    BY <1>1, <2>1, QuietIs DEF Quiet, BootLine, BootInv
  <2>8. QED
    BY <2>4, <2>5, <2>6, <2>7 DEF BootInv
<1>5. QED
  BY <1>3, <1>4

LEMMA InitIdtInv ==
  ASSUME BootInv, halted = "no", stack = <<>>, init_idt
  PROVE  BootInv'
<1> DEFINE size == load_memory_size(machine.memory)
           tables == page_table_count(size)
<1>1. step = 4 /\ machine \in Machines
  BY StepType, Steps DEF init_idt, BootInv, BootTypeOK
<1>2. /\ size \in 0..FOUR_GB \div 2 - 1
      /\ pages.count = tables * 1024 /\ pages.first = 1024 + tables * 2
  <2>1. size \in 0..FOUR_GB-1
    BY <1>1, MemorySize
  <2>2. size < FOUR_GB \div 2
    BY <1>1 DEF Memory, BootInv
  <2>3. pages.count = tables * 1024 /\ pages.first = 1024 + tables * 2
    BY <1>1 DEF Memory, BootInv
  <2> HIDE DEF size, tables
  <2>4. QED
    BY <2>1, <2>2, <2>3, FourGB
<1>3. tables \in 0..224 /\ (size > 1024 => tables > 1)
  <2> HIDE DEF size
  <2>1. QED
    BY <1>2, PagesAre
<1>4. CASE pages.first + 4 > pages.count
  <2>1. /\ halted' = "panic"
        /\ UNCHANGED <<machine, step, al, ready, pages, pci_device, card, pirq_penalty, mask,
                       handler, flag, stack, is_in_ring0, frames, enabled>>
    BY <1>4 DEF init_idt, Stops, found, interrupts
  <2>2. size \notin 1025..FOUR_GB \div 2 - 1
    <3> HIDE DEF size, tables
    <3>1. QED
      BY <1>2, <1>3, <1>4, FourGB
  <2>3. BootTypeOK' /\ Setup' /\ Found'
    BY <2>1 DEF BootTypeOK, Setup, Found, CardHas, Cards, BootInv
  <2>4. Memory'
    BY <1>1, <2>1, <2>2 DEF Memory, Cards, BootInv
  <2>5. Masks'
    BY <2>1, QuietIs DEF Quiet, BootLine, BootInv
  <2>6. QED
    BY <2>3, <2>4, <2>5 DEF BootInv
<1>5. CASE ~(pages.first + 4 > pages.count)
  <2>1. /\ step' = 5 /\ ready' = ready \cup {"idt"}
        /\ pages' = [pages EXCEPT !.first = @ + 4]
        /\ UNCHANGED <<machine, stack, is_in_ring0, frames, al, pci_device, card, pirq_penalty,
                       mask, handler, flag, halted, enabled>>
    BY <1>1, <1>5 DEF init_idt, Goes
  <2>2. pages \in [count : Nat, first : Nat]
    BY DEF BootTypeOK, BootInv
  <2>3. /\ pages'.count = pages.count /\ pages'.first = pages.first + 4
        /\ pages' \in [count : Nat, first : Nat]
    BY <2>1, <2>2
  <2>4. BootTypeOK'
    BY <1>1, <2>1, <2>3, StepType DEF BootTypeOK, BootInv
  <2>5. Setup' /\ Found'
    BY <1>1, <2>1 DEF Setup, Found, CardHas, Cards, BootInv
  <2>6. Memory'
    <3>1. /\ pages.first >= MEM_MAP + (pages.count * 8 + 4095) \div 4096
          /\ \h200 + pages.count \div 1024 =< MEM_MAP /\ size < FOUR_GB \div 2
          /\ pages.count =< ((size + 1023) \div 1024) * 1024
      BY <1>1 DEF Memory, BootInv
    <3>2. pages'.first >= MEM_MAP + (pages'.count * 8 + 4095) \div 4096
      <4> HIDE DEF size, tables
      <4>1. QED
        BY <1>2, <1>3, <2>3, SMT DEF MEM_MAP
    <3>3. halted' = "no" /\ step' = 5 /\ load_memory_size(machine'.memory) = size
      BY <2>1
    <3> HIDE DEF size, tables
    <3>4. QED
      BY <3>1, <3>2, <3>3, <2>3 DEF Memory
  <2>7. Masks'
    BY <1>1, <2>1, QuietIs DEF Quiet, BootLine, BootInv
  <2>8. QED
    BY <2>4, <2>5, <2>6, <2>7 DEF BootInv
<1>6. QED
  BY <1>4, <1>5

LEMMA SelectDriversInv ==
  ASSUME BootInv, halted = "no", stack = <<>>, pci_select_drivers
  PROVE  BootInv'
<1>1. step = 6
  BY StepType, Steps DEF pci_select_drivers, BootInv, BootTypeOK
<1>2. /\ step' = 7 /\ pci_device' = AllInserted(machine.functions) /\ flag' = TRUE
      /\ UNCHANGED <<machine, stack, is_in_ring0, frames, al, ready, pages, card, pirq_penalty,
                     mask, handler, halted, enabled>>
  BY <1>1 DEF pci_select_drivers, Goes
<1>3. BootTypeOK'
  BY <1>1, <1>2, StepType DEF BootTypeOK, BootInv
<1>4. Setup' /\ Found' /\ Memory'
  BY <1>1, <1>2 DEF Setup, Found, CardHas, Cards, Memory, BootInv
<1>5. Masks'
  BY <1>1, <1>2, QuietIs DEF Quiet, BootLine, BootInv
<1>6. QED
  BY <1>3, <1>4, <1>5 DEF BootInv

LEMMA IrqInitInv ==
  ASSUME BootInv, halted = "no", stack = <<>>, pcibios_irq_init
  PROVE  BootInv'
<1>1. step = 7
  BY StepType, Steps DEF pcibios_irq_init, BootInv, BootTypeOK
<1>2. /\ step' = 8
      /\ UNCHANGED <<machine, stack, is_in_ring0, frames, al, ready, pages, pci_device, card,
                     mask, handler, flag, halted, enabled>>
  BY <1>1 DEF pcibios_irq_init, Goes
<1>3. pirq_penalty' \in [Lines -> Nat]
  <2> DEFINE tables == pirq_find_routing_table(machine.tables)
  <2>1. \/ pirq_penalty' = [i \in Lines |-> pirq_penalty[i]
                              + (IF i \in tables[1].exclusive THEN 0 ELSE 100)]
        \/ pirq_penalty' = pirq_penalty
    BY DEF pcibios_irq_init
  <2> HIDE DEF tables
  <2>2. pirq_penalty \in [Lines -> Nat]
    BY DEF BootTypeOK, BootInv
  <2>3. \A i \in Lines : pirq_penalty[i] + (IF i \in tables[1].exclusive THEN 0 ELSE 100) \in Nat
    BY <2>2
  <2>4. QED
    BY <2>1, <2>2, <2>3
<1>4. BootTypeOK'
  BY <1>1, <1>2, <1>3, StepType DEF BootTypeOK, BootInv
<1>5. Setup' /\ Found' /\ Memory'
  BY <1>1, <1>2 DEF Setup, Found, CardHas, Cards, Memory, BootInv
<1>6. Masks'
  BY <1>1, <1>2, QuietIs DEF Quiet, BootLine, BootInv
<1>7. QED
  BY <1>4, <1>5, <1>6 DEF BootInv

LEMMA ProbeInv ==
  ASSUME BootInv, halted = "no", stack = <<>>, am79c793_probe
  PROVE  BootInv'
<1>1. step = 18 /\ machine \in Machines /\ pci_device = AllInserted(machine.functions)
      /\ "custom_data" \notin ready
  BY StepType, Steps DEF am79c793_probe, BootInv, BootTypeOK, Found
<1>2. /\ UNCHANGED <<machine, stack, is_in_ring0, frames, al, pages, pci_device,
                     pirq_penalty, mask, handler, flag, halted, enabled>>
  BY DEF am79c793_probe, Goes
<1>3. CASE pci_find_device = 0
  <2>1. step' = 24 /\ card' = card /\ ready' = ready
    BY <1>3, Steps DEF am79c793_probe
  <2>2. Cards = {}
    BY <1>1, <1>3, FindDevice
  <2>3. BootTypeOK'
    BY <1>1, <1>2, <2>1, StepType DEF BootTypeOK, BootInv
  <2>4. Setup' /\ Found' /\ Memory'
    BY <1>1, <1>2, <2>1, <2>2 DEF Setup, Found, CardHas, Cards, Memory, BootInv
  <2>5. Masks'
    BY <1>1, <1>2, <2>1, QuietIs DEF Quiet, BootLine, BootInv
  <2>6. QED
    BY <2>3, <2>4, <2>5 DEF BootInv
<1>4. CASE pci_find_device # 0
  <2>1. step' = 19 /\ card' = pci_device[pci_find_device]
        /\ ready' = ready \cup (IF "io" \in card'.bars THEN {"io_base"} ELSE {})
    BY <1>1, <1>4 DEF am79c793_probe, Goes
  <2>2. /\ \E i \in Cards : card'.line = machine.functions[i].line
        /\ card'.id # "none" /\ card'.line \in Lines \ {8} /\ "io" \in card'.bars
    BY <1>1, <1>4, <2>1, FindDevice
  <2>3. CardHas'
    BY <1>2, <2>2 DEF CardHas, Cards
  <2>4. ready' = ready \cup {"io_base"}
    BY <2>1, <2>2
  <2>5. BootTypeOK'
    BY <1>1, <1>2, <2>1, StepType DEF BootTypeOK, BootInv
  <2>6. Setup'
    BY <1>1, <1>2, <2>1, <2>4 DEF Setup, BootInv
  <2>7. Found'
    BY <1>1, <1>2, <2>1, <2>3, <2>4 DEF Found, BootInv
  <2>8. Memory'
    BY <1>1, <1>2, <2>1, <2>4 DEF Memory, Cards, BootInv
  <2>9. Masks'
    BY <1>1, <1>2, <2>1, QuietIs DEF Quiet, BootLine, BootInv
  <2>10. QED
    BY <2>5, <2>6, <2>7, <2>8, <2>9 DEF BootInv
<1>5. QED
  BY <1>3, <1>4

LEMMA Init8259AInv ==
  ASSUME BootInv, halted = "no", stack = <<>>, init_8259A
  PROVE  BootInv'
<1>1. step = 5
  BY StepType, Steps DEF init_8259A, BootInv
<1>2. /\ step' = 6 /\ mask' = Lines \ {CASCADE_IRQ} /\ enabled' = {CASCADE_IRQ}
      /\ ready' = ready \cup {"gates"}
      /\ UNCHANGED <<machine, stack, is_in_ring0, frames, al, pages, pci_device, card,
                     pirq_penalty, handler, flag, halted>>
  BY <1>1 DEF init_8259A, Goes, found
<1>3. CASCADE_IRQ \in Lines
  BY DEF CASCADE_IRQ, Lines
<1>4. BootTypeOK'
  BY <1>1, <1>2, <1>3, StepType DEF BootTypeOK, BootInv
<1>5. Setup' /\ Found' /\ Memory'
  BY <1>1, <1>2 DEF Setup, Found, CardHas, Cards, Memory, BootInv
<1>6. Masks'
  BY <1>1, <1>2, <1>3, QuietIs DEF Quiet, BootLine, BootInv
<1>7. QED
  BY <1>4, <1>5, <1>6 DEF BootInv

\* What register_irq and enable_8259A_irq are called for.
LEMMA LineIs ==
  ASSUME BootInv, NEW name \in Users, step \in At(name)..At(name)+2
  PROVE  /\ LineOf(name) \in Lines \ {8}
         /\ name = "card" => CardHas /\ LineOf(name) = card.line
         /\ step \in 8..21
<1>1. name = "card" => CardHas
  BY DEF At, Found, BootInv
<1>2. QED
  BY <1>1 DEF LineOf, Users, CardHas, CLOCK_IRQ, KEYBOARD_IRQ, Lines, At

LEMMA RegisterInv ==
  ASSUME BootInv, halted = "no", stack = <<>>, NEW name \in Users, register_irq(name)
  PROVE  BootInv'
<1>1. step = At(name)
  BY StepType, UserSteps DEF register_irq, BootInv
<1>2. At(name) \in Nat /\ (name = "timer" => step = 8) /\ (name = "keyboard" => step = 15)
      /\ (name = "card" => step = 19) /\ name \in {"timer", "keyboard", "card"}
  BY <1>1 DEF At, Users
<1>3. /\ LineOf(name) \in Lines
      /\ name = "card" => CardHas /\ LineOf(name) = card.line
  <2>1. step \in At(name)..At(name)+2
    BY <1>1, <1>2
  <2>2. QED
    BY <2>1, LineIs
<1>4. /\ step' = step + 1 /\ handler' = [handler EXCEPT ![LineOf(name)] = name]
      /\ UNCHANGED <<machine, stack, is_in_ring0, frames, al, ready, pages, pci_device, card,
                     pirq_penalty, mask, flag, halted, enabled>>
  BY DEF register_irq, Goes, found
<1>5. handler \in [Lines -> Users \cup {"spurious"}]
  BY DEF BootTypeOK, BootInv
<1>6. /\ handler' \in [Lines -> Users \cup {"spurious"}]
      /\ handler'[LineOf(name)] = name
      /\ \A l \in Lines : l # LineOf(name) => handler'[l] = handler[l]
  BY <1>3, <1>4, <1>5
<1>7. step \in {8, 15, 19}
  BY <1>2
<1>8. BootTypeOK'
  <2>1. step' \in DOMAIN Order /\ DOMAIN Order = 1..25
    BY <1>7, <1>4, StepType DEF BootInv
  <2>2. QED
    BY <2>1, <1>7, <1>4, <1>6 DEF BootTypeOK, BootInv
<1>9. Setup'
  <2>1. ASSUME NEW irq \in Lines
        PROVE  /\ handler'[irq] = "keyboard" => step' > 15
               /\ handler'[irq] = "card" => "io_base" \in ready'
    <3>1. CASE irq = LineOf(name)
      BY <3>1, <1>2, <1>4, <1>6 DEF Setup, BootInv
    <3>2. CASE irq # LineOf(name)
      BY <3>2, <1>4, <1>6, <1>7 DEF Setup, BootInv
    <3>3. QED
      BY <3>1, <3>2
  <2>2. QED
    BY <2>1, <1>4, <1>7 DEF Setup, BootInv
<1>10. Found'
  BY <1>2, <1>3, <1>4, <1>6, <1>7 DEF Found, CardHas, Cards, BootInv
<1>11. Memory'
  BY <1>4, <1>7 DEF Memory, Cards, BootInv
<1>12. Masks'
  BY <1>4, <1>7, QuietIs DEF Quiet, BootInv
<1>13. QED
  BY <1>8, <1>9, <1>10, <1>11, <1>12 DEF BootInv

LEMMA EnableReadInv ==
  ASSUME BootInv, halted = "no", stack = <<>>, NEW name \in Users, EnableRead(name)
  PROVE  BootInv'
<1>1. step = At(name) + 1
  BY StepType, UserSteps DEF EnableRead, BootInv
<1>2. /\ name = "timer" => step = 9
      /\ name = "keyboard" => step = 16
      /\ name = "card" => step = 20
      /\ name \in {"timer", "keyboard", "card"} /\ At(name) \in Nat
  BY <1>1 DEF At, Users
<1>3. step \in {9, 16, 20}
  BY <1>2
<1>4. /\ step' = step + 1 /\ al' = mask \cap EnableRegister(LineOf(name))
      /\ UNCHANGED <<machine, stack, is_in_ring0, frames, ready, pages, pci_device, card,
                     pirq_penalty, mask, handler, flag, halted, enabled>>
  BY DEF EnableRead, Goes, found
<1>5. BootLine' = LineOf(name)
  BY <1>2, <1>4 DEF BootLine, LineOf
<1>6. BootTypeOK'
  <2>1. step' \in DOMAIN Order /\ DOMAIN Order = 1..25
    BY <1>3, <1>4, StepType DEF BootInv
  <2>2. QED
    BY <2>1, <1>3, <1>4 DEF BootTypeOK, BootInv
<1>7. Setup' /\ Found' /\ Memory'
  <2>1. Setup'
    BY <1>3, <1>4 DEF Setup, BootInv
  <2>2. Found'
    BY <1>2, <1>4 DEF Found, CardHas, Cards, BootInv
  <2>3. Memory'
    BY <1>3, <1>4 DEF Memory, Cards, BootInv
  <2>4. QED
    BY <2>1, <2>2, <2>3
<1>8. Masks'
  <2>1. Quiet
    BY QuietIs DEF BootInv
  <2>2. EnableRegister(LineOf(name)) \subseteq Lines
    BY DEF EnableRegister, Register, Lines
  <2>3. \A l \in Lines \ {SPURIOUS} : l \in mask <=> l \notin enabled
    BY <1>3, <2>1 DEF Quiet
  <2>4. Quiet'
    BY <1>3, <1>4, <1>5, <2>1, <2>2, <2>3 DEF Quiet
  <2>5. QED
    BY <1>4, <2>4, QuietIs
<1>9. QED
  BY <1>6, <1>7, <1>8 DEF BootInv

LEMMA EnableWriteInv ==
  ASSUME BootInv, halted = "no", stack = <<>>, NEW name \in Users, EnableWrite(name)
  PROVE  BootInv'
<1> DEFINE line == LineOf(name)
<1>1. step = At(name) + 2
  BY StepType, UserSteps DEF EnableWrite, BootInv
<1>2. /\ name = "timer" => step = 10
      /\ name = "keyboard" => step = 17
      /\ name = "card" => step = 21
      /\ name \in {"timer", "keyboard", "card"} /\ At(name) \in Nat
  BY <1>1 DEF At, Users
<1>3. step \in {10, 17, 21}
  BY <1>2
<1>4. /\ step' = step + 1 /\ al' = {} /\ enabled' = enabled \cup {line}
      /\ mask' = (mask \ EnableRegister(line)) \cup (al \ {line})
      /\ UNCHANGED <<machine, stack, is_in_ring0, frames, ready, pages, pci_device, card,
                     pirq_penalty, handler, flag, halted>>
  BY DEF EnableWrite, Goes, found
<1>5. BootLine = line
  BY <1>2 DEF BootLine, LineOf
<1>6. /\ line \in Lines \ {8}
      /\ name = "card" => CardHas /\ line = card.line
  <2>1. step \in At(name)..At(name)+2
    BY <1>1, <1>2
  <2>2. QED
    BY <2>1, LineIs
<1>7. line \in EnableRegister(line)
  BY <1>6 DEF EnableRegister, Register, Lines
<1> HIDE DEF line
<1>8. BootTypeOK'
  <2>1. step' \in DOMAIN Order /\ DOMAIN Order = 1..25
    BY <1>3, <1>4, StepType DEF BootInv
  <2>2. QED
    BY <2>1, <1>3, <1>4, <1>6 DEF BootTypeOK, BootInv
<1>9. Setup' /\ Memory'
  BY <1>3, <1>4 DEF Setup, Cards, Memory, BootInv
<1>10. Found'
  BY <1>2, <1>3, <1>4, <1>6 DEF Found, CardHas, Cards, BootInv
<1>11. Masks'
  <2>1. Quiet
    BY QuietIs DEF BootInv
  <2>2. \A l \in Lines \ {SPURIOUS} : l \in mask <=> l \notin enabled
    BY <1>3, <2>1 DEF Quiet
  <2>3. /\ al \subseteq EnableRegister(line)
        /\ \A l \in EnableRegister(line) \ {SPURIOUS} : l \in al <=> l \notin enabled
    BY <1>3, <1>5, <2>1 DEF Quiet
  <2>4. ASSUME NEW l \in Lines \ {SPURIOUS} PROVE l \in mask' <=> l \notin enabled'
    BY <2>2, <2>3, <1>4, <1>7
  <2>5. Quiet'
    BY <1>3, <1>4, <2>1, <2>4 DEF Quiet
  <2>6. QED
    BY <1>4, <2>5, QuietIs
<1>12. QED
  BY <1>8, <1>9, <1>10, <1>11 DEF BootInv

LEMMA BootStepInv ==
  ASSUME BootInv, halted = "no", stack = <<>>, BootStep
  PROVE  BootInv'
BY SetUpInv, HandleNetInv, ResetPagingInv, InitIdtInv, SelectDriversInv, IrqInitInv, ProbeInv,
   Init8259AInv, RegisterInv, EnableReadInv, EnableWriteInv DEF BootStep

-----------------------------------------------------------------------------
(* Interrupts.                                                             *)

\* What an interrupt leaves alone.
LEMMA Around ==
  ASSUME BootInv, step > 6, halted' = halted, stack' \in Seq(Frame), mask' \subseteq Lines,
         flag' \in BOOLEAN, frames' \in BOOLEAN, frames' => "start" \in ready,
         UNCHANGED <<machine, step, al, ready, found, handler, enabled>>
  PROVE  BootTypeOK' /\ Setup' /\ Found' /\ Memory'
<1>1. UNCHANGED <<machine, step, al, ready, pages, pci_device, card, pirq_penalty, handler, enabled>>
  BY DEF found
<1>2. \A i \in DOMAIN stack' : stack'[i].irq \in Lines /\ stack'[i].stage \in Stages
                               /\ stack'[i].al \subseteq Lines
  <2>1. \A i \in DOMAIN stack' : stack'[i] \in Frame
    OBVIOUS
  <2>2. QED
    BY <2>1 DEF Frame
<1>3. BootTypeOK'
  BY <1>1, <1>2 DEF BootTypeOK, BootInv
<1>4. Setup'
  BY <1>1 DEF Setup, BootInv
<1>5. Found'
  BY <1>1 DEF Found, CardHas, Cards, BootInv
<1>6. Memory'
  BY <1>1 DEF Memory, Cards, BootInv
<1>7. QED
  BY <1>3, <1>4, <1>5, <1>6

\* There are none before pci_select_drivers.
LEMMA InterruptsLate ==
  ASSUME BootInv, flag \/ stack # <<>> PROVE step > 6 /\ step > 5
<1>1. step > 6
  BY DEF BootInv, Setup
<1>2. step \in 1..25
  BY StepType DEF BootInv
<1>3. QED
  BY <1>1, <1>2

LEMMA StackIs ==
  ASSUME BootInv
  PROVE  /\ Len(stack) \in Nat /\ DOMAIN stack = 1..Len(stack)
         /\ \A i \in 1..Len(stack) : stack[i] \in Frame
         /\ stack # <<>> => /\ Last(stack) = stack[Len(stack)] /\ Len(stack) >= 1
                            /\ Len(stack) \in DOMAIN stack
<1>1. stack \in Seq(Frame)
  BY DEF BootInv, Masks
<1>2. QED
  BY <1>1 DEF Last

LEMMA RegisterIs ==
  ASSUME NEW l \in Lines PROVE l \in Register(l) /\ Register(l) \subseteq Lines
BY DEF Register, Lines

LEMMA InterruptInv ==
  ASSUME BootInv, halted = "no", NEW irq \in Lines, Interrupt(irq)
  PROVE  BootInv'
<1>0. PICK n \in Nat : n = Len(stack)
  BY StackIs
<1> DEFINE f == [irq |-> irq, stage |-> "body", al |-> {}]
<1>1. /\ flag /\ Pending(irq) /\ stack' = Append(stack, f) /\ is_in_ring0' = is_in_ring0 + 1
      /\ flag' = FALSE /\ halted' = (IF is_in_ring0' = 0 THEN "restart" ELSE halted)
      /\ UNCHANGED <<machine, step, al, ready, found, handler, frames, enabled>>
      /\ mask' = mask \cup {irq}
  BY DEF Interrupt, Enter
<1>2. stack \in Seq(Frame) /\ is_in_ring0 = 1 + n
  BY <1>0 DEF BootInv, Masks
<1>3. f \in Frame
  BY DEF Frame, Stages
<1>4. n \in Nat /\ DOMAIN stack = 1..n
  BY <1>0, StackIs
<1>5. /\ stack' \in Seq(Frame) /\ Len(stack') = n + 1 /\ DOMAIN stack' = 1..n+1
      /\ stack'[n+1] = f /\ \A i \in 1..n : stack'[i] = stack[i]
  <2> HIDE DEF f
  <2>1. QED
    BY <1>0, <1>1, <1>2, <1>3
<1>6. halted' = halted /\ is_in_ring0' = 1 + Len(stack')
  BY <1>1, <1>2, <1>4, <1>5
<1>7. step > 6 /\ step > 5
  BY <1>1, InterruptsLate
<1>8. BootTypeOK' /\ Setup' /\ Found' /\ Memory'
  <2>1. mask' \subseteq Lines /\ flag' \in BOOLEAN /\ frames' \in BOOLEAN /\ (frames' => "start" \in ready)
    BY <1>1 DEF BootInv, BootTypeOK, Setup
  <2>2. QED
    BY <2>1, <1>1, <1>5, <1>6, <1>7, Around
<1>9. /\ \A i \in 1..n : Handling(i)' <=> Handling(i)
      /\ Handling(n+1)' /\ stack'[n+1].irq = irq
  BY <1>4, <1>5 DEF Handling
<1>10. \A l, k : k \in 1..n => (Waiting(l, k)' <=> Waiting(l, k))
  BY <1>4, <1>5, <1>9 DEF Waiting
<1>11. \A l : Waiting(l, n+1)' <=> Waiting(l, n) \/ l = irq
  <2> TAKE l
  <2>1. 1..n+1 = (1..n) \cup {n+1}
    BY <1>4
  <2>2. QED
    BY <2>1, <1>4, <1>5, <1>9 DEF Waiting
<1>12. MaskIs(mask, n)
  BY <1>0, <1>7 DEF BootInv, Masks
<1>13. MaskIs(mask, Len(stack))'
  <2>1. ASSUME NEW l \in Lines \ {SPURIOUS}
        PROVE  l \in mask' <=> l \notin enabled' \/ Waiting(l, n+1)'
    BY <1>1, <1>11, <1>12 DEF MaskIs
  <2>2. QED
    BY <2>1, <1>5 DEF MaskIs
<1>14. irq = SPURIOUS \/ irq \notin mask
  BY <1>1 DEF Pending
<1>15. irq \in enabled \cup {SPURIOUS} /\ (irq # SPURIOUS => ~Waiting(irq, n))
  BY <1>12, <1>14 DEF MaskIs
<1>16. ASSUME NEW k \in DOMAIN stack', stack'[k].stage = "write"
       PROVE  /\ stack'[k].al \subseteq Register(stack'[k].irq)
              /\ \A l \in Register(stack'[k].irq) \ {SPURIOUS} :
                   l \in stack'[k].al <=> l \notin enabled' \/ Waiting(l, k)'
  <2>1. k \in 1..n /\ k \in DOMAIN stack /\ stack'[k] = stack[k]
    BY <1>4, <1>5, <1>16
  <2>2. QED
    BY <2>1, <1>1, <1>10, <1>16 DEF BootInv, Masks
<1>17. ASSUME NEW i \in DOMAIN stack', Handling(i)' PROVE stack'[i].irq \in enabled' \cup {SPURIOUS}
  <2>1. CASE i \in 1..n
    BY <2>1, <1>1, <1>4, <1>5, <1>9, <1>17 DEF BootInv, Masks
  <2>2. CASE i = n + 1
    BY <2>2, <1>1, <1>9, <1>15
  <2>3. QED
    BY <2>1, <2>2, <1>4, <1>5
<1>18. ASSUME NEW i \in 1..n, Handling(i), irq = stack[i].irq PROVE irq = SPURIOUS
  BY <1>15, <1>18 DEF Waiting
<1>19. ASSUME NEW i \in DOMAIN stack', NEW j \in DOMAIN stack',
              Handling(i)', Handling(j)', stack'[i].irq = stack'[j].irq
       PROVE  i = j \/ stack'[i].irq = SPURIOUS
  <2>1. CASE i \in 1..n /\ j \in 1..n
    BY <2>1, <1>4, <1>5, <1>9, <1>19 DEF BootInv, Masks
  <2>2. CASE i = n + 1 \/ j = n + 1
    BY <2>2, <1>4, <1>5, <1>9, <1>18, <1>19
  <2>3. QED
    BY <2>1, <2>2, <1>4, <1>5
<1>20. Masks'
  <2>1. /\ step' \in {10, 17, 21} => al' \subseteq EnableRegister(BootLine')
        /\ step' \in {10, 17, 21} => \A l \in EnableRegister(BootLine') \ {SPURIOUS} :
                                       l \in al' <=> l \notin enabled'
    BY <1>1 DEF BootInv, Masks, BootLine, found
  <2>2. halted' # "restart"
    BY <1>6
  <2>3. QED
    BY <1>5, <1>6, <1>13, <1>16, <1>17, <1>19, <2>1, <2>2 DEF Masks
<1>21. QED
  BY <1>8, <1>20 DEF BootInv

\* What a step of the innermost handler keeps, when it still holds its line.
LEMMA TopChanged ==
  ASSUME BootInv, stack # <<>>, NEW f \in Frame, Top(f),
         f.irq = Last(stack).irq, f.stage # "exit", Last(stack).stage # "exit",
         f.stage = "write" => /\ f.al \subseteq Register(f.irq)
                              /\ f.al = mask \cap Register(f.irq),
         UNCHANGED <<mask, is_in_ring0>>, Handles
  PROVE  Masks' /\ stack' \in Seq(Frame)
<1>1. PICK n \in Nat : n = Len(stack)
  BY StackIs
<1>2. /\ n >= 1 /\ n \in 1..n /\ DOMAIN stack = 1..n /\ Last(stack) = stack[n]
      /\ stack \in Seq(Frame)
  BY <1>1, StackIs DEF BootInv, Masks
<1>3. stack' = [stack EXCEPT ![n] = f]
  BY <1>1 DEF Top
<1>4. /\ stack' \in Seq(Frame) /\ Len(stack') = n /\ DOMAIN stack' = 1..n
      /\ stack'[n] = f /\ \A i \in 1..n : i # n => stack'[i] = stack[i]
  BY <1>1, <1>2, <1>3
<1>5. \A i \in 1..n : stack'[i].irq = stack[i].irq /\ (Handling(i)' <=> Handling(i))
  BY <1>2, <1>4 DEF Handling
<1>6. \A l, k : k \in 1..n => (Waiting(l, k)' <=> Waiting(l, k))
  BY <1>2, <1>4, <1>5 DEF Waiting
<1>7. step > 5 /\ MaskIs(mask, n)
  <2>1. step > 5
    BY InterruptsLate
  <2>2. QED
    BY <2>1, <1>1 DEF BootInv, Masks
<1>8. UNCHANGED <<machine, step, al, ready, found, handler, halted, enabled, mask, is_in_ring0>>
  BY DEF Handles
<1>9. MaskIs(mask, Len(stack))'
  <2>1. ASSUME NEW l \in Lines \ {SPURIOUS}
        PROVE  l \in mask' <=> l \notin enabled' \/ Waiting(l, n)'
    BY <1>2, <1>6, <1>7, <1>8 DEF MaskIs
  <2>2. QED
    BY <2>1, <1>4 DEF MaskIs
<1>10. ASSUME NEW k \in DOMAIN stack', stack'[k].stage = "write"
       PROVE  /\ stack'[k].al \subseteq Register(stack'[k].irq)
              /\ \A l \in Register(stack'[k].irq) \ {SPURIOUS} :
                   l \in stack'[k].al <=> l \notin enabled' \/ Waiting(l, k)'
  <2>1. CASE k # n
    <3>1. k \in DOMAIN stack /\ k \in 1..n /\ stack'[k] = stack[k]
      BY <2>1, <1>2, <1>4, <1>10
    <3>2. QED
      BY <3>1, <1>6, <1>8, <1>10 DEF BootInv, Masks
  <2>2. CASE k = n
    <3>1. f.al \subseteq Register(f.irq) /\ f.al = mask \cap Register(f.irq)
      BY <2>2, <1>4, <1>10
    <3>2. Register(f.irq) \subseteq Lines
      BY RegisterIs DEF Frame
    <3>3. QED
      BY <2>2, <3>1, <3>2, <1>2, <1>4, <1>6, <1>7, <1>8 DEF MaskIs
  <2>3. QED
    BY <2>1, <2>2
<1>11. ASSUME NEW i \in DOMAIN stack', Handling(i)' PROVE stack'[i].irq \in enabled' \cup {SPURIOUS}
  BY <1>2, <1>4, <1>5, <1>8, <1>11 DEF BootInv, Masks
<1>12. ASSUME NEW i \in DOMAIN stack', NEW j \in DOMAIN stack',
              Handling(i)', Handling(j)', stack'[i].irq = stack'[j].irq
       PROVE  i = j \/ stack'[i].irq = SPURIOUS
  BY <1>2, <1>4, <1>5, <1>12 DEF BootInv, Masks
<1>13. Masks'
  <2>1. /\ step' \in {10, 17, 21} => al' \subseteq EnableRegister(BootLine')
        /\ step' \in {10, 17, 21} => \A l \in EnableRegister(BootLine') \ {SPURIOUS} :
                                       l \in al' <=> l \notin enabled'
    BY <1>8 DEF BootInv, Masks, BootLine, found
  <2>2. halted' # "restart" /\ is_in_ring0' = 1 + Len(stack')
    BY <1>1, <1>4, <1>8 DEF BootInv, Masks
  <2>3. QED
    BY <1>4, <1>9, <1>10, <1>11, <1>12, <2>1, <2>2 DEF Masks
<1>14. QED
  BY <1>4, <1>13

LEMMA BodyStiInv ==
  ASSUME BootInv, halted = "no", BodySti
  PROVE  BootInv'
<1>1. /\ stack # <<>> /\ flag' = TRUE /\ UNCHANGED <<mask, stack, is_in_ring0, frames>>
      /\ UNCHANGED <<machine, step, al, ready, found, handler, halted, enabled>>
  BY DEF BodySti, InStage, Handles
<1>2. BootTypeOK' /\ Setup' /\ Found' /\ Memory'
  <2>1. /\ step > 6 /\ stack' \in Seq(Frame) /\ mask' \subseteq Lines /\ frames' \in BOOLEAN
        /\ (frames' => "start" \in ready)
    BY <1>1 DEF BootInv, Setup, Masks, BootTypeOK
  <2>2. QED
    BY <2>1, <1>1, Around
<1>3. Masks'
  BY <1>1 DEF BootInv, Masks, MaskIs, Waiting, Handling, BootLine, found
<1>4. QED
  BY <1>2, <1>3 DEF BootInv

LEMMA BodyEndInv ==
  ASSUME BootInv, halted = "no", BodyEnd
  PROVE  BootInv'
<1> DEFINE f == [Last(stack) EXCEPT !.stage = "read"]
<1>1. /\ stack # <<>> /\ Last(stack).stage = "body" /\ Top(f)
      /\ frames' \in {frames, frames \/ (handler[Last(stack).irq] = "card" /\ "start" \in ready)}
      /\ UNCHANGED <<mask, flag, is_in_ring0>> /\ Handles
  BY DEF BodyEnd, InStage
<1>2. Last(stack) \in Frame
  BY <1>1, StackIs
<1>3. f \in Frame /\ f.irq = Last(stack).irq /\ f.stage = "read"
  BY <1>2 DEF Frame, Stages
<1>4. Masks' /\ stack' \in Seq(Frame)
  <2> HIDE DEF f
  <2>1. QED
    BY <1>1, <1>3, TopChanged
<1>5. BootTypeOK' /\ Setup' /\ Found' /\ Memory'
  <2>1. /\ step > 6 /\ mask' \subseteq Lines /\ frames' \in BOOLEAN /\ flag' \in BOOLEAN
        /\ (frames' => "start" \in ready)
    BY <1>1 DEF BootInv, Setup, BootTypeOK
  <2>2. QED
    BY <2>1, <1>1, <1>4, Around DEF Handles
<1>6. QED
  BY <1>4, <1>5 DEF BootInv

LEMMA UnmaskReadInv ==
  ASSUME BootInv, halted = "no", UnmaskRead
  PROVE  BootInv'
<1> DEFINE f == [Last(stack) EXCEPT !.stage = "write", !.al = mask \cap Register(Last(stack).irq)]
<1>1. /\ stack # <<>> /\ Last(stack).stage = "read" /\ Top(f)
      /\ UNCHANGED <<mask, flag, is_in_ring0, frames>> /\ Handles
  BY DEF UnmaskRead, InStage
<1>2. Last(stack) \in Frame /\ Register(Last(stack).irq) \subseteq Lines
  <2>1. Last(stack) \in Frame
    BY <1>1, StackIs
  <2>2. QED
    BY <2>1, RegisterIs DEF Frame
<1>3. /\ f \in Frame /\ f.irq = Last(stack).irq /\ f.stage = "write"
      /\ f.al = mask \cap Register(f.irq) /\ f.al \subseteq Register(f.irq)
  BY <1>2 DEF Frame, Stages
<1>4. Masks' /\ stack' \in Seq(Frame)
  <2> HIDE DEF f
  <2>1. QED
    BY <1>1, <1>3, TopChanged
<1>5. BootTypeOK' /\ Setup' /\ Found' /\ Memory'
  <2>1. /\ step > 6 /\ mask' \subseteq Lines /\ frames' \in BOOLEAN /\ flag' \in BOOLEAN
        /\ (frames' => "start" \in ready)
    BY <1>1 DEF BootInv, Setup, BootTypeOK
  <2>2. QED
    BY <2>1, <1>1, <1>4, Around DEF Handles
<1>6. QED
  BY <1>4, <1>5 DEF BootInv

\* The write ends what the handler holds; the rest of the nesting is as before
\* its call.
LEMMA UnmaskWriteInv ==
  ASSUME BootInv, halted = "no", UnmaskWrite
  PROVE  BootInv'
<1>1. PICK n \in Nat : n = Len(stack)
  BY StackIs
<1>1a. PICK irq : irq = stack[n].irq
  OBVIOUS
<1>1b. PICK half : half = Register(irq)
  OBVIOUS
<1> DEFINE f == [stack[n] EXCEPT !.stage = "exit", !.al = {}]
<1>2. /\ stack # <<>> /\ stack[n].stage = "write" /\ stack' = [stack EXCEPT ![n] = f]
      /\ mask' = (mask \ half) \cup (stack[n].al \ {irq})
      /\ UNCHANGED <<flag, is_in_ring0, frames>>
      /\ UNCHANGED <<machine, step, al, ready, found, handler, halted, enabled>>
  BY <1>1, <1>1a, <1>1b, StackIs DEF UnmaskWrite, InStage, Handles, Top
<1>3. /\ n >= 1 /\ n \in 1..n /\ DOMAIN stack = 1..n /\ stack[n] \in Frame
      /\ stack \in Seq(Frame)
  BY <1>1, <1>2, StackIs DEF BootInv, Masks
<1>4. f \in Frame /\ f.stage = "exit" /\ irq \in Lines
  BY <1>1a, <1>3 DEF Frame, Stages
<1>5. /\ stack' \in Seq(Frame) /\ Len(stack') = n /\ DOMAIN stack' = 1..n
      /\ stack'[n].stage = "exit" /\ \A i \in 1..n : i # n => stack'[i] = stack[i]
  <2>1. /\ stack' \in Seq(Frame) /\ Len(stack') = n /\ DOMAIN stack' = 1..n
        /\ stack'[n] = f /\ \A i \in 1..n : i # n => stack'[i] = stack[i]
    <3> HIDE DEF f
    <3>1. QED
      BY <1>1, <1>2, <1>3, <1>4
  <2>2. QED
    BY <2>1, <1>4
<1>6. /\ Handling(n) /\ ~Handling(n)'
      /\ \A i \in 1..n : i # n => (Handling(i)' <=> Handling(i))
  BY <1>2, <1>3, <1>5 DEF Handling
<1>7. \A l, k : k \in 1..n /\ k # n => (Waiting(l, k)' <=> Waiting(l, k))
  BY <1>3, <1>5, <1>6 DEF Waiting
<1>8. \A l : Waiting(l, n) <=> l = irq \/ Waiting(l, n)'
  BY <1>1a, <1>3, <1>5, <1>6 DEF Waiting
<1>9. step > 5 /\ step > 6 /\ MaskIs(mask, n)
  <2>1. step > 5 /\ step > 6
    BY <1>2, InterruptsLate
  <2>2. QED
    BY <2>1, <1>1 DEF BootInv, Masks
<1>10. /\ stack[n].al \subseteq half
       /\ \A l \in half \ {SPURIOUS} : l \in stack[n].al <=> l \notin enabled \/ Waiting(l, n)
  BY <1>1a, <1>1b, <1>2, <1>3 DEF BootInv, Masks
<1>11. irq \in enabled \cup {SPURIOUS} /\ (irq # SPURIOUS => ~Waiting(irq, n)')
  <2>1. irq \in enabled \cup {SPURIOUS}
    BY <1>1a, <1>3, <1>6 DEF BootInv, Masks
  <2>2. ASSUME Waiting(irq, n)' PROVE irq = SPURIOUS
    <3>1. PICK i \in 1..n : Handling(i)' /\ stack'[i].irq = irq
      BY <2>2 DEF Waiting
    <3>2. i # n /\ Handling(i) /\ stack[i].irq = stack[n].irq
      BY <3>1, <1>1a, <1>5, <1>6
    <3>3. QED
      BY <3>2, <1>1a, <1>3, <1>6 DEF BootInv, Masks
  <2>3. QED
    BY <2>1, <2>2
<1>12. irq \in half /\ half \subseteq Lines
  BY <1>1b, <1>4, RegisterIs
<1>13. MaskIs(mask, Len(stack))'
  <2>1. ASSUME NEW l \in Lines \ {SPURIOUS}
        PROVE  l \in mask' <=> l \notin enabled \/ Waiting(l, n)'
    <3>1. l \in mask <=> l \notin enabled \/ Waiting(l, n)
      BY <1>9 DEF MaskIs
    <3>2. CASE l \notin half
      <4>1. l # irq /\ (l \in mask' <=> l \in mask)
        BY <3>2, <1>2, <1>10, <1>12
      <4>2. QED
        BY <4>1, <3>1, <1>8
    <3>3. CASE l \in half /\ l # irq
      <4>1. l \in mask' <=> l \in stack[n].al
        BY <3>3, <1>2
      <4>2. QED
        BY <3>3, <4>1, <1>8, <1>10
    <3>4. CASE l = irq
      <4>1. l \notin mask'
        BY <3>4, <1>2, <1>12
      <4>2. QED
        BY <3>4, <4>1, <1>11
    <3>5. QED
      BY <3>2, <3>3, <3>4
  <2>2. QED
    BY <2>1, <1>2, <1>5 DEF MaskIs
<1>14. mask' \subseteq Lines
  BY <1>2, <1>10, <1>12 DEF BootInv, BootTypeOK
<1>15. BootTypeOK' /\ Setup' /\ Found' /\ Memory'
  <2>1. /\ frames' \in BOOLEAN /\ flag' \in BOOLEAN /\ (frames' => "start" \in ready)
    BY <1>2 DEF BootInv, Setup, BootTypeOK
  <2>2. QED
    BY <2>1, <1>2, <1>5, <1>9, <1>14, Around
<1>16. ASSUME NEW k \in DOMAIN stack', stack'[k].stage = "write"
       PROVE  /\ stack'[k].al \subseteq Register(stack'[k].irq)
              /\ \A l \in Register(stack'[k].irq) \ {SPURIOUS} :
                   l \in stack'[k].al <=> l \notin enabled' \/ Waiting(l, k)'
  <2>1. k \in DOMAIN stack /\ k \in 1..n /\ k # n /\ stack'[k] = stack[k]
    BY <1>3, <1>5, <1>16
  <2>2. QED
    BY <2>1, <1>2, <1>7, <1>16 DEF BootInv, Masks
<1>17. ASSUME NEW i \in DOMAIN stack', Handling(i)'
       PROVE  i \in 1..n /\ i # n /\ Handling(i) /\ stack'[i] = stack[i]
  BY <1>5, <1>6, <1>17
<1>18. Masks'
  <2>1. /\ step' \in {10, 17, 21} => al' \subseteq EnableRegister(BootLine')
        /\ step' \in {10, 17, 21} => \A l \in EnableRegister(BootLine') \ {SPURIOUS} :
                                       l \in al' <=> l \notin enabled'
    BY <1>2 DEF BootInv, Masks, BootLine, found
  <2>2. halted' # "restart" /\ is_in_ring0' = 1 + Len(stack')
    BY <1>1, <1>2, <1>5 DEF BootInv, Masks
  <2>3. /\ \A i \in DOMAIN stack' : Handling(i)' => stack'[i].irq \in enabled' \cup {SPURIOUS}
        /\ \A i, j \in DOMAIN stack' :
             Handling(i)' /\ Handling(j)' /\ stack'[i].irq = stack'[j].irq =>
               i = j \/ stack'[i].irq = SPURIOUS
    BY <1>2, <1>3, <1>5, <1>17 DEF BootInv, Masks
  <2>4. QED
    BY <1>5, <1>13, <1>16, <2>1, <2>2, <2>3 DEF Masks
<1>19. QED
  BY <1>15, <1>18 DEF BootInv

LEMMA ReturnInv ==
  ASSUME BootInv, halted = "no", ret_to_proc
  PROVE  BootInv'
<1>1. PICK n \in Nat : n = Len(stack)
  BY StackIs
<1>2. /\ stack # <<>> /\ stack[n].stage = "exit" /\ stack' = SubSeq(stack, 1, n - 1)
      /\ is_in_ring0' = is_in_ring0 - 1 /\ flag' = TRUE
      /\ UNCHANGED <<mask, frames>>
      /\ UNCHANGED <<machine, step, al, ready, found, handler, halted, enabled>>
  BY <1>1, StackIs DEF ret_to_proc, InStage, Handles
<1>3. /\ n >= 1 /\ n \in 1..n /\ DOMAIN stack = 1..n /\ stack \in Seq(Frame)
  BY <1>1, <1>2, StackIs DEF BootInv, Masks
<1>4. /\ stack' \in Seq(Frame) /\ Len(stack') = n - 1 /\ DOMAIN stack' = 1..n-1
      /\ \A i \in 1..n-1 : stack'[i] = stack[i]
  BY <1>1, <1>2, <1>3
<1>5. /\ ~Handling(n) /\ \A i \in 1..n-1 : Handling(i)' <=> Handling(i)
  BY <1>2, <1>3, <1>4 DEF Handling
<1>6. \A l, k : k \in 1..n-1 => (Waiting(l, k)' <=> Waiting(l, k))
  BY <1>3, <1>4, <1>5 DEF Waiting
<1>7. \A l : Waiting(l, n) <=> Waiting(l, n-1)'
  <2> TAKE l
  <2>1. 1..n = (1..n-1) \cup {n}
    BY <1>3
  <2>2. QED
    BY <2>1, <1>4, <1>5 DEF Waiting
<1>8. step > 5 /\ step > 6 /\ MaskIs(mask, n)
  <2>1. step > 5 /\ step > 6
    BY <1>2, InterruptsLate
  <2>2. QED
    BY <2>1, <1>1 DEF BootInv, Masks
<1>9. MaskIs(mask, Len(stack))'
  <2>1. ASSUME NEW l \in Lines \ {SPURIOUS}
        PROVE  l \in mask' <=> l \notin enabled' \/ Waiting(l, n-1)'
    BY <1>2, <1>7, <1>8 DEF MaskIs
  <2>2. QED
    BY <2>1, <1>4 DEF MaskIs
<1>10. BootTypeOK' /\ Setup' /\ Found' /\ Memory'
  <2>1. /\ frames' \in BOOLEAN /\ flag' \in BOOLEAN /\ (frames' => "start" \in ready)
        /\ mask' \subseteq Lines
    BY <1>2 DEF BootInv, Setup, BootTypeOK
  <2>2. QED
    BY <2>1, <1>2, <1>4, <1>8, Around
<1>11. ASSUME NEW k \in DOMAIN stack', stack'[k].stage = "write"
       PROVE  /\ stack'[k].al \subseteq Register(stack'[k].irq)
              /\ \A l \in Register(stack'[k].irq) \ {SPURIOUS} :
                   l \in stack'[k].al <=> l \notin enabled' \/ Waiting(l, k)'
  <2>1. k \in DOMAIN stack /\ k \in 1..n-1 /\ stack'[k] = stack[k]
    BY <1>3, <1>4, <1>11
  <2>2. QED
    BY <2>1, <1>2, <1>6, <1>11 DEF BootInv, Masks
<1>12. ASSUME NEW i \in DOMAIN stack', Handling(i)'
       PROVE  i \in 1..n /\ i # n /\ Handling(i) /\ stack'[i] = stack[i]
  BY <1>3, <1>4, <1>5, <1>12
<1>13. Masks'
  <2>1. /\ step' \in {10, 17, 21} => al' \subseteq EnableRegister(BootLine')
        /\ step' \in {10, 17, 21} => \A l \in EnableRegister(BootLine') \ {SPURIOUS} :
                                       l \in al' <=> l \notin enabled'
    BY <1>2 DEF BootInv, Masks, BootLine, found
  <2>2. halted' # "restart" /\ is_in_ring0' = 1 + Len(stack')
    BY <1>1, <1>2, <1>4 DEF BootInv, Masks
  <2>3. /\ \A i \in DOMAIN stack' : Handling(i)' => stack'[i].irq \in enabled' \cup {SPURIOUS}
        /\ \A i, j \in DOMAIN stack' :
             Handling(i)' /\ Handling(j)' /\ stack'[i].irq = stack'[j].irq =>
               i = j \/ stack'[i].irq = SPURIOUS
    BY <1>2, <1>3, <1>4, <1>12 DEF BootInv, Masks
  <2>4. QED
    BY <1>4, <1>9, <1>11, <2>1, <2>2, <2>3 DEF Masks
<1>14. QED
  BY <1>10, <1>13 DEF BootInv

-----------------------------------------------------------------------------
(* The theorems.                                                           *)

LEMMA BootInitInv == BootInit => BootInv
<1> SUFFICES ASSUME BootInit PROVE BootInv
  OBVIOUS
<1>1. DOMAIN Order = 1..25
  BY Steps
<1>2. /\ machine \in Machines /\ step = 1 /\ al = {} /\ ready = {}
      /\ pages = [count |-> 0, first |-> 0] /\ card = [id |-> "none"]
      /\ mask = Lines \ {0, 1, 2} /\ handler = [i \in Lines |-> "spurious"]
      /\ flag = FALSE /\ stack = <<>> /\ is_in_ring0 = 1 /\ frames = FALSE
      /\ halted = "no" /\ enabled = {}
  BY SMT DEF BootInit
<1>3. pirq_penalty \in [Lines -> Nat]
  BY SMT DEF BootInit
<1>4. BootTypeOK
  <2>1. step \in DOMAIN Order /\ pages \in [count : Nat, first : Nat]
    BY <1>1, <1>2
  <2>2. handler \in [Lines -> Users \cup {"spurious"}]
    BY <1>2
  <2>3. DOMAIN stack = {} /\ mask \subseteq Lines
    BY <1>2
  <2>4. QED
    BY <1>2, <1>3, <2>1, <2>2, <2>3 DEF BootTypeOK
<1>5. Setup /\ Found /\ Memory
  BY <1>2 DEF Setup, Found, Memory
<1>6. Masks
  BY <1>2, QuietIs DEF Quiet
<1>7. QED
  BY <1>4, <1>5, <1>6 DEF BootInv

LEMMA BootNextInv == BootInv /\ [BootNext]_bootVars => BootInv'
<1> SUFFICES ASSUME BootInv, [BootNext]_bootVars PROVE BootInv'
  OBVIOUS
<1>1. CASE BootNext
  BY <1>1, BootStepInv, InterruptInv, BodyStiInv, BodyEndInv, UnmaskReadInv, UnmaskWriteInv,
     ReturnInv DEF BootNext
<1>2. CASE UNCHANGED bootVars
  <2>1. UNCHANGED <<machine, step, al, ready, pages, pci_device, card, pirq_penalty, mask,
                    handler, flag, stack, is_in_ring0, frames, halted, enabled>>
    BY <1>2 DEF bootVars, found, interrupts
  <2>2. BootTypeOK'
    BY <2>1 DEF BootInv, BootTypeOK
  <2>3. Setup' /\ Found' /\ Memory'
    BY <2>1 DEF BootInv, Setup, Found, CardHas, Cards, Memory
  <2>4. Masks'
    BY <2>1 DEF BootInv, Masks, MaskIs, Waiting, Handling, BootLine
  <2>5. QED
    BY <2>2, <2>3, <2>4 DEF BootInv
<1>3. QED
  BY <1>1, <1>2

LEMMA BootInvariance == BootSpec => []BootInv
BY BootInitInv, BootNextInv, PTL DEF BootSpec

\* No handler runs before what it goes through is set up.
THEOREM HandlersFindSetUp == BootSpec => []HandlersReady
<1>1. BootInv => HandlersReady
  <2> SUFFICES ASSUME BootInv, NEW i \in DOMAIN stack PROVE Needs(stack[i].irq) \subseteq ready
    BY DEF HandlersReady
  <2> DEFINE irq == stack[i].irq
  <2>1. irq \in Lines /\ stack # <<>>
    BY StackIs DEF Frame
  <2>2. step > 6 /\ step \in 1..25
    BY <2>1, StepType DEF BootInv, Setup
  <2>3. {"console", "idt", "gates"} \subseteq ready
    BY <2>2 DEF BootInv, Setup
  <2>4. handler[irq] \in {"timer", "keyboard", "card", "spurious"}
    BY <2>1 DEF BootInv, BootTypeOK, Users
  <2> HIDE DEF irq
  <2>5. handler[irq] = "keyboard" => "kb_in" \in ready
    BY <2>1, <2>2 DEF BootInv, Setup
  <2>6. handler[irq] = "card" => "io_base" \in ready
    BY <2>1 DEF BootInv, Setup
  <2>7. /\ "start" \in ready => "custom_data" \in ready
        /\ frames => {"arp_map", "custom_data"} \subseteq ready
    BY DEF BootInv, Setup
  <2>8. Needs(irq) \subseteq ready
    BY <2>3, <2>4, <2>5, <2>6, <2>7 DEF Needs
  <2>9. QED
    BY <2>8 DEF irq
<1>2. QED
  BY <1>1, BootInvariance, PTL

\* The masks and is_in_ring0 follow the nesting.
THEOREM NestingIsKept == BootSpec => []MasksNest
<1>1. BootInv => MasksNest
  <2> SUFFICES ASSUME BootInv PROVE MasksNest
    OBVIOUS
  <2> DEFINE handling == {i \in DOMAIN stack : stack[i].stage # "exit"}
  <2>1. BootTypeOK /\ is_in_ring0 = 1 + Len(stack) /\ halted # "restart"
    BY DEF BootInv, Masks
  <2>2. \A i, j \in handling : stack[i].irq = stack[j].irq => i = j \/ stack[i].irq = SPURIOUS
    BY DEF BootInv, Masks, Handling
  <2>3. ASSUME Reached("pci_select_drivers")
        PROVE  mask \ {SPURIOUS} = (Lines \ (enabled \cup {SPURIOUS})) \cup
                                   ({stack[i].irq : i \in handling} \ {SPURIOUS})
    <3>1. step > 5
      <4>1. step \in 1..25
        BY <2>1, StepType
      <4>2. Reached("pci_select_drivers") <=> step >= 6
        BY <4>1, Steps
      <4>3. QED
        BY <2>3, <4>1, <4>2
    <3>2. MaskIs(mask, Len(stack))
      BY <3>1 DEF BootInv, Masks
    <3>3. \A l : Waiting(l, Len(stack)) <=> l \in {stack[i].irq : i \in handling}
      BY StackIs DEF Waiting, Handling
    <3>4. {stack[i].irq : i \in handling} \subseteq Lines
      BY StackIs DEF Frame
    <3>5. mask \subseteq Lines
      BY <2>1 DEF BootTypeOK
    <3> HIDE DEF handling
    <3>6. QED
      BY <3>2, <3>3, <3>4, <3>5 DEF MaskIs
  <2>4. QED
    BY <2>1, <2>2, <2>3 DEF MasksNest
<1>2. QED
  BY <1>1, BootInvariance, PTL

\* What the boot has found is there.
THEOREM BootFinds == BootSpec => []FoundIsThere
<1>1. BootInv => FoundIsThere
  <2> SUFFICES ASSUME BootInv PROVE FoundIsThere
    OBVIOUS
  <2>1. "mem_map" \in ready =>
          LET size == load_memory_size(machine.memory)
              mapEnd == MEM_MAP + (pages.count * 8 + 4095) \div 4096
          IN  /\ pages.first >= mapEnd /\ \h200 + pages.count \div 1024 =< MEM_MAP
              /\ pages.count =< ((size + 1023) \div 1024) * 1024
    BY DEF BootInv, Memory
  <2>2. ASSUME AtStep("idle")
        PROVE  /\ \E i \in DOMAIN machine.functions :
                    IsCard(machine.functions[i]) /\ card.line = machine.functions[i].line
               /\ handler[card.line] = "card" /\ card.line \in enabled
               /\ "io_base" \in ready
    <3>1. step = 25
      BY <2>2, StepType, Steps DEF BootInv
    <3>2. CardHas /\ handler[card.line] = "card" /\ card.line \in enabled /\ "io_base" \in ready
      BY <3>1 DEF BootInv, Found
    <3>3. QED
      BY <3>2 DEF CardHas, Cards
  <2>3. halted # "no" => \/ \A i \in DOMAIN machine.functions : ~IsCard(machine.functions[i])
                         \/ load_memory_size(machine.memory) \notin 1025..FOUR_GB \div 2 - 1
    BY DEF BootInv, Memory, Cards
  <2>4. QED
    BY <2>1, <2>2, <2>3 DEF FoundIsThere
<1>2. QED
  BY <1>1, BootInvariance, PTL

-----------------------------------------------------------------------------
(* The transmit ring: its invariant.                                       *)

Waits(c) == IF pc[c] = "check" THEN 1 ELSE 0

\* The timer handler moves current_tx_buffer from a position it has tested, so
\* the thread that goes on can be one step further than it has tested.
Reach ==
  /\ pc["thread"] = "load" => current_tx_buffer <= Count - 1
  /\ pc["thread"] = "store" => reg["thread"] <= Count - 1
  /\ pc["timer"] = "load" => current_tx_buffer <= Count - 2
  /\ pc["timer"] = "store" => reg["timer"] <= Count - 2
  /\ \A c \in Ctx : pc[c] # "idle" => frame[c] >= 1
  /\ dropped + Waits("thread") + Waits("timer") <= calls

\* The descriptor k after the card's.
Pos(k) == IF devIndex + k < Count THEN devIndex + k ELSE devIndex + k - Count

InFlight == Len(accepted) - Len(wire)

\* The first descriptor behind those the card owns.
Free == Pos(InFlight)

\* What a send() knows at each of its statements.
Sender(c) ==
  /\ pc[c] \in {"check", "size", "copy", "flag"} => current_tx_buffer = Free
  /\ pc[c] \in {"size", "copy", "flag"} => ~own[current_tx_buffer]
  /\ pc[c] \in {"copy", "flag"} => /\ at[c] = current_tx_buffer
                                   /\ front[current_tx_buffer] = frame[c]
  /\ pc[c] = "flag" => back[current_tx_buffer] = frame[c]
  /\ pc[c] \in {"advance", "load", "store", "wrap"} =>
       Free = IF current_tx_buffer = Count - 1 THEN 0 ELSE current_tx_buffer + 1
  /\ pc[c] = "wrap" => current_tx_buffer = Count - 1
  /\ pc[c] \in {"load", "store"} => current_tx_buffer <= Count - 2
  /\ pc[c] = "store" => reg[c] = current_tx_buffer

\* The descriptors the card owns hold the frames accepted and not transmitted.
Ring ==
  /\ InFlight \in 0..Count
  /\ \A i \in 1..Len(wire) : wire[i] = <<accepted[i], accepted[i]>>
  /\ \A k \in 0..Count-1 : own[Pos(k)] <=> k < InFlight
  /\ \A k \in 0..InFlight-1 : /\ front[Pos(k)] = accepted[Len(wire) + 1 + k]
                              /\ back[Pos(k)] = accepted[Len(wire) + 1 + k]

OneSender ==
  /\ \A c, d \in Ctx : pc[c] # "idle" /\ pc[d] # "idle" => c = d
  /\ (\A c \in Ctx : pc[c] = "idle") => current_tx_buffer = Free
  /\ current_tx_buffer <= Count - 1

Alone == ~overlapped => OneSender /\ Ring /\ \A c \in Ctx : Sender(c)

IInv == TypeOK /\ Reach /\ Alone

-----------------------------------------------------------------------------
(* The positions of the ring and the sequences of its history.             *)

\* A division replaced by a comparison: sums of two positions stay below 2*n.
LEMMA ModSum ==
  ASSUME NEW n \in Nat \ {0}, NEW a \in 0..2*n-1
  PROVE  a % n = IF a < n THEN a ELSE a - n
OBVIOUS

\* What Append does at every index.
LEMMA AppendProps ==
  ASSUME NEW S, NEW q \in Seq(S), NEW e \in S
  PROVE  /\ Append(q, e) \in Seq(S)
         /\ Len(Append(q, e)) = Len(q) + 1 /\ Len(q) \in Nat
         /\ \A i \in 1..Len(q) : Append(q, e)[i] = q[i]
         /\ Append(q, e)[Len(q) + 1] = e
OBVIOUS

\* Pos numbers the descriptors, each once.
LEMMA PosProps ==
  ASSUME TypeOK
  PROVE  /\ \A k \in 0..Count-1 : Pos(k) \in 0..Count-1
         /\ \A j, k \in 0..Count-1 : Pos(j) = Pos(k) => j = k
         /\ \A i \in 0..Count-1 : \E k \in 0..Count-1 : i = Pos(k)
         /\ Pos(0) = devIndex /\ Pos(Count) = devIndex
         /\ \A k \in 0..Count-1 :
              Pos(k+1) = IF Pos(k) = Count - 1 THEN 0 ELSE Pos(k) + 1
<1>1. devIndex \in 0..Count-1 /\ Count \in Nat \ {0, 1}
  BY TxAssumption DEF TypeOK
<1>2. \A i \in 0..Count-1 : \E k \in 0..Count-1 : i = Pos(k)
  <2>1. ASSUME NEW i \in 0..Count-1, i >= devIndex
        PROVE  i - devIndex \in 0..Count-1 /\ i = Pos(i - devIndex)
    BY <1>1, <2>1 DEF Pos
  <2>2. ASSUME NEW i \in 0..Count-1, i < devIndex
        PROVE  i - devIndex + Count \in 0..Count-1 /\ i = Pos(i - devIndex + Count)
    BY <1>1, <2>2 DEF Pos
  <2>3. \A i \in 0..Count-1 : i >= devIndex \/ i < devIndex
    BY <1>1
  <2>4. QED
    BY <2>1, <2>2, <2>3
<1>3. QED
  BY <1>1, <1>2 DEF Pos

LEMMA InitInv == Init => IInv
<1> SUFFICES ASSUME Init PROVE IInv
  OBVIOUS
<1>1. TypeOK
  <2>1. own \in [Slots -> BOOLEAN]
    BY DEF Init
  <2>2. 0 \in Slots /\ 0 \in 0..Count-1 /\ 0 \in 0..MaxSends
    BY TxAssumption DEF Slots
  <2>3. QED
    BY <2>1, <2>2 DEF Init, TypeOK
<1>2. Reach
  BY TxAssumption DEF Init, Reach, Waits, Ctx
<1>3. Alone
  <2>1. InFlight = 0 /\ Len(wire) = 0
    BY DEF Init, InFlight
  <2>2. Free = 0 /\ \A k \in 0..Count-1 : Pos(k) \in 0..Count-1
    BY <2>1, TxAssumption DEF Init, Free, Pos
  <2>3. \A k \in 0..Count-1 : ~own[Pos(k)]
    <3>1. \A i \in 0..Count-1 : i \in Slots /\ i # Count
      BY TxAssumption DEF Slots
    <3>2. QED
      BY <2>2, <3>1 DEF Init
  <2>3a. Ring
    BY <2>1, <2>3, TxAssumption DEF Ring, Init
  <2>4. QED
    BY <2>1, <2>2, <2>3a, TxAssumption DEF Init, Alone, OneSender, Sender, Ctx
<1>4. QED
  BY <1>1, <1>2, <1>3 DEF IInv

-----------------------------------------------------------------------------
\* The card transmits a descriptor.
LEMMA TransmitInv == IInv /\ Transmit => IInv'
<1> SUFFICES ASSUME IInv, Transmit PROVE IInv'
  OBVIOUS
<1> DEFINE w == Len(wire)
<1>1. /\ devIndex \in 0..Count-1 /\ Count \in Nat \ {0, 1}
      /\ devIndex' = IF devIndex = Count - 1 THEN 0 ELSE devIndex + 1
  <2>1. devIndex + 1 \in 0..2*Count-1 /\ devIndex \in 0..Count-1 /\ Count \in Nat \ {0, 1}
    BY TxAssumption DEF IInv, TypeOK
  <2>2. (devIndex + 1) % Count = IF devIndex + 1 < Count THEN devIndex + 1 ELSE devIndex + 1 - Count
    <3>1. Count \in Nat \ {0}
      BY <2>1
    <3> DEFINE a == devIndex + 1
    <3>2. a \in 0..2*Count-1
      BY <2>1
    <3> HIDE DEF a
    <3>3. a % Count = IF a < Count THEN a ELSE a - Count
      BY <3>1, <3>2, ModSum
    <3>4. QED
      BY <2>1, <3>3 DEF a
  <2>3. QED
    BY <2>1, <2>2 DEF Transmit
<1>2. wire \in Seq((0..MaxSends) \X (0..MaxSends)) /\ accepted \in Seq(1..MaxSends)
  BY DEF IInv, TypeOK
<1>3. <<front[devIndex], back[devIndex]>> \in (0..MaxSends) \X (0..MaxSends)
  BY <1>1 DEF IInv, TypeOK, Slots
<1>4. /\ wire' \in Seq((0..MaxSends) \X (0..MaxSends)) /\ Len(wire') = w + 1 /\ w \in Nat
      /\ \A i \in 1..w : wire'[i] = wire[i]
      /\ wire'[w + 1] = <<front[devIndex], back[devIndex]>>
  BY <1>2, <1>3, AppendProps DEF Transmit
<1>5. TypeOK'
  <2>1. devIndex' \in 0..Count-1 /\ own' \in [Slots -> BOOLEAN]
    <3>1. devIndex' \in 0..Count-1
      BY <1>1
    <3>2. own \in [Slots -> BOOLEAN] /\ own' = [own EXCEPT ![devIndex] = FALSE]
      BY DEF IInv, TypeOK, Transmit
    <3>3. QED
      BY <3>1, <3>2
  <2>2. QED
    BY <2>1, <1>4 DEF IInv, TypeOK, Transmit, sendVars
<1>6. Reach'
  BY DEF IInv, Reach, Transmit, sendVars, Waits
<1>7. ASSUME ~overlapped, Ring PROVE Ring' /\ Free' = Free /\ \A i \in Slots : own'[i] => own[i]
  <2> DEFINE n == InFlight
  <2>1. n \in 0..Count /\ 0 \in 0..Count-1
    BY <1>1, <1>7 DEF Ring
  <2>2. n \in 1..Count
    <3>1. own[Pos(0)]
      BY PosProps DEF Transmit, IInv
    <3>2. 0 < n
      BY <2>1, <3>1, <1>7 DEF Ring
    <3>3. QED
      BY <2>1, <3>2, <1>1
  <2>3. InFlight' = n - 1 /\ w = Len(accepted) - n /\ Len(accepted) \in Nat
    BY <1>2, <1>4, <2>2 DEF InFlight, Transmit
  <2>4. \A k \in 0..Count-1 : Pos(k)' = Pos(k+1)
    BY <1>1 DEF Pos
  <2>5. Free' = Free
    <3>1. InFlight' \in 0..Count-1 /\ InFlight' + 1 = InFlight
      BY <1>1, <2>2, <2>3
    <3>2. \A k \in 0..Count-1 : (IF devIndex' + k < Count THEN devIndex' + k ELSE devIndex' + k - Count)
            = Pos(k+1)
      BY <1>1 DEF Pos
    <3>3. QED
      BY <3>1, <3>2 DEF Free, Pos
  <2>6. \A i \in Slots : own'[i] <=> own[i] /\ i # devIndex
    BY DEF Transmit, IInv, TypeOK
  <2>7. \A k \in 0..Count-1 : own'[Pos(k+1)] <=> k < n - 1
    <3>1. ASSUME NEW k \in 0..Count-2 PROVE own'[Pos(k+1)] <=> k < n - 1
      <4>1. k+1 \in 0..Count-1 /\ k+1 # 0 /\ 0 \in 0..Count-1
        BY <1>1
      <4>2. Pos(k+1) \in Slots /\ Pos(k+1) # devIndex
        BY <4>1, <1>1, PosProps DEF Slots, IInv
      <4>3. own[Pos(k+1)] <=> k+1 < n
        BY <4>1, <1>7 DEF Ring
      <4>4. QED
        BY <4>2, <4>3, <2>2, <2>6, <1>1
    <3>2. ~own'[Pos((Count-1)+1)]
      <4>1. (Count-1)+1 = Count /\ devIndex \in Slots
        BY <1>1 DEF Slots
      <4>2. QED
        BY <4>1, <2>6, PosProps DEF IInv
    <3>3. \A k \in 0..Count-1 : k \in 0..Count-2 \/ k = Count-1
      BY <1>1
    <3>4. QED
      BY <3>1, <3>2, <3>3, <2>2, <1>1
  <2>8. \A k \in 0..n-2 : /\ front[Pos(k+1)] = accepted[Len(wire') + 1 + k]
                          /\ back[Pos(k+1)] = accepted[Len(wire') + 1 + k]
    <3>1. \A k \in 0..n-2 : k+1 \in 0..n-1 /\ Len(wire') + 1 + k = w + 1 + (k+1)
      BY <1>1, <2>2, <1>4
    <3>2. QED
      BY <3>1, <1>7 DEF Ring
  <2>9. \A i \in 1..Len(wire') : wire'[i] = <<accepted[i], accepted[i]>>
    <3>1. wire'[w+1] = <<accepted[w+1], accepted[w+1]>>
      <4>1. 0 \in 0..n-1 /\ w + 1 + 0 = w + 1
        BY <2>2, <1>4
      <4>2. front[Pos(0)] = accepted[w+1] /\ back[Pos(0)] = accepted[w+1]
        BY <4>1, <1>7 DEF Ring
      <4>3. QED
        BY <4>2, <1>4, PosProps DEF IInv
    <3>2. \A i \in 1..w : wire'[i] = <<accepted[i], accepted[i]>>
      BY <1>4, <1>7 DEF Ring
    <3>3. \A i \in 1..w+1 : i \in 1..w \/ i = w+1
      BY <1>4
    <3>4. QED
      BY <3>1, <3>2, <3>3, <1>4
  <2>10. Ring'
    <3>1. InFlight' \in 0..Count /\ InFlight' - 1 = n - 2
      BY <1>1, <2>2, <2>3
    <3>2. UNCHANGED <<front, back, accepted>>
      BY DEF Transmit
    <3>3. \A k \in 0..Count-1 : own'[Pos(k)'] <=> k < InFlight'
      BY <2>3, <2>4, <2>7
    <3>4. \A k \in 0..InFlight'-1 : /\ front'[Pos(k)'] = accepted'[Len(wire') + 1 + k]
                                    /\ back'[Pos(k)'] = accepted'[Len(wire') + 1 + k]
      <4>1. \A k \in 0..n-2 : k \in 0..Count-1
        BY <2>2, <1>1
      <4>2. QED
        BY <4>1, <2>4, <2>8, <3>1, <3>2
    <3>5. QED
      BY <3>1, <3>2, <3>3, <3>4, <2>9 DEF Ring
  <2>11. QED
    BY <2>5, <2>6, <2>10
<1>8. Alone'
  <2> SUFFICES ASSUME ~overlapped PROVE Alone'
    BY DEF Alone, Transmit
  <2>1. OneSender /\ Ring /\ \A c \in Ctx : Sender(c)
    BY DEF Alone, IInv
  <2>2. UNCHANGED <<front, back, current_tx_buffer, pc, frame, at, reg>>
    BY DEF Transmit, sendVars
  <2>3. current_tx_buffer \in Slots
    BY DEF IInv, TypeOK
  <2>4. OneSender' /\ \A c \in Ctx : Sender(c)'
    BY <1>7, <2>1, <2>2, <2>3 DEF OneSender, Sender
  <2>5. QED
    BY <1>7, <2>1, <2>4 DEF Alone
<1>9. QED
  BY <1>5, <1>6, <1>8 DEF IInv

-----------------------------------------------------------------------------
(* send().                                                                 *)

\* What a step of send() that leaves the ring alone keeps.
LEMMA SameRing ==
  ASSUME UNCHANGED <<ringVars, accepted, wire>>
  PROVE  /\ Free' = Free /\ (Ring => Ring')
         /\ UNCHANGED <<own, front, back>>
<1>1. UNCHANGED <<own, front, back, devIndex, accepted, wire>>
  BY DEF ringVars
<1>2. InFlight' = InFlight /\ \A k : Pos(k)' = Pos(k)
  BY <1>1 DEF InFlight, Pos
<1>3. Free' = Free
  BY <1>1, <1>2 DEF Free, Pos
<1>4. Ring => Ring'
  BY <1>1, <1>2 DEF Ring
<1>5. QED
  BY <1>1, <1>3, <1>4

\* A context calls send().
LEMMA CallInv == ASSUME IInv, NEW c \in Ctx, Call(c) PROVE IInv'
<1>1. \A d \in Ctx : d # c => pc'[d] = pc[d] /\ frame'[d] = frame[d] /\ at'[d] = at[d] /\ reg'[d] = reg[d]
  BY DEF IInv, TypeOK, Call, Go, ringVars
<1>2. TypeOK'
  <2>1. calls' \in 0..MaxSends /\ calls + 1 \in 0..MaxSends
    BY TxAssumption DEF IInv, TypeOK, Slots, Call
  <2>2. QED
    BY <2>1 DEF IInv, TypeOK, Call, Go, ringVars
<1>3. Reach'
  <2>1. /\ Count \in Nat \ {0, 1} /\ current_tx_buffer \in 0..Count /\ MaxSends \in Nat
        /\ calls \in 0..MaxSends /\ dropped \in 0..MaxSends
        /\ \A d \in Ctx : reg[d] \in 0..Count /\ frame[d] \in 0..MaxSends
    BY TxAssumption DEF IInv, TypeOK, Slots
  <2>2. \A d \in Ctx : d # c => Waits(d)' = Waits(d)
    BY <1>1 DEF Waits
  <2>3. Waits(c)' + dropped' - calls' <= Waits(c) + dropped - calls
    BY <2>1 DEF IInv, TypeOK, Waits, Call, Go, ringVars
  <2>4. "thread" \in Ctx /\ "timer" \in Ctx /\ (c = "thread" \/ c = "timer")
    BY DEF Ctx
  <2>5. (dropped + Waits("thread") + Waits("timer") <= calls)'
    <3>1. dropped' \in 0..MaxSends /\ calls' \in 0..MaxSends /\ \A d : Waits(d)' \in {0, 1} /\ Waits(d) \in {0, 1}
      BY <1>2 DEF TypeOK, Waits
    <3>2. QED
      BY <2>1, <2>2, <2>3, <2>4, <3>1 DEF IInv, Reach
  <2>6. \A d \in Ctx : pc'[d] # "idle" => frame'[d] >= 1
    BY <2>1, <1>1 DEF IInv, Reach, TypeOK, Call, Go, ringVars
  <2>7. CASE c = "thread"
    BY <2>7, <2>1, <2>4, <1>1, <2>5, <2>6, SMTT(30) DEF IInv, TypeOK, Reach, Runs, Call, Go, ringVars
  <2>8. CASE c = "timer"
    BY <2>8, <2>1, <2>4, <1>1, <2>5, <2>6, SMTT(30) DEF IInv, TypeOK, Reach, Runs, Call, Go, ringVars
  <2>9. QED
    BY <2>4, <2>7, <2>8
<1>4. Alone'
  <2> SUFFICES ASSUME ~overlapped' PROVE Alone'
    BY DEF Alone
  <2>1. ~overlapped /\ OneSender /\ Ring /\ \A d \in Ctx : Sender(d)
    BY DEF IInv, Alone, Call, Go, ringVars
  <2>2. Ring' /\ Free' = Free /\ UNCHANGED <<own, front, back>>
    BY <2>1, SameRing DEF Call, Go, ringVars
  <2>3. OneSender'
    BY <1>1, <2>1, <2>2, TxAssumption DEF IInv, TypeOK, OneSender, Sender, Slots, Call, Go, ringVars
  <2>4. \A d \in Ctx : d # c => pc'[d] = "idle"
    BY <2>3, <1>1, <2>1 DEF OneSender, IInv, TypeOK, Call, Go, ringVars
  <2>5. Sender(c)'
    BY <2>1, <2>2, TxAssumption DEF IInv, TypeOK, OneSender, Sender, Slots, Call, Go, ringVars
  <2>6. \A d \in Ctx : d # c => Sender(d)'
    BY <2>4 DEF Sender
  <2>7. QED
    BY <2>2, <2>3, <2>5, <2>6 DEF Alone
<1>5. QED
  BY <1>2, <1>3, <1>4 DEF IInv

\* It looks at the OWN bit.
LEMMA CheckInv == ASSUME IInv, NEW c \in Ctx, Check(c) PROVE IInv'
<1>1. \A d \in Ctx : d # c => pc'[d] = pc[d] /\ frame'[d] = frame[d] /\ at'[d] = at[d] /\ reg'[d] = reg[d]
  BY DEF IInv, TypeOK, Check, TestOwn, Go, ringVars, histVars
<1>2. TypeOK'
  <2>1. dropped' \in 0..MaxSends
    <3>1. /\ dropped \in 0..MaxSends /\ calls \in 0..MaxSends /\ MaxSends \in Nat
          /\ \A d : Waits(d) \in {0, 1}
      BY TxAssumption DEF IInv, TypeOK, Waits
    <3>2. Waits(c) = 1 /\ c \in {"thread", "timer"}
      BY DEF Waits, Ctx, Check, TestOwn
    <3>3. dropped + 1 <= calls
      BY <3>1, <3>2 DEF IInv, Reach
    <3>4. QED
      BY <3>1, <3>3 DEF Check, TestOwn
  <2>2. QED
    BY <2>1 DEF IInv, TypeOK, Check, TestOwn, Go, ringVars, histVars
<1>3. Reach'
  <2>1. /\ Count \in Nat \ {0, 1} /\ current_tx_buffer \in 0..Count /\ MaxSends \in Nat
        /\ calls \in 0..MaxSends /\ dropped \in 0..MaxSends
        /\ \A d \in Ctx : reg[d] \in 0..Count /\ frame[d] \in 0..MaxSends
    BY TxAssumption DEF IInv, TypeOK, Slots
  <2>2. \A d \in Ctx : d # c => Waits(d)' = Waits(d)
    BY <1>1 DEF Waits
  <2>3. Waits(c)' + dropped' - calls' <= Waits(c) + dropped - calls
    BY <2>1 DEF IInv, TypeOK, Waits, Check, TestOwn, Go, ringVars, histVars
  <2>4. "thread" \in Ctx /\ "timer" \in Ctx /\ (c = "thread" \/ c = "timer")
    BY DEF Ctx
  <2>5. (dropped + Waits("thread") + Waits("timer") <= calls)'
    <3>1. dropped' \in 0..MaxSends /\ calls' \in 0..MaxSends /\ \A d : Waits(d)' \in {0, 1} /\ Waits(d) \in {0, 1}
      BY <1>2 DEF TypeOK, Waits
    <3>2. QED
      BY <2>1, <2>2, <2>3, <2>4, <3>1 DEF IInv, Reach
  <2>6. \A d \in Ctx : pc'[d] # "idle" => frame'[d] >= 1
    BY <2>1, <1>1 DEF IInv, Reach, TypeOK, Check, TestOwn, Go, ringVars, histVars
  <2>7. CASE c = "thread"
    BY <2>7, <2>1, <2>4, <1>1, <2>5, <2>6, SMTT(30) DEF IInv, TypeOK, Reach, Runs, Check, TestOwn, Go, ringVars, histVars
  <2>8. CASE c = "timer"
    BY <2>8, <2>1, <2>4, <1>1, <2>5, <2>6, SMTT(30) DEF IInv, TypeOK, Reach, Runs, Check, TestOwn, Go, ringVars, histVars
  <2>9. QED
    BY <2>4, <2>7, <2>8
<1>4. Alone'
  <2> SUFFICES ASSUME ~overlapped' PROVE Alone'
    BY DEF Alone
  <2>1. ~overlapped /\ OneSender /\ Ring /\ \A d \in Ctx : Sender(d)
    BY DEF IInv, Alone, Check, TestOwn, Go, ringVars, histVars
  <2>2. Ring' /\ Free' = Free /\ UNCHANGED <<own, front, back>>
    BY <2>1, SameRing DEF Check, TestOwn, Go, ringVars, histVars
  <2>3. OneSender'
    BY <1>1, <2>1, <2>2, TxAssumption DEF IInv, TypeOK, OneSender, Sender, Slots, Check, TestOwn, Go, ringVars, histVars
  <2>4. \A d \in Ctx : d # c => pc'[d] = "idle"
    BY <2>3, <1>1, <2>1 DEF OneSender, IInv, TypeOK, Check, TestOwn, Go, ringVars, histVars
  <2>5. Sender(c)'
    BY <2>1, <2>2, TxAssumption DEF IInv, TypeOK, OneSender, Sender, Slots, Check, TestOwn, Go, ringVars, histVars
  <2>6. \A d \in Ctx : d # c => Sender(d)'
    BY <2>4 DEF Sender
  <2>7. QED
    BY <2>2, <2>3, <2>5, <2>6 DEF Alone
<1>5. QED
  BY <1>2, <1>3, <1>4 DEF IInv

\* It refuses a frame that is too long.
LEMMA TooBigInv == ASSUME IInv, NEW c \in Ctx, TooBig(c) PROVE IInv'
<1>1. \A d \in Ctx : d # c => pc'[d] = pc[d] /\ frame'[d] = frame[d] /\ at'[d] = at[d] /\ reg'[d] = reg[d]
  BY DEF IInv, TypeOK, TooBig, Go, ringVars, histVars
<1>2. TypeOK'
  BY DEF IInv, TypeOK, TooBig, Go, ringVars, histVars
<1>3. Reach'
  <2>1. /\ Count \in Nat \ {0, 1} /\ current_tx_buffer \in 0..Count /\ MaxSends \in Nat
        /\ calls \in 0..MaxSends /\ dropped \in 0..MaxSends
        /\ \A d \in Ctx : reg[d] \in 0..Count /\ frame[d] \in 0..MaxSends
    BY TxAssumption DEF IInv, TypeOK, Slots
  <2>2. \A d \in Ctx : d # c => Waits(d)' = Waits(d)
    BY <1>1 DEF Waits
  <2>3. Waits(c)' + dropped' - calls' <= Waits(c) + dropped - calls
    BY <2>1 DEF IInv, TypeOK, Waits, TooBig, Go, ringVars, histVars
  <2>4. "thread" \in Ctx /\ "timer" \in Ctx /\ (c = "thread" \/ c = "timer")
    BY DEF Ctx
  <2>5. (dropped + Waits("thread") + Waits("timer") <= calls)'
    <3>1. dropped' \in 0..MaxSends /\ calls' \in 0..MaxSends /\ \A d : Waits(d)' \in {0, 1} /\ Waits(d) \in {0, 1}
      BY <1>2 DEF TypeOK, Waits
    <3>2. QED
      BY <2>1, <2>2, <2>3, <2>4, <3>1 DEF IInv, Reach
  <2>6. \A d \in Ctx : pc'[d] # "idle" => frame'[d] >= 1
    BY <2>1, <1>1 DEF IInv, Reach, TypeOK, TooBig, Go, ringVars, histVars
  <2>7. CASE c = "thread"
    BY <2>7, <2>1, <2>4, <1>1, <2>5, <2>6, SMTT(30) DEF IInv, TypeOK, Reach, Runs, TooBig, Go, ringVars, histVars
  <2>8. CASE c = "timer"
    BY <2>8, <2>1, <2>4, <1>1, <2>5, <2>6, SMTT(30) DEF IInv, TypeOK, Reach, Runs, TooBig, Go, ringVars, histVars
  <2>9. QED
    BY <2>4, <2>7, <2>8
<1>4. Alone'
  <2> SUFFICES ASSUME ~overlapped' PROVE Alone'
    BY DEF Alone
  <2>1. ~overlapped /\ OneSender /\ Ring /\ \A d \in Ctx : Sender(d)
    BY DEF IInv, Alone, TooBig, Go, ringVars, histVars
  <2>2. Ring' /\ Free' = Free /\ UNCHANGED <<own, front, back>>
    BY <2>1, SameRing DEF TooBig, Go, ringVars, histVars
  <2>3. OneSender'
    BY <1>1, <2>1, <2>2, TxAssumption DEF IInv, TypeOK, OneSender, Sender, Slots, TooBig, Go, ringVars, histVars
  <2>4. \A d \in Ctx : d # c => pc'[d] = "idle"
    BY <2>3, <1>1, <2>1 DEF OneSender, IInv, TypeOK, TooBig, Go, ringVars, histVars
  <2>5. Sender(c)'
    BY <2>1, <2>2, TxAssumption DEF IInv, TypeOK, OneSender, Sender, Slots, TooBig, Go, ringVars, histVars
  <2>6. \A d \in Ctx : d # c => Sender(d)'
    BY <2>4 DEF Sender
  <2>7. QED
    BY <2>2, <2>3, <2>5, <2>6 DEF Alone
<1>5. QED
  BY <1>2, <1>3, <1>4 DEF IInv

\* It tests for the end of the ring.
LEMMA AdvanceInv == ASSUME IInv, NEW c \in Ctx, Advance(c) PROVE IInv'
<1>1. \A d \in Ctx : d # c => pc'[d] = pc[d] /\ frame'[d] = frame[d] /\ at'[d] = at[d] /\ reg'[d] = reg[d]
  BY DEF IInv, TypeOK, Advance, WrapTest, Go, ringVars, histVars
<1>2. TypeOK'
  BY DEF IInv, TypeOK, Advance, WrapTest, Go, ringVars, histVars
<1>3. Reach'
  <2>1. /\ Count \in Nat \ {0, 1} /\ current_tx_buffer \in 0..Count /\ MaxSends \in Nat
        /\ calls \in 0..MaxSends /\ dropped \in 0..MaxSends
        /\ \A d \in Ctx : reg[d] \in 0..Count /\ frame[d] \in 0..MaxSends
    BY TxAssumption DEF IInv, TypeOK, Slots
  <2>2. \A d \in Ctx : d # c => Waits(d)' = Waits(d)
    BY <1>1 DEF Waits
  <2>3. Waits(c)' + dropped' - calls' <= Waits(c) + dropped - calls
    BY <2>1 DEF IInv, TypeOK, Waits, Advance, WrapTest, Go, ringVars, histVars
  <2>4. "thread" \in Ctx /\ "timer" \in Ctx /\ (c = "thread" \/ c = "timer")
    BY DEF Ctx
  <2>5. (dropped + Waits("thread") + Waits("timer") <= calls)'
    <3>1. dropped' \in 0..MaxSends /\ calls' \in 0..MaxSends /\ \A d : Waits(d)' \in {0, 1} /\ Waits(d) \in {0, 1}
      BY <1>2 DEF TypeOK, Waits
    <3>2. QED
      BY <2>1, <2>2, <2>3, <2>4, <3>1 DEF IInv, Reach
  <2>6. \A d \in Ctx : pc'[d] # "idle" => frame'[d] >= 1
    BY <2>1, <1>1 DEF IInv, Reach, TypeOK, Advance, WrapTest, Go, ringVars, histVars
  <2>7. CASE c = "thread"
    BY <2>7, <2>1, <2>4, <1>1, <2>5, <2>6, SMTT(30) DEF IInv, TypeOK, Reach, Runs, Advance, WrapTest, Go, ringVars, histVars
  <2>8. CASE c = "timer"
    BY <2>8, <2>1, <2>4, <1>1, <2>5, <2>6, SMTT(30) DEF IInv, TypeOK, Reach, Runs, Advance, WrapTest, Go, ringVars, histVars
  <2>9. QED
    BY <2>4, <2>7, <2>8
<1>4. Alone'
  <2> SUFFICES ASSUME ~overlapped' PROVE Alone'
    BY DEF Alone
  <2>1. ~overlapped /\ OneSender /\ Ring /\ \A d \in Ctx : Sender(d)
    BY DEF IInv, Alone, Advance, WrapTest, Go, ringVars, histVars
  <2>2. Ring' /\ Free' = Free /\ UNCHANGED <<own, front, back>>
    BY <2>1, SameRing DEF Advance, WrapTest, Go, ringVars, histVars
  <2>3. OneSender'
    BY <1>1, <2>1, <2>2, TxAssumption DEF IInv, TypeOK, OneSender, Sender, Slots, Advance, WrapTest, Go, ringVars, histVars
  <2>4. \A d \in Ctx : d # c => pc'[d] = "idle"
    BY <2>3, <1>1, <2>1 DEF OneSender, IInv, TypeOK, Advance, WrapTest, Go, ringVars, histVars
  <2>5. Sender(c)'
    BY <2>1, <2>2, TxAssumption, SMTT(30) DEF IInv, TypeOK, OneSender, Sender, Slots, Advance, WrapTest, Go, ringVars, histVars
  <2>6. \A d \in Ctx : d # c => Sender(d)'
    BY <2>4 DEF Sender
  <2>7. QED
    BY <2>2, <2>3, <2>5, <2>6 DEF Alone
<1>5. QED
  BY <1>2, <1>3, <1>4 DEF IInv

\* It goes back to the first descriptor.
LEMMA WrapInv == ASSUME IInv, NEW c \in Ctx, Wrap(c) PROVE IInv'
<1>1. \A d \in Ctx : d # c => pc'[d] = pc[d] /\ frame'[d] = frame[d] /\ at'[d] = at[d] /\ reg'[d] = reg[d]
  BY DEF IInv, TypeOK, Wrap, Go, ringVars, histVars
<1>2. TypeOK'
  <2>1. current_tx_buffer' \in Slots
    BY TxAssumption DEF IInv, TypeOK, Slots, Wrap
  <2>2. QED
    BY <2>1 DEF IInv, TypeOK, Wrap, Go, ringVars, histVars
<1>3. Reach'
  <2>1. /\ Count \in Nat \ {0, 1} /\ current_tx_buffer \in 0..Count /\ MaxSends \in Nat
        /\ calls \in 0..MaxSends /\ dropped \in 0..MaxSends
        /\ \A d \in Ctx : reg[d] \in 0..Count /\ frame[d] \in 0..MaxSends
    BY TxAssumption DEF IInv, TypeOK, Slots
  <2>2. \A d \in Ctx : d # c => Waits(d)' = Waits(d)
    BY <1>1 DEF Waits
  <2>3. Waits(c)' + dropped' - calls' <= Waits(c) + dropped - calls
    BY <2>1 DEF IInv, TypeOK, Waits, Wrap, Go, ringVars, histVars
  <2>4. "thread" \in Ctx /\ "timer" \in Ctx /\ (c = "thread" \/ c = "timer")
    BY DEF Ctx
  <2>5. (dropped + Waits("thread") + Waits("timer") <= calls)'
    <3>1. dropped' \in 0..MaxSends /\ calls' \in 0..MaxSends /\ \A d : Waits(d)' \in {0, 1} /\ Waits(d) \in {0, 1}
      BY <1>2 DEF TypeOK, Waits
    <3>2. QED
      BY <2>1, <2>2, <2>3, <2>4, <3>1 DEF IInv, Reach
  <2>6. \A d \in Ctx : pc'[d] # "idle" => frame'[d] >= 1
    BY <2>1, <1>1 DEF IInv, Reach, TypeOK, Wrap, Go, ringVars, histVars
  <2>7. CASE c = "thread"
    BY <2>7, <2>1, <2>4, <1>1, <2>5, <2>6, SMTT(30) DEF IInv, TypeOK, Reach, Runs, Wrap, Go, ringVars, histVars
  <2>8. CASE c = "timer"
    BY <2>8, <2>1, <2>4, <1>1, <2>5, <2>6, SMTT(30) DEF IInv, TypeOK, Reach, Runs, Wrap, Go, ringVars, histVars
  <2>9. QED
    BY <2>4, <2>7, <2>8
<1>4. Alone'
  <2> SUFFICES ASSUME ~overlapped' PROVE Alone'
    BY DEF Alone
  <2>1. ~overlapped /\ OneSender /\ Ring /\ \A d \in Ctx : Sender(d)
    BY DEF IInv, Alone, Wrap, Go, ringVars, histVars
  <2>2. Ring' /\ Free' = Free /\ UNCHANGED <<own, front, back>>
    BY <2>1, SameRing DEF Wrap, Go, ringVars, histVars
  <2>3. OneSender'
    BY <1>1, <2>1, <2>2, TxAssumption DEF IInv, TypeOK, OneSender, Sender, Slots, Wrap, Go, ringVars, histVars
  <2>4. \A d \in Ctx : d # c => pc'[d] = "idle"
    BY <2>3, <1>1, <2>1 DEF OneSender, IInv, TypeOK, Wrap, Go, ringVars, histVars
  <2>5. Sender(c)'
    BY <2>1, <2>2, TxAssumption DEF IInv, TypeOK, OneSender, Sender, Slots, Wrap, Go, ringVars, histVars
  <2>6. \A d \in Ctx : d # c => Sender(d)'
    BY <2>4 DEF Sender
  <2>7. QED
    BY <2>2, <2>3, <2>5, <2>6 DEF Alone
<1>5. QED
  BY <1>2, <1>3, <1>4 DEF IInv

\* It loads its position ...
LEMMA IncLoadInv == ASSUME IInv, NEW c \in Ctx, IncLoad(c) PROVE IInv'
<1>1. \A d \in Ctx : d # c => pc'[d] = pc[d] /\ frame'[d] = frame[d] /\ at'[d] = at[d] /\ reg'[d] = reg[d]
  BY DEF IInv, TypeOK, IncLoad, Go, ringVars, histVars
<1>2. TypeOK'
  BY DEF IInv, TypeOK, IncLoad, Go, ringVars, histVars
<1>3. Reach'
  <2>1. /\ Count \in Nat \ {0, 1} /\ current_tx_buffer \in 0..Count /\ MaxSends \in Nat
        /\ calls \in 0..MaxSends /\ dropped \in 0..MaxSends
        /\ \A d \in Ctx : reg[d] \in 0..Count /\ frame[d] \in 0..MaxSends
    BY TxAssumption DEF IInv, TypeOK, Slots
  <2>2. \A d \in Ctx : d # c => Waits(d)' = Waits(d)
    BY <1>1 DEF Waits
  <2>3. Waits(c)' + dropped' - calls' <= Waits(c) + dropped - calls
    BY <2>1 DEF IInv, TypeOK, Waits, IncLoad, Go, ringVars, histVars
  <2>4. "thread" \in Ctx /\ "timer" \in Ctx /\ (c = "thread" \/ c = "timer")
    BY DEF Ctx
  <2>5. (dropped + Waits("thread") + Waits("timer") <= calls)'
    <3>1. dropped' \in 0..MaxSends /\ calls' \in 0..MaxSends /\ \A d : Waits(d)' \in {0, 1} /\ Waits(d) \in {0, 1}
      BY <1>2 DEF TypeOK, Waits
    <3>2. QED
      BY <2>1, <2>2, <2>3, <2>4, <3>1 DEF IInv, Reach
  <2>6. \A d \in Ctx : pc'[d] # "idle" => frame'[d] >= 1
    BY <2>1, <1>1 DEF IInv, Reach, TypeOK, IncLoad, Go, ringVars, histVars
  <2>7. CASE c = "thread"
    BY <2>7, <2>1, <2>4, <1>1, <2>5, <2>6, SMTT(30) DEF IInv, TypeOK, Reach, Runs, IncLoad, Go, ringVars, histVars
  <2>8. CASE c = "timer"
    BY <2>8, <2>1, <2>4, <1>1, <2>5, <2>6, SMTT(30) DEF IInv, TypeOK, Reach, Runs, IncLoad, Go, ringVars, histVars
  <2>9. QED
    BY <2>4, <2>7, <2>8
<1>4. Alone'
  <2> SUFFICES ASSUME ~overlapped' PROVE Alone'
    BY DEF Alone
  <2>1. ~overlapped /\ OneSender /\ Ring /\ \A d \in Ctx : Sender(d)
    BY DEF IInv, Alone, IncLoad, Go, ringVars, histVars
  <2>2. Ring' /\ Free' = Free /\ UNCHANGED <<own, front, back>>
    BY <2>1, SameRing DEF IncLoad, Go, ringVars, histVars
  <2>3. OneSender'
    BY <1>1, <2>1, <2>2, TxAssumption DEF IInv, TypeOK, OneSender, Sender, Slots, IncLoad, Go, ringVars, histVars
  <2>4. \A d \in Ctx : d # c => pc'[d] = "idle"
    BY <2>3, <1>1, <2>1 DEF OneSender, IInv, TypeOK, IncLoad, Go, ringVars, histVars
  <2>5. Sender(c)'
    BY <2>1, <2>2, TxAssumption DEF IInv, TypeOK, OneSender, Sender, Slots, IncLoad, Go, ringVars, histVars
  <2>6. \A d \in Ctx : d # c => Sender(d)'
    BY <2>4 DEF Sender
  <2>7. QED
    BY <2>2, <2>3, <2>5, <2>6 DEF Alone
<1>5. QED
  BY <1>2, <1>3, <1>4 DEF IInv

\* ... and stores the next one.
LEMMA IncStoreInv == ASSUME IInv, NEW c \in Ctx, IncStore(c) PROVE IInv'
<1>1. \A d \in Ctx : d # c => pc'[d] = pc[d] /\ frame'[d] = frame[d] /\ at'[d] = at[d] /\ reg'[d] = reg[d]
  BY DEF IInv, TypeOK, IncStore, Go, ringVars, histVars
<1>2. TypeOK'
  <2>1. c \in {"thread", "timer"} /\ reg[c] \in 0..Count /\ Count \in Nat
    BY TxAssumption DEF Ctx, IInv, TypeOK, Slots
  <2>2. reg[c] <= Count - 1
    BY <2>1 DEF IInv, Reach, IncStore
  <2>3. current_tx_buffer' \in Slots
    BY <2>1, <2>2 DEF IncStore, Slots
  <2>4. QED
    BY <2>3 DEF IInv, TypeOK, IncStore, Go, ringVars, histVars
<1>3. Reach'
  <2>1. /\ Count \in Nat \ {0, 1} /\ current_tx_buffer \in 0..Count /\ MaxSends \in Nat
        /\ calls \in 0..MaxSends /\ dropped \in 0..MaxSends
        /\ \A d \in Ctx : reg[d] \in 0..Count /\ frame[d] \in 0..MaxSends
    BY TxAssumption DEF IInv, TypeOK, Slots
  <2>2. \A d \in Ctx : d # c => Waits(d)' = Waits(d)
    BY <1>1 DEF Waits
  <2>3. Waits(c)' + dropped' - calls' <= Waits(c) + dropped - calls
    BY <2>1 DEF IInv, TypeOK, Waits, IncStore, Go, ringVars, histVars
  <2>4. "thread" \in Ctx /\ "timer" \in Ctx /\ (c = "thread" \/ c = "timer")
    BY DEF Ctx
  <2>5. (dropped + Waits("thread") + Waits("timer") <= calls)'
    <3>1. dropped' \in 0..MaxSends /\ calls' \in 0..MaxSends /\ \A d : Waits(d)' \in {0, 1} /\ Waits(d) \in {0, 1}
      BY <1>2 DEF TypeOK, Waits
    <3>2. QED
      BY <2>1, <2>2, <2>3, <2>4, <3>1 DEF IInv, Reach
  <2>6. \A d \in Ctx : pc'[d] # "idle" => frame'[d] >= 1
    BY <2>1, <1>1 DEF IInv, Reach, TypeOK, IncStore, Go, ringVars, histVars
  <2>7. CASE c = "thread"
    BY <2>7, <2>1, <2>4, <1>1, <2>5, <2>6, SMTT(30) DEF IInv, TypeOK, Reach, Runs, IncStore, Go, ringVars, histVars
  <2>8. CASE c = "timer"
    BY <2>8, <2>1, <2>4, <1>1, <2>5, <2>6, SMTT(30) DEF IInv, TypeOK, Reach, Runs, IncStore, Go, ringVars, histVars
  <2>9. QED
    BY <2>4, <2>7, <2>8
<1>4. Alone'
  <2> SUFFICES ASSUME ~overlapped' PROVE Alone'
    BY DEF Alone
  <2>1. ~overlapped /\ OneSender /\ Ring /\ \A d \in Ctx : Sender(d)
    BY DEF IInv, Alone, IncStore, Go, ringVars, histVars
  <2>2. Ring' /\ Free' = Free /\ UNCHANGED <<own, front, back>>
    BY <2>1, SameRing DEF IncStore, Go, ringVars, histVars
  <2>3. OneSender'
    <3>1. pc[c] = "store" /\ current_tx_buffer \in 0..Count /\ Count \in Nat
      BY TxAssumption DEF IInv, TypeOK, Slots, IncStore
    <3>2. reg[c] = current_tx_buffer /\ current_tx_buffer <= Count - 2
      BY <2>1, <3>1 DEF Sender
    <3>3. current_tx_buffer' = current_tx_buffer + 1
      BY <3>2 DEF IncStore
    <3>4. current_tx_buffer' = Free' /\ current_tx_buffer' <= Count - 1
      BY <2>1, <2>2, <3>1, <3>2, <3>3 DEF Sender
    <3>5. \A d \in Ctx : pc'[d] = "idle"
      BY <1>1, <2>1 DEF OneSender, IInv, TypeOK, IncStore, Go
    <3>6. QED
      BY <3>4, <3>5 DEF OneSender
  <2>4. \A d \in Ctx : d # c => pc'[d] = "idle"
    BY <2>3, <1>1, <2>1 DEF OneSender, IInv, TypeOK, IncStore, Go, ringVars, histVars
  <2>5. Sender(c)'
    BY <2>1, <2>2, TxAssumption DEF IInv, TypeOK, OneSender, Sender, Slots, IncStore, Go, ringVars, histVars
  <2>6. \A d \in Ctx : d # c => Sender(d)'
    BY <2>4 DEF Sender
  <2>7. QED
    BY <2>2, <2>3, <2>5, <2>6 DEF Alone
<1>5. QED
  BY <1>2, <1>3, <1>4 DEF IInv

\* It copies the first half of the frame ...
LEMMA CopyFrontInv == ASSUME IInv, NEW c \in Ctx, CopyFront(c) PROVE IInv'
<1>1. \A d \in Ctx : d # c => pc'[d] = pc[d] /\ frame'[d] = frame[d] /\ at'[d] = at[d] /\ reg'[d] = reg[d]
  BY DEF IInv, TypeOK, CopyFront, Go, histVars
<1>2. TypeOK'
  <2>1. current_tx_buffer \in Slots /\ frame[c] \in 0..MaxSends /\ at[c] \in Slots
    BY TxAssumption DEF IInv, TypeOK, Slots, CopyFront
  <2>2. QED
    BY <2>1 DEF IInv, TypeOK, CopyFront, Go, histVars
<1>3. Reach'
  <2>1. /\ Count \in Nat \ {0, 1} /\ current_tx_buffer \in 0..Count /\ MaxSends \in Nat
        /\ calls \in 0..MaxSends /\ dropped \in 0..MaxSends
        /\ \A d \in Ctx : reg[d] \in 0..Count /\ frame[d] \in 0..MaxSends
    BY TxAssumption DEF IInv, TypeOK, Slots
  <2>2. \A d \in Ctx : d # c => Waits(d)' = Waits(d)
    BY <1>1 DEF Waits
  <2>3. Waits(c)' + dropped' - calls' <= Waits(c) + dropped - calls
    BY <2>1 DEF IInv, TypeOK, Waits, CopyFront, Go, histVars
  <2>4. "thread" \in Ctx /\ "timer" \in Ctx /\ (c = "thread" \/ c = "timer")
    BY DEF Ctx
  <2>5. (dropped + Waits("thread") + Waits("timer") <= calls)'
    <3>1. dropped' \in 0..MaxSends /\ calls' \in 0..MaxSends /\ \A d : Waits(d)' \in {0, 1} /\ Waits(d) \in {0, 1}
      BY <1>2 DEF TypeOK, Waits
    <3>2. QED
      BY <2>1, <2>2, <2>3, <2>4, <3>1 DEF IInv, Reach
  <2>6. \A d \in Ctx : pc'[d] # "idle" => frame'[d] >= 1
    BY <2>1, <1>1 DEF IInv, Reach, TypeOK, CopyFront, Go, histVars
  <2>7. CASE c = "thread"
    BY <2>7, <2>1, <2>4, <1>1, <2>5, <2>6, SMTT(30) DEF IInv, TypeOK, Reach, Runs, CopyFront, Go, histVars
  <2>8. CASE c = "timer"
    BY <2>8, <2>1, <2>4, <1>1, <2>5, <2>6, SMTT(30) DEF IInv, TypeOK, Reach, Runs, CopyFront, Go, histVars
  <2>9. QED
    BY <2>4, <2>7, <2>8
<1>4. Alone'
  <2> SUFFICES ASSUME ~overlapped' PROVE Alone'
    BY DEF Alone
  <2>1. ~overlapped /\ OneSender /\ Ring /\ \A d \in Ctx : Sender(d)
    BY DEF IInv, Alone, CopyFront, Go, histVars
  <2>2. /\ ~own[current_tx_buffer] /\ current_tx_buffer = current_tx_buffer
        /\ UNCHANGED <<own, devIndex, accepted, wire, current_tx_buffer>>
    BY <2>1 DEF Sender, CopyFront, Go, histVars
  <2>3. InFlight' = InFlight /\ (\A k : Pos(k)' = Pos(k)) /\ Free' = Free
    BY <2>2 DEF InFlight, Pos, Free
  <2>4. \A k \in 0..InFlight-1 : /\ front'[Pos(k)] = front[Pos(k)]
                                 /\ back'[Pos(k)] = back[Pos(k)]
    <3>1. InFlight \in 0..Count /\ Count \in Nat
      BY <2>1, TxAssumption DEF Ring
    <3>2. \A k \in 0..InFlight-1 : k \in 0..Count-1 /\ k < InFlight
      BY <3>1
    <3>3. \A k \in 0..InFlight-1 : own[Pos(k)]
      BY <3>2, <2>1 DEF Ring
    <3>4. \A k \in 0..InFlight-1 : Pos(k) # current_tx_buffer
      BY <3>3, <2>2
    <3>5. \A k \in 0..InFlight-1 : Pos(k) \in Slots
      BY <3>2, PosProps, TxAssumption DEF IInv, Slots
    <3>6. QED
      BY <3>4, <3>5, <2>2 DEF IInv, TypeOK, CopyFront, Go, histVars
  <2>5. Ring'
    BY <2>1, <2>2, <2>3, <2>4 DEF Ring
  <2>6. OneSender'
    BY <1>1, <2>1, <2>2, <2>3 DEF IInv, TypeOK, OneSender, CopyFront, Go, histVars
  <2>7. \A d \in Ctx : d # c => pc'[d] = "idle"
    BY <1>1, <2>1 DEF OneSender, IInv, TypeOK, CopyFront, Go, histVars
  <2>8. Sender(c)'
    BY <2>1, <2>2, <2>3 DEF IInv, TypeOK, Sender, CopyFront, Go, histVars
  <2>9. \A d \in Ctx : d # c => Sender(d)'
    BY <2>7 DEF Sender
  <2>10. QED
    BY <2>5, <2>6, <2>8, <2>9 DEF Alone
<1>5. QED
  BY <1>2, <1>3, <1>4 DEF IInv

\* ... and the second.
LEMMA CopyBackInv == ASSUME IInv, NEW c \in Ctx, CopyBack(c) PROVE IInv'
<1>1. \A d \in Ctx : d # c => pc'[d] = pc[d] /\ frame'[d] = frame[d] /\ at'[d] = at[d] /\ reg'[d] = reg[d]
  BY DEF IInv, TypeOK, CopyBack, Go, histVars
<1>2. TypeOK'
  <2>1. current_tx_buffer \in Slots /\ frame[c] \in 0..MaxSends /\ at[c] \in Slots
    BY TxAssumption DEF IInv, TypeOK, Slots, CopyBack
  <2>2. QED
    BY <2>1 DEF IInv, TypeOK, CopyBack, Go, histVars
<1>3. Reach'
  <2>1. /\ Count \in Nat \ {0, 1} /\ current_tx_buffer \in 0..Count /\ MaxSends \in Nat
        /\ calls \in 0..MaxSends /\ dropped \in 0..MaxSends
        /\ \A d \in Ctx : reg[d] \in 0..Count /\ frame[d] \in 0..MaxSends
    BY TxAssumption DEF IInv, TypeOK, Slots
  <2>2. \A d \in Ctx : d # c => Waits(d)' = Waits(d)
    BY <1>1 DEF Waits
  <2>3. Waits(c)' + dropped' - calls' <= Waits(c) + dropped - calls
    BY <2>1 DEF IInv, TypeOK, Waits, CopyBack, Go, histVars
  <2>4. "thread" \in Ctx /\ "timer" \in Ctx /\ (c = "thread" \/ c = "timer")
    BY DEF Ctx
  <2>5. (dropped + Waits("thread") + Waits("timer") <= calls)'
    <3>1. dropped' \in 0..MaxSends /\ calls' \in 0..MaxSends /\ \A d : Waits(d)' \in {0, 1} /\ Waits(d) \in {0, 1}
      BY <1>2 DEF TypeOK, Waits
    <3>2. QED
      BY <2>1, <2>2, <2>3, <2>4, <3>1 DEF IInv, Reach
  <2>6. \A d \in Ctx : pc'[d] # "idle" => frame'[d] >= 1
    BY <2>1, <1>1 DEF IInv, Reach, TypeOK, CopyBack, Go, histVars
  <2>7. CASE c = "thread"
    BY <2>7, <2>1, <2>4, <1>1, <2>5, <2>6, SMTT(30) DEF IInv, TypeOK, Reach, Runs, CopyBack, Go, histVars
  <2>8. CASE c = "timer"
    BY <2>8, <2>1, <2>4, <1>1, <2>5, <2>6, SMTT(30) DEF IInv, TypeOK, Reach, Runs, CopyBack, Go, histVars
  <2>9. QED
    BY <2>4, <2>7, <2>8
<1>4. Alone'
  <2> SUFFICES ASSUME ~overlapped' PROVE Alone'
    BY DEF Alone
  <2>1. ~overlapped /\ OneSender /\ Ring /\ \A d \in Ctx : Sender(d)
    BY DEF IInv, Alone, CopyBack, Go, histVars
  <2>2. /\ ~own[current_tx_buffer] /\ at[c] = current_tx_buffer
        /\ UNCHANGED <<own, devIndex, accepted, wire, current_tx_buffer>>
    BY <2>1 DEF Sender, CopyBack, Go, histVars
  <2>3. InFlight' = InFlight /\ (\A k : Pos(k)' = Pos(k)) /\ Free' = Free
    BY <2>2 DEF InFlight, Pos, Free
  <2>4. \A k \in 0..InFlight-1 : /\ front'[Pos(k)] = front[Pos(k)]
                                 /\ back'[Pos(k)] = back[Pos(k)]
    <3>1. InFlight \in 0..Count /\ Count \in Nat
      BY <2>1, TxAssumption DEF Ring
    <3>2. \A k \in 0..InFlight-1 : k \in 0..Count-1 /\ k < InFlight
      BY <3>1
    <3>3. \A k \in 0..InFlight-1 : own[Pos(k)]
      BY <3>2, <2>1 DEF Ring
    <3>4. \A k \in 0..InFlight-1 : Pos(k) # current_tx_buffer
      BY <3>3, <2>2
    <3>5. \A k \in 0..InFlight-1 : Pos(k) \in Slots
      BY <3>2, PosProps, TxAssumption DEF IInv, Slots
    <3>6. QED
      BY <3>4, <3>5, <2>2 DEF IInv, TypeOK, CopyBack, Go, histVars
  <2>5. Ring'
    BY <2>1, <2>2, <2>3, <2>4 DEF Ring
  <2>6. OneSender'
    BY <1>1, <2>1, <2>2, <2>3 DEF IInv, TypeOK, OneSender, CopyBack, Go, histVars
  <2>7. \A d \in Ctx : d # c => pc'[d] = "idle"
    BY <1>1, <2>1 DEF OneSender, IInv, TypeOK, CopyBack, Go, histVars
  <2>8. Sender(c)'
    BY <2>1, <2>2, <2>3 DEF IInv, TypeOK, Sender, CopyBack, Go, histVars
  <2>9. \A d \in Ctx : d # c => Sender(d)'
    BY <2>7 DEF Sender
  <2>10. QED
    BY <2>5, <2>6, <2>8, <2>9 DEF Alone
<1>5. QED
  BY <1>2, <1>3, <1>4 DEF IInv

\* It gives the descriptor to the card.
LEMMA FlagInv == ASSUME IInv, NEW c \in Ctx, Flag(c) PROVE IInv'
<1>1. \A d \in Ctx : d # c => pc'[d] = pc[d] /\ frame'[d] = frame[d] /\ at'[d] = at[d] /\ reg'[d] = reg[d]
  BY DEF IInv, TypeOK, Flag, Go
<1>2. TypeOK'
  <2>1. current_tx_buffer \in Slots /\ frame[c] \in 1..MaxSends /\ accepted \in Seq(1..MaxSends)
    BY TxAssumption DEF IInv, TypeOK, Reach, Flag
  <2>2. accepted' \in Seq(1..MaxSends)
    BY <2>1, AppendProps DEF Flag
  <2>3. own' \in [Slots -> BOOLEAN]
    BY DEF IInv, TypeOK, Flag
  <2>4. QED
    BY <2>2, <2>3 DEF IInv, TypeOK, Flag, Go
<1>3. Reach'
  <2>1. /\ Count \in Nat \ {0, 1} /\ current_tx_buffer \in 0..Count /\ MaxSends \in Nat
        /\ calls \in 0..MaxSends /\ dropped \in 0..MaxSends
        /\ \A d \in Ctx : reg[d] \in 0..Count /\ frame[d] \in 0..MaxSends
    BY TxAssumption DEF IInv, TypeOK, Slots
  <2>2. \A d \in Ctx : d # c => Waits(d)' = Waits(d)
    BY <1>1 DEF Waits
  <2>3. Waits(c)' + dropped' - calls' <= Waits(c) + dropped - calls
    BY <2>1 DEF IInv, TypeOK, Waits, Flag, Go
  <2>4. "thread" \in Ctx /\ "timer" \in Ctx /\ (c = "thread" \/ c = "timer")
    BY DEF Ctx
  <2>5. (dropped + Waits("thread") + Waits("timer") <= calls)'
    <3>1. dropped' \in 0..MaxSends /\ calls' \in 0..MaxSends /\ \A d : Waits(d)' \in {0, 1} /\ Waits(d) \in {0, 1}
      BY <1>2 DEF TypeOK, Waits
    <3>2. QED
      BY <2>1, <2>2, <2>3, <2>4, <3>1 DEF IInv, Reach
  <2>6. \A d \in Ctx : pc'[d] # "idle" => frame'[d] >= 1
    BY <2>1, <1>1 DEF IInv, Reach, TypeOK, Flag, Go
  <2>7. CASE c = "thread"
    BY <2>7, <2>1, <2>4, <1>1, <2>5, <2>6, SMTT(30) DEF IInv, TypeOK, Reach, Runs, Flag, Go
  <2>8. CASE c = "timer"
    BY <2>8, <2>1, <2>4, <1>1, <2>5, <2>6, SMTT(30) DEF IInv, TypeOK, Reach, Runs, Flag, Go
  <2>9. QED
    BY <2>4, <2>7, <2>8
<1>4. Alone'
  <2> SUFFICES ASSUME ~overlapped' PROVE Alone'
    BY DEF Alone
  <2> DEFINE n == InFlight
             w == Len(wire)
  <2>1. ~overlapped /\ OneSender /\ Ring /\ \A d \in Ctx : Sender(d)
    BY DEF IInv, Alone, Flag
  <2>2. /\ pc[c] = "flag" /\ ~own[current_tx_buffer] /\ current_tx_buffer = Free
        /\ front[current_tx_buffer] = frame[c] /\ back[current_tx_buffer] = frame[c]
        /\ UNCHANGED <<devIndex, wire, current_tx_buffer, front, back>>
    BY <2>1 DEF Sender, Flag
  <2>3. /\ Count \in Nat \ {0, 1} /\ n \in 0..Count /\ w \in Nat
        /\ accepted \in Seq(1..MaxSends) /\ frame[c] \in 1..MaxSends
    <3>1. /\ Count \in Nat \ {0, 1} /\ n \in 0..Count
          /\ accepted \in Seq(1..MaxSends) /\ wire \in Seq((0..MaxSends) \X (0..MaxSends))
      BY <2>1, TxAssumption DEF Ring, IInv, TypeOK
    <3>2. w \in Nat
      BY <3>1
    <3>3. frame[c] \in 1..MaxSends
      BY TxAssumption DEF IInv, TypeOK, Reach, Flag
    <3>4. QED
      BY <3>1, <3>2, <3>3
  <2>4. n \in 0..Count-1
    <3> SUFFICES ASSUME n = Count PROVE FALSE
      BY <2>3
    <3>1. current_tx_buffer = Pos(0)
      BY <2>2, PosProps DEF Free, IInv
    <3>2. 0 \in 0..Count-1 /\ 0 < n
      BY <2>3
    <3>3. QED
      BY <3>1, <3>2, <2>1, <2>2 DEF Ring
  <2>5. /\ accepted' = Append(accepted, frame[c]) /\ Len(accepted') = Len(accepted) + 1
        /\ Len(accepted) = w + n /\ Len(accepted) \in Nat
        /\ \A i \in 1..w+n : accepted'[i] = accepted[i]
        /\ accepted'[w + n + 1] = frame[c]
    <3>1. accepted' = Append(accepted, frame[c]) /\ Len(accepted) \in Nat
      BY <2>3 DEF Flag
    <3>2. Len(accepted) = w + n
      BY <3>1, <2>3 DEF InFlight
    <3>3. /\ Len(accepted') = Len(accepted) + 1
          /\ \A i \in 1..Len(accepted) : accepted'[i] = accepted[i]
          /\ accepted'[Len(accepted) + 1] = frame[c]
      BY <3>1, <2>3, AppendProps
    <3>4. QED
      BY <3>1, <3>2, <3>3
  <2>6. InFlight' = n + 1 /\ \A k : Pos(k)' = Pos(k)
    <3>1. \A k : Pos(k)' = Pos(k)
      BY <2>2 DEF Pos
    <3>2. QED
      BY <3>1, <2>2, <2>3, <2>5 DEF InFlight
  <2>7. Free' = Pos(n + 1)
    BY <2>2, <2>6 DEF Free, Pos
  <2>8. \A k \in 0..Count-1 : own'[Pos(k)] <=> k < n + 1
    <3> SUFFICES ASSUME NEW k \in 0..Count-1 PROVE own'[Pos(k)] <=> k < n + 1
      OBVIOUS
    <3>1. /\ Pos(k) \in Slots /\ current_tx_buffer = Pos(n)
          /\ Pos(k) = Pos(n) => k = n
      <4>1. Pos(k) \in 0..Count-1 /\ (Pos(k) = Pos(n) => k = n)
        BY <2>4, PosProps DEF IInv
      <4>2. QED
        BY <4>1, <2>2, <2>3 DEF Slots, Free
    <3>2. own'[Pos(k)] <=> own[Pos(k)] \/ k = n
      BY <3>1 DEF Flag, IInv, TypeOK
    <3>3. own[Pos(k)] <=> k < n
      BY <2>1 DEF Ring
    <3>4. QED
      BY <3>2, <3>3, <2>3
  <2>9. \A k \in 0..n : /\ front[Pos(k)] = accepted'[w + 1 + k]
                        /\ back[Pos(k)] = accepted'[w + 1 + k]
    <3>1. \A k \in 0..n : k = n \/ k \in 0..n-1
      BY <2>3
    <3>2. \A k \in 0..n-1 : w + 1 + k \in 1..w+n
      BY <2>3
    <3>3. w + 1 + n = w + n + 1
      BY <2>3
    <3>4. \A k \in 0..n-1 : /\ front[Pos(k)] = accepted[w + 1 + k]
                            /\ back[Pos(k)] = accepted[w + 1 + k]
      BY <2>1 DEF Ring
    <3>5. front[Pos(n)] = frame[c] /\ back[Pos(n)] = frame[c]
      BY <2>2 DEF Free
    <3>6. QED
      BY <3>1, <3>2, <3>3, <3>4, <3>5, <2>5
  <2>10. Ring'
    <3>1. n + 1 \in 0..Count /\ (n + 1) - 1 = n
      BY <2>3, <2>4
    <3>2. \A i \in 1..w : wire[i] = <<accepted'[i], accepted'[i]>>
      <4>1. \A i \in 1..w : i \in 1..w+n
        BY <2>3
      <4>2. QED
        BY <4>1, <2>1, <2>5 DEF Ring
    <3> HIDE DEF n
    <3>3. QED
      BY <3>1, <3>2, <2>2, <2>6, <2>8, <2>9 DEF Ring
  <2>11. OneSender'
    <3>1. pc'[c] = "advance" /\ \A d \in Ctx : pc'[d] # "idle" => d = c
      BY <1>1, <2>1, <2>2 DEF OneSender, IInv, TypeOK, Flag, Go
    <3>2. QED
      BY <3>1, <2>1, <2>2 DEF OneSender
  <2>12. \A d \in Ctx : d # c => pc'[d] = "idle"
    BY <1>1, <2>1, <2>2 DEF OneSender
  <2>13. Sender(c)'
    <3>1. pc'[c] = "advance"
      BY DEF IInv, TypeOK, Flag, Go
    <3>2. Free' = IF current_tx_buffer = Count - 1 THEN 0 ELSE current_tx_buffer + 1
      BY <2>2, <2>4, <2>7, PosProps DEF Free, IInv
    <3>3. QED
      BY <3>1, <3>2, <2>2 DEF Sender
  <2>14. \A d \in Ctx : d # c => Sender(d)'
    BY <2>12 DEF Sender
  <2>15. QED
    BY <2>10, <2>11, <2>13, <2>14 DEF Alone
<1>5. QED
  BY <1>2, <1>3, <1>4 DEF IInv

-----------------------------------------------------------------------------
\* Every step of the card and of the two contexts preserves the invariant.
LEMMA NextInv == IInv /\ [Next]_vars => IInv'
<1> SUFFICES ASSUME IInv, [Next]_vars PROVE IInv'
  OBVIOUS
<1>1. CASE Transmit
  BY <1>1, TransmitInv
<1>2. ASSUME NEW c \in Ctx, Call(c) \/ Send(c) PROVE IInv'
  BY <1>2, CallInv, CheckInv, TooBigInv, CopyFrontInv, CopyBackInv, FlagInv,
     AdvanceInv, WrapInv, IncLoadInv, IncStoreInv DEF Send
<1>3. CASE UNCHANGED vars
  <2>1. TypeOK' /\ Reach'
    BY <1>3 DEF IInv, TypeOK, Reach, Waits, vars, ringVars, sendVars, histVars
  <2>2. Free' = Free /\ (Ring => Ring')
    BY <1>3, SameRing DEF vars, histVars
  <2>3. (OneSender => OneSender') /\ \A c \in Ctx : Sender(c) => Sender(c)'
    BY <1>3, <2>2 DEF OneSender, Sender, vars, ringVars, sendVars, histVars
  <2>4. QED
    BY <1>3, <2>1, <2>2, <2>3 DEF IInv, Alone, vars, histVars
<1>4. QED
  BY <1>1, <1>2, <1>3 DEF Next

\* The invariant holds in every reachable state.
LEMMA Invariance == Spec => []IInv
BY InitInv, NextInv, PTL DEF Spec

\* Every variable keeps its kind of value: current_tx_buffer never leaves the
\* ring by more than one descriptor, even when one send() runs inside another.
THEOREM TypeCorrect == Spec => []TypeOK
BY Invariance, PTL DEF IInv

\* The number of descriptors the card owns is the number of frames in flight.
LEMMA OwnedCount ==
  ASSUME TypeOK, Ring
  PROVE  LET owned == {i \in 0..Count-1 : own[i]}
         IN  Cardinality(owned) = InFlight /\ owned = {Pos(k) : k \in 0..InFlight-1}
<1> DEFINE owned == {i \in 0..Count-1 : own[i]}
           n == InFlight
           P == [k \in 0..n-1 |-> Pos(k)]
<1>1. n \in 0..Count /\ Count \in Nat /\ \A k \in 0..n-1 : k \in 0..Count-1 /\ k < n
  BY TxAssumption DEF Ring
<1>2. \A k \in 0..n-1 : Pos(k) \in owned
  BY <1>1, PosProps DEF Ring
<1>3. \A i \in owned : \E k \in 0..n-1 : i = Pos(k)
  <2> SUFFICES ASSUME NEW i \in owned PROVE \E k \in 0..n-1 : i = Pos(k)
    OBVIOUS
  <2>1. PICK k \in 0..Count-1 : i = Pos(k)
    BY PosProps
  <2>2. k < n
    BY <2>1 DEF Ring
  <2>3. QED
    BY <2>1, <2>2, <1>1
<1>4. \A j, k \in 0..n-1 : Pos(j) = Pos(k) => j = k
  BY <1>1, PosProps
<1> HIDE DEF owned, n
<1>5. P \in Bijection(0..n-1, owned)
  <2>1. P \in [0..n-1 -> owned] /\ \A k \in 0..n-1 : P[k] = Pos(k)
    BY <1>2
  <2> HIDE DEF P
  <2>2. \A j, k \in 0..n-1 : P[j] = P[k] => j = k
    BY <2>1, <1>4
  <2>3. \A i \in owned : \E k \in 0..n-1 : P[k] = i
    BY <2>1, <1>3
  <2>4. QED
    BY <2>1, <2>2, <2>3 DEF Bijection, Injection, Surjection, IsInjective
<1>6. IsFiniteSet(0..n-1) /\ Cardinality(0..n-1) = n
  BY <1>1, FS_Interval
<1>7. Cardinality(owned) = n
  <2> HIDE DEF P
  <2>1. QED
    BY <1>5, <1>6, FS_Bijection DEF ExistsBijection
<1>8. owned = {Pos(k) : k \in 0..n-1}
  BY <1>2, <1>3
<1>9. QED
  BY <1>7, <1>8 DEF owned, n

\* As long as no send() has begun inside another, the card transmits the frames
\* that send() reported as sent, each once, whole and in order, and the two
\* positions in the ring never drift apart.
THEOREM CardTransmitsAccepted == Spec => []WireIsAccepted
<1>1. IInv => WireIsAccepted
  <2> SUFFICES ASSUME IInv, ~overlapped
               PROVE  /\ IsPrefix(wire, [i \in DOMAIN accepted |-> <<accepted[i], accepted[i]>>])
                      /\ LET owned == {i \in 0..Count-1 : own[i]}
                             n == Cardinality(owned)
                         IN  /\ owned = {(devIndex + k) % Count : k \in 0..n-1}
                             /\ Turn = (devIndex + n) % Count
    BY DEF WireIsAccepted, IInv
  <2> DEFINE owned == {i \in 0..Count-1 : own[i]}
             n == InFlight
             w == Len(wire)
             both == [i \in DOMAIN accepted |-> <<accepted[i], accepted[i]>>]
  <2>1. /\ TypeOK /\ OneSender /\ Ring /\ \A c \in Ctx : Sender(c)
        /\ Count \in Nat \ {0, 1} /\ Count \in Nat \ {0} /\ devIndex \in 0..Count-1
    BY TxAssumption DEF IInv, Alone, TypeOK
  <2>2. n \in 0..Count /\ w \in Nat /\ Len(accepted) = w + n
    <3>1. w \in Nat /\ Len(accepted) \in Nat
      BY <2>1 DEF TypeOK
    <3>2. QED
      BY <3>1, <2>1 DEF Ring, InFlight
  <2>3. ASSUME NEW k \in 0..n PROVE (devIndex + k) % Count = Pos(k)
    <3> DEFINE a == devIndex + k
    <3>1. a \in 0..2*Count-1
      BY <2>1, <2>2
    <3> HIDE DEF a
    <3>2. a % Count = IF a < Count THEN a ELSE a - Count
      BY <2>1, <3>1, ModSum
    <3>3. QED
      BY <3>2, <2>1, <2>2 DEF a, Pos
  <2>4. Cardinality(owned) = n /\ owned = {Pos(k) : k \in 0..n-1}
    BY <2>1, OwnedCount
  <2>5. owned = {(devIndex + k) % Count : k \in 0..n-1}
    <3>1. \A k \in 0..n-1 : k \in 0..n
      BY <2>1, <2>2
    <3> HIDE DEF owned, n
    <3>2. QED
      BY <3>1, <2>3, <2>4
  <2>6. Turn = Free
    <3>1. current_tx_buffer \in 0..Count-1
      BY <2>1, TxAssumption DEF OneSender, TypeOK, Slots
    <3>2. CASE \E c \in Ctx : pc[c] \in {"advance", "wrap", "load", "store"}
      <4>1. Free = IF current_tx_buffer = Count - 1 THEN 0 ELSE current_tx_buffer + 1
        BY <3>2, <2>1 DEF Sender
      <4> DEFINE a == current_tx_buffer + 1
      <4>2. a \in 0..2*Count-1
        BY <2>1, <3>1
      <4> HIDE DEF a
      <4>3. a % Count = IF a < Count THEN a ELSE a - Count
        BY <2>1, <4>2, ModSum
      <4>4. a % Count = Free
        BY <4>1, <4>3, <3>1, <2>1 DEF a
      <4>5. QED
        BY <4>4, <3>2 DEF Turn, a
    <3>3. CASE ~\E c \in Ctx : pc[c] \in {"advance", "wrap", "load", "store"}
      <4>1. current_tx_buffer = Free
        <5>1. \A c \in Ctx : pc[c] \in {"idle", "check", "size", "copy", "flag"}
          BY <2>1, <3>3 DEF TypeOK
        <5>2. QED
          BY <5>1, <2>1 DEF OneSender, Sender
      <4> DEFINE a == current_tx_buffer + 0
      <4>2. a \in 0..2*Count-1 /\ a = current_tx_buffer
        BY <2>1, <3>1
      <4> HIDE DEF a
      <4>3. a % Count = IF a < Count THEN a ELSE a - Count
        BY <2>1, <4>2, ModSum
      <4>4. a % Count = Free
        BY <4>1, <4>2, <4>3, <3>1, <2>1
      <4>5. QED
        BY <4>4, <3>3 DEF Turn, a
    <3>4. QED
      BY <3>2, <3>3
  <2>7. Turn = (devIndex + n) % Count
    <3>1. n \in 0..n
      BY <2>2
    <3>2. QED
      BY <3>1, <2>3, <2>6 DEF Free
  <2>8. IsPrefix(wire, both)
    <3>1. Len(both) = w + n /\ \A i \in 1..w : both[i] = <<accepted[i], accepted[i]>>
      <4>1. accepted \in Seq(1..MaxSends) /\ DOMAIN accepted = 1..(w + n)
        BY <2>1, <2>2 DEF TypeOK
      <4>2. \A i \in 1..w : i \in 1..(w + n)
        BY <2>1, <2>2
      <4>3. QED
        BY <4>1, <4>2, <2>1, <2>2
    <3>2. w <= Len(both)
      BY <2>1, <2>2, <3>1
    <3>3. \A i \in 1..w : wire[i] = both[i]
      BY <2>1, <3>1 DEF Ring
    <3>4. SubSeq(wire, 1, w) = SubSeq(both, 1, w)
      <4>1. SubSeq(wire, 1, w) = [i \in 1..w |-> wire[i]]
        BY <2>1, <2>2 DEF TypeOK
      <4>2. SubSeq(both, 1, w) = [i \in 1..w |-> both[i]]
        BY <2>1, <2>2, <3>1
      <4>3. QED
        BY <4>1, <4>2, <3>3
    <3>5. QED
      BY <3>2, <3>4 DEF IsPrefix
  <2>9. QED
    BY <2>4, <2>5, <2>7, <2>8
<1>2. QED
  BY Invariance, <1>1, PTL

\* Without a send() inside another, the buffer of a descriptor the card owns is
\* never written.
THEOREM CardBufferIsStable == Spec => CardBufferStable
<1> DEFINE Stable == ~overlapped =>
              \A i \in 0..Count-1 :
                own[i] => front'[i] = front[i] /\ back'[i] = back[i]
<1>1. IInv /\ [Next]_vars => [Stable]_vars
  <2> SUFFICES ASSUME IInv, Next, ~overlapped, NEW i \in 0..Count-1, own[i]
               PROVE  front'[i] = front[i] /\ back'[i] = back[i]
    OBVIOUS
  <2>1. \A c \in Ctx : Sender(c)
    BY DEF IInv, Alone
  <2>2. i \in Slots
    BY TxAssumption DEF Slots
  <2>3. CASE Transmit
    BY <2>3 DEF Transmit
  <2>4. ASSUME NEW c \in Ctx, Call(c) \/ Send(c)
        PROVE  front'[i] = front[i] /\ back'[i] = back[i]
    <3>1. CASE CopyFront(c)
      <4>1. UNCHANGED back /\ front' = [front EXCEPT ![current_tx_buffer] = frame[c]]
        BY <3>1 DEF CopyFront
      <4>2. pc[c] = "size"
        BY <3>1 DEF CopyFront
      <4>3. i # current_tx_buffer \/ front'[i] = front[i]
        BY <2>1, <4>2 DEF Sender
      <4>4. QED
        BY <4>1, <4>3, <2>2 DEF IInv, TypeOK
    <3>2. CASE CopyBack(c)
      <4>1. UNCHANGED front /\ back' = [back EXCEPT ![at[c]] = frame[c]]
        BY <3>2 DEF CopyBack
      <4>2. pc[c] = "copy"
        BY <3>2 DEF CopyBack
      <4>3. i # at[c]
        BY <2>1, <4>2 DEF Sender
      <4>4. QED
        BY <4>1, <4>3, <2>2 DEF IInv, TypeOK
    <3>3. CASE ~CopyFront(c) /\ ~CopyBack(c)
      BY <3>3, <2>4 DEF Send, Call, Check, TestOwn, TooBig, Flag, Advance, WrapTest, Wrap,
         IncLoad, IncStore, ringVars
    <3>4. QED
      BY <3>1, <3>2, <3>3
  <2>5. QED
    BY <2>3, <2>4 DEF Next
<1>2. QED
  BY <1>1, Invariance, PTL DEF Spec, CardBufferStable

=============================================================================
