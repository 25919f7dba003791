--------------------------------- MODULE MCBoot ---------------------------------
(* The machines for model checking Boot: one with the card alone on its line and  *)
(* a hole in its memory, one with the card on a shared line of the first 8259 and *)
(* more memory than the kernel uses, one without a card, one with too little      *)
(* memory and one with too much.                                                  *)
EXTENDS Boot
Region(b, l, f) == [base |-> b, length |-> l, free |-> f]
Low == Region(0, \h9F, TRUE)
Function(id, line, header, bars) == [id |-> id, line |-> line, header |-> header, bars |-> bars]
Bridge == Function("bridge", 0, 1, {"mem"})
Vga == Function("vga", 0, 0, {"mem", "none"})
Card(line) == Function("am79c973", line, 0, {"io", "mem", "none"})
Table(w, s, e) == [wellFormed |-> w, sum |-> s, exclusive |-> e]
Machine(top, functions, shared, tables) ==
  [memory |-> <<Low, Region(\h100, top \div 2, TRUE), Region(top - 32, 32, TRUE),
                Region(top, 32, FALSE)>>,
   functions |-> functions, shared |-> shared, tables |-> tables]
MCMachines ==
  {Machine(\h7FE0, <<Bridge, Vga, Card(11)>>, FALSE, <<Table(TRUE, 1, {}), Table(TRUE, 0, {5, 11})>>),
   Machine(\h40000, <<Bridge, Card(5), Vga>>, TRUE, <<>>),
   Machine(\h2000, <<Bridge, Vga>>, FALSE, <<Table(TRUE, 0, {})>>),
   Machine(\h400, <<Card(11)>>, FALSE, <<>>),
   Machine(\h80000, <<Card(11)>>, FALSE, <<>>)}
=============================================================================
