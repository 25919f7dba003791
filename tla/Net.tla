---------------------------------- MODULE Net ----------------------------------
(***************************************************************************)
(* The network protocols (net/arp.c, ip.c, icmp.c, udp.c, netdevice.c) and *)
(* their two users: the timer handler, which hands a received frame to     *)
(* reveice_callback, and the boot thread in handle_net (kernel/kernel.c),  *)
(* which asks for two addresses and sends a datagram.                      *)
(*                                                                         *)
(* The handler runs on top of the boot thread and to its end, so a frame   *)
(* is one step; the boot thread's search of the ARP cache is one step per  *)
(* read of an entry, its copy of a hardware address two.  Received frames  *)
(* are well formed but for their checksums; of data only sizes are kept.   *)
(***************************************************************************)
EXTENDS Integers, Sequences, SequencesExt, FiniteSets, Checksum

CONSTANTS
  HostNames,   \* the hosts of the network, each by its four numbers
  AskedFirst,  \* 10.0.2.4 and 10.0.2.2: the hosts handle_net asks for
  AskedNext,
  Macs,        \* the hardware addresses in use
  DataSizes,   \* what callers of udp_send send
  NBlocks,     \* heap blocks for the network code, whatever their sizes
  MaxChanges   \* hardware addresses a host announces

ASSUME NetAssumption ==
  /\ {AskedFirst, AskedNext} \subseteq HostNames
  /\ Macs \subseteq Nat \ {0}
  /\ DataSizes \subseteq Nat
  /\ \A n \in DataSizes : n + 8 =< 65535  \* ip_send counts in 16 bits
  /\ NBlocks \in Nat \ {0, 1}           \* arp_init has taken two
  /\ MaxChanges \in Nat
  /\ \E d \in Data : Odd(d) /\ Last(d) # 0

-----------------------------------------------------------------------------
(* Addresses                                                                *)

inet_aton(parts) ==
  LET n == Len(parts)
      high[i \in 0..n] == IF i = 0 THEN 0 ELSE high[i-1] + parts[i] * 256^(4-i)
  IN  IF n > 4 \/ (\E i \in 1..n-1 : parts[i] > 255) \/ (n > 1 /\ parts[n] >= 256^(5-n))
        THEN 0
        ELSE high[n-1] + parts[n]

htonl(h) == (h % 256) * 256^3 + ((h \div 256) % 256) * 256^2
            + ((h \div 256^2) % 256) * 256 + (h \div 256^3)

Addr(parts) == htonl(inet_aton(parts))
Hosts == {Addr(h) : h \in HostNames}

\* inet_aton answers a number, and no host is 0.0.0.0, the mark of an entry
\* that is not in use.
ASSUME HostsAssumption == Hosts \subseteq Nat \ {0}

First == Addr(AskedFirst)
Second == Addr(AskedNext)

VARIABLES
  list,      \* arp_map->list: each bucket's entries, the one in the array first
  size,      \* arp_map->size
  blocks,    \* heap blocks in use
  phase,     \* boot thread: "first", "second" (the two loops), "send" (ip_send)
  pc,        \* boot thread
  e,         \* hash_get of the boot thread: HEAD, or the address of an entry behind it
  half,      \* the first half of the hardware address being copied
  datagram,  \* ip_send of the boot thread: total, left (size), data_p and frag_off
  request,   \* the hosts a request is under way to
  out,       \* the IP packet the last step gave to dev->send, and in what shape
             \* the packet was that it answers
  halted,    \* "no", "panic" (no memory), "wild" (through a null or wild pointer)
  told, ipSent \* history: what each host has announced; IP packets given to dev->send

cache == <<list, size>>
boot == <<phase, pc, e, half, datagram>>
vars == <<cache, blocks, boot, request, out, halted, told, ipSent>>

list_size == 10
hash_code(ip) == ip % list_size

HEAD == 0
Empty == [ip |-> 0, mac |-> 0]
NoPacket == [dest |-> 0, front |-> 0, back |-> 0, answers |-> {}]
NoDatagram == [total |-> 0, left |-> 0, data_p |-> 0, frag_off |-> 0]

\* arp_init has run; handle_net begins its first search.
Init ==
  /\ list = [b \in 0..list_size-1 |-> <<>>] /\ size = 0
  /\ blocks = 2                    \* arp_map, and its list
  /\ phase = "first" /\ pc = "zero" /\ e = HEAD /\ half = 0
  /\ datagram = NoDatagram
  /\ request = {}
  /\ out = NoPacket
  /\ halted = "no"
  /\ told = [h \in Hosts |-> <<>>] /\ ipSent = 0

-----------------------------------------------------------------------------
(* Memory: kzmalloc panics when it finds none.                              *)

Quiet == out' = NoPacket    \* no IP packet is sent
Panic == halted' = "panic" /\ Quiet /\ UNCHANGED <<cache, blocks, boot, request, told, ipSent>>
Wild  == halted' = "wild" /\ Quiet /\ UNCHANGED <<cache, blocks, boot, request, told, ipSent>>
Nothing == Quiet /\ UNCHANGED <<cache, blocks, boot, request, halted, told, ipSent>>

HasBlocks(n) == blocks + n =< NBlocks

-----------------------------------------------------------------------------
(* The timer handler: one received frame                                    *)

Position(ip) == {i \in DOMAIN list[hash_code(ip)] : list[hash_code(ip)][i].ip = ip}

\* Mutant of hash_put: the chain is not searched.
hash_put_NoSearch(ip, mac) ==
  LET b == hash_code(ip)
  IN  /\ list' = [list EXCEPT ![b] = IF @ = <<>> THEN <<[ip |-> ip, mac |-> mac]>>
                                     ELSE <<Head(@), [ip |-> ip, mac |-> mac]>> \o Tail(@)]
      /\ size' = size + 1
      /\ blocks' = IF list[b] = <<>> THEN blocks ELSE blocks + 1

\* An address already in the chain, wherever it stands, has its hardware
\* address written into the head of the chain (line 57).
hash_put(ip, mac) ==
  LET b == hash_code(ip)
      new == [ip |-> ip, mac |-> mac]
  IN  \/ /\ list[b] = <<>>
         /\ list' = [list EXCEPT ![b] = <<new>>]
         /\ size' = size + 1 /\ UNCHANGED blocks
      \/ /\ Position(ip) # {}
         /\ list' = [list EXCEPT ![b][1].mac = mac]
         /\ UNCHANGED <<size, blocks>>
      \/ /\ list[b] # <<>> /\ Position(ip) = {}
         /\ list' = [list EXCEPT ![b] = <<Head(@), new>> \o Tail(@)]
         /\ size' = size + 1 /\ blocks' = blocks + 1

\* arp_rcv of a reply.
arp_rcv_reply(ip, mac) ==
  IF list[hash_code(ip)] # <<>> /\ Position(ip) = {} /\ ~HasBlocks(1) THEN Panic
  ELSE /\ hash_put(ip, mac)
       /\ request' = request \ {ip}
       /\ told' = IF told[ip] # <<>> /\ Last(told[ip]) = mac THEN told
                  ELSE [told EXCEPT ![ip] = Append(@, mac)]
       /\ Quiet /\ UNCHANGED <<boot, halted, ipSent>>

\* Mutant of ArpSendLeaves: the header is not freed.
ArpSendLeavesHeader == 1

\* arp_send takes three blocks, and gives all three back.
ArpSendLeaves == 0
arp_send == blocks' = blocks + ArpSendLeaves

\* arp_rcv of a request for our own address answers the hardware address in
\* it; other requests and other operations do nothing.
arp_rcv_request ==
  IF ~HasBlocks(3) THEN Panic
  ELSE arp_send /\ Quiet /\ UNCHANGED <<cache, boot, request, halted, told, ipSent>>

\* The verdict of ip_hdr_checksum on a packet of another host (odd: its length
\* is odd and its last byte not 0).
ChecksumHolds(packet) == packet.damaged = "no" /\ ~packet.odd

Found(ip) == list[hash_code(ip)][CHOOSE i \in Position(ip) : TRUE].mac

\* arp_find, then one packet, since an answer fits the mtu.  The packet's
\* buffer is not freed.  The caller holds a block meanwhile.
ip_send(ip, packet) ==
  IF Position(ip) = {} /\ list[hash_code(ip)] # <<>> THEN Wild
  ELSE IF Position(ip) = {} THEN Nothing
  ELSE IF ~HasBlocks(2) THEN Panic
  ELSE /\ out' = [dest |-> ip, front |-> Found(ip), back |-> Found(ip),
                   answers |-> {[damaged |-> packet.damaged, odd |-> packet.odd]}]
       /\ blocks' = blocks + 1
       /\ ipSent' = ipSent + 1
       /\ UNCHANGED <<cache, boot, request, halted, told>>

\* icmp_echoreply; other types are printed or dropped.
icmp_rcv(packet) ==
  IF ~ChecksumHolds(packet) THEN Nothing
  ELSE IF ~HasBlocks(1) THEN Panic
  ELSE ip_send(packet.source, packet)

\* The block with the pseudo header is taken for the check already; udp_send
\* takes another for the answer, to the port the datagram came from.
udp_rcv(packet) ==
  IF ~HasBlocks(1) THEN Panic
  ELSE IF ~ChecksumHolds(packet) THEN Nothing
  ELSE ip_send(packet.source, packet)

ip_rcv(packet) ==
  IF packet.damaged = "header" THEN Nothing
  ELSE IF packet.protocol = "icmp" THEN icmp_rcv(packet) ELSE udp_rcv(packet)

Packets == [protocol : {"icmp", "udp"}, source : Hosts,
            damaged : {"no", "header", "data"}, odd : BOOLEAN]

\* reveice_callback: protocols, operations and types that the code only tests
\* for, and drops or prints, change nothing.
reveice_callback ==
  \/ \E ip \in Hosts, mac \in Macs :
       /\ (told[ip] # <<>> /\ Last(told[ip]) = mac) \/ Len(told[ip]) < MaxChanges
       /\ arp_rcv_reply(ip, mac)
  \/ arp_rcv_request
  \/ \E p \in Packets : ip_rcv(p)

\* A request, or the answer to it, is lost.
Lose ==
  /\ \E ip \in request : request' = request \ {ip}
  /\ Quiet /\ UNCHANGED <<cache, blocks, boot, halted, told, ipSent>>

-----------------------------------------------------------------------------
(* The boot thread: hash_get, read by read                                  *)

Asked == IF phase = "first" THEN First ELSE Second
Chain == list[hash_code(Asked)]

At(x) == CHOOSE i \in DOMAIN Chain : IF x = HEAD THEN i = 1 ELSE Chain[i].ip = x
Entry(x) == IF x = HEAD /\ Chain = <<>> THEN Empty ELSE Chain[At(x)]

Goto(p) == pc' = p /\ UNCHANGED <<phase, e, half, datagram>>
Elsewhere == Quiet /\ UNCHANGED <<cache, blocks, request, halted, told, ipSent>>

TestZero ==
  /\ pc = "zero"
  /\ Goto(IF Entry(e).ip = 0 THEN "last" ELSE "same")
  /\ Elsewhere

\* The loop tests what e points to and never e: behind the last entry it
\* reads through a null pointer.
TestSame ==
  /\ pc = "same"
  /\ \/ Entry(e).ip = Asked /\ Goto("last") /\ Elsewhere
     \/ /\ Entry(e).ip # Asked /\ At(e) < Len(Chain)
        /\ e' = Chain[At(e) + 1].ip
        /\ pc' = "zero" /\ UNCHANGED <<phase, half, datagram>> /\ Elsewhere
     \/ Entry(e).ip # Asked /\ At(e) = Len(Chain) /\ Wild

\* The pointer hash_get returns stays e; a null one leads to another request
\* in the loops of handle_net, and to the end of ip_send.
Missing == IF phase = "send" THEN "free" ELSE "ask"
FoundNext == CASE phase = "first" -> "found" [] phase = "second" -> "found" [] OTHER -> "packet"

\* Mutant of TestLast: the head is taken even when it is empty.
TestLastNot == pc = "last" /\ Goto(FoundNext) /\ Elsewhere

TestLast ==
  /\ pc = "last"
  /\ Goto(IF Entry(e).ip = 0 THEN Missing ELSE FoundNext)
  /\ Elsewhere

\* Mutant of Ask: the second loop asks for the first address again.
AskForFirst ==
  /\ pc = "ask"
  /\ arp_send
  /\ request' = request \cup {First}
  /\ pc' = "zero" /\ e' = HEAD
  /\ Quiet /\ UNCHANGED <<cache, phase, half, datagram, halted, told, ipSent>>

Ask ==
  /\ pc = "ask"
  /\ IF ~HasBlocks(3) THEN Panic
     ELSE /\ arp_send
          /\ request' = request \cup {Asked}
          /\ pc' = "zero" /\ e' = HEAD
          /\ Quiet /\ UNCHANGED <<cache, phase, half, datagram, halted, told, ipSent>>

\* The first loop ends; then the second, and udp_send begins with a block of
\* 2033 bytes that is never used nor freed, and one for the datagram.
NextAddress ==
  /\ pc = "found"
  /\ pc' = "zero" /\ e' = HEAD
  /\ \/ /\ phase = "first" /\ phase' = "second"
        /\ UNCHANGED <<half, datagram>> /\ Elsewhere
     \/ /\ phase = "second" /\ HasBlocks(2) /\ phase' = "send"
        /\ blocks' = blocks + 2
        /\ \E n \in DataSizes :
             datagram' = [total |-> n + 8, left |-> n + 8, data_p |-> 0, frag_off |-> 0]
        /\ Quiet /\ UNCHANGED <<half, cache, request, halted, told, ipSent>>

NoMemory == pc = "found" /\ phase = "second" /\ ~HasBlocks(2) /\ Panic

-----------------------------------------------------------------------------
(* The boot thread: ip_send                                                 *)

iphdr == 20
mtu == 1500 - iphdr

\* The length of the next packet but for the ethernet header, in the code's
\* count: a fragment's includes its IP header, a whole datagram's does not.
Fragmented == datagram.total > mtu
current_size == IF datagram.left > mtu THEN (mtu \div 8) * 8 ELSE datagram.left

\* A fragment too short for its own header has a negative number of bytes
\* copied into it.
Header ==
  /\ pc = "packet"
  /\ IF ~HasBlocks(1) THEN Panic
     ELSE IF Fragmented /\ current_size < iphdr THEN Wild
     ELSE /\ blocks' = blocks + 1
          /\ half' = Entry(e).mac
          /\ pc' = "send" /\ UNCHANGED <<phase, e, datagram>>
          /\ Quiet /\ UNCHANGED <<cache, request, halted, told, ipSent>>

\* Mutant of Advanced: the header is not taken from the data copied.
AdvancedByAll(d, n) == [d EXCEPT !.left = @ - n, !.data_p = @ + n, !.frag_off = @ + n \div 8]

Advanced(d, n) ==
  [d EXCEPT !.left = @ - n,
            !.data_p = @ + (IF Fragmented THEN n - iphdr ELSE n),
            !.frag_off = @ + (IF Fragmented THEN n \div 8 ELSE 0)]

\* A fragment that dev->send refuses (the ring is full) ends ip_send.
Send ==
  /\ pc = "send"
  /\ out' = [dest |-> Asked, front |-> half, back |-> Entry(e).mac, answers |-> {}]
  /\ ipSent' = ipSent + 1
  /\ \/ /\ datagram' = Advanced(datagram, current_size)
        /\ pc' = IF datagram'.left > 0 THEN "packet" ELSE "free"
     \/ Fragmented /\ pc' = "free" /\ UNCHANGED datagram
  /\ half' = 0    \* not used again
  /\ UNCHANGED <<cache, blocks, phase, e, request, halted, told>>

\* kfree(fake); handle_net idles from here on.
Free ==
  /\ pc = "free"
  /\ blocks' = blocks - 1
  /\ Goto("idle")
  /\ Quiet /\ UNCHANGED <<cache, request, halted, told, ipSent>>

Boot == TestZero \/ TestSame \/ TestLast \/ Ask \/ NextAddress \/ NoMemory \/ Header \/ Send \/ Free

Next == halted = "no" /\ (reveice_callback \/ Lose \/ Boot)

Spec == Init /\ [][Next]_vars

\* The boot thread goes on, and of requests sent again and again one is answered.
Answer(ip) == halted = "no" /\ ip \in request /\ \E mac \in Macs :
                /\ (told[ip] # <<>> /\ Last(told[ip]) = mac) \/ Len(told[ip]) < MaxChanges
                /\ arp_rcv_reply(ip, mac)

FairSpec == Spec /\ WF_vars(halted = "no" /\ Boot) /\ \A ip \in {First, Second} : SF_vars(Answer(ip))

-----------------------------------------------------------------------------
(* Properties                                                               *)

\* Every variable keeps its kind of value (a part of CacheTruth).
TypeOK ==
  /\ list \in [0..list_size-1 -> Seq([ip : Hosts, mac : Macs])]
  /\ size \in Nat /\ blocks \in 0..NBlocks
  /\ phase \in {"first", "second", "send"}
  /\ pc \in {"zero", "same", "last", "ask", "found", "packet", "send", "free", "idle"}
  /\ e \in Hosts \cup {HEAD} /\ half \in Macs \cup {0}
  /\ \A f \in DOMAIN datagram : datagram[f] \in Nat
  /\ request \subseteq Hosts
  /\ halted \in {"no", "panic", "wild"}
  /\ told \in [Hosts -> Seq(Macs)] /\ ipSent \in Nat

Known == {x.ip : x \in UNION {ToSet(list[b]) : b \in DOMAIN list}}
Alone(ip) == \A other \in Known \ {ip} : hash_code(other) # hash_code(ip)

\* What the cache says, after any order of announcements: an address stands
\* once, in its own bucket, and only if it was announced; alone in its bucket
\* it has the hardware address announced last.  Else the writing of line 57
\* shows: behind the head an entry keeps for ever what was announced first,
\* and the head has what some address of the bucket announced.
CacheTruth ==
  /\ TypeOK
  /\ size = Cardinality(Known) /\ Known = {ip \in Hosts : told[ip] # <<>>}
  /\ \A b \in DOMAIN list : \A i \in DOMAIN list[b] :
       LET x == list[b][i]
       IN  /\ hash_code(x.ip) = b
           /\ \A j \in DOMAIN list[b] : list[b][j].ip = x.ip => j = i
           /\ Alone(x.ip) => x.mac = Last(told[x.ip])
           /\ i > 1 => x.mac = Head(told[x.ip])
           /\ \E ip \in Hosts : hash_code(ip) = b /\ x.mac \in ToSet(told[ip])

\* Unless two known addresses share its bucket, or its bucket's empty head was
\* filled with another between two reads of hash_get, a packet goes to a
\* hardware address its destination has announced; an announcement between
\* the two halves of the copy may leave it with halves of two of them.
\* And the search runs wild only in a shared bucket.
SentWhereTold ==
  /\ out # NoPacket /\ Alone(out.dest) => {out.front, out.back} \subseteq ToSet(told[out.dest])
  /\ halted = "wild" /\ pc # "packet" => \E ip \in Hosts, other \in Known :
       ip # other /\ hash_code(ip) = hash_code(other)

\* Every path gives back what it took but ip_send, which leaves one buffer
\* for each packet, answers to echoes included, and handle_net, which leaves
\* one: the machine panics after so many packets.
InProgress == (IF phase = "send" /\ pc # "idle" THEN 1 ELSE 0) + (IF pc = "send" THEN 1 ELSE 0)
MemoryAccounted ==
  blocks = 2 + Cardinality({ip \in Known : list[hash_code(ip)][1].ip # ip})
             + ipSent
             + (IF phase = "send" THEN 1 ELSE 0) + InProgress

\* A datagram that fits the mtu is sent whole.  Of a longer one each fragment
\* stands, for the receiver, iphdr further on than the one before from where
\* its data begins, and the last iphdr bytes for every fragment are never sent.
FragmentsLose ==
  datagram.total > 0 =>
    LET d == datagram
        sent == d.total - d.left
        n == (sent + mtu - 1) \div mtu      \* fragments
    IN  IF ~Fragmented THEN d.data_p = sent
        ELSE /\ d.data_p = sent - iphdr * n
             /\ d.left > 0 => d.frag_off * 8 = sent

\* A packet that is answered is one whose checksum the code takes, and the
\* packets dropped unanswered, on the receiving paths above, are those it does
\* not take: over data of both kinds of length, from this kernel and from a
\* host that goes by RFC 1071, intact and with a changed byte.
Taken == [odd \in BOOLEAN |-> \A d \in Data :
            (Odd(d) /\ Last(d) # 0) = odd => ip_hdr_checksum(SentThere(d)) = 0]

VerdictIsChecksum ==
  \A answered \in out.answers :
    /\ answered.damaged = "no" /\ Taken[answered.odd]
    /\ ChecksumRight
    /\ \A p \in Packets : p.damaged = "no" => ChecksumHolds(p) = Taken[p.odd]

\* The boot thread gets out of each of its two loops of requests, although
\* requests and answers are lost: it asks again.  It does not if the search of
\* the cache runs wild or memory runs out.
Resolved ==
  \A p \in {"first", "second"} : phase = p ~> (phase # p \/ halted # "no")

=============================================================================
