------------------------------- MODULE NetProofs -------------------------------
(***************************************************************************)
(* The ARP cache and what is sent by it, for any hosts and hardware        *)
(* addresses, any number of heap blocks and datagrams of any size; and the *)
(* checksum, for bytes of any size and packets of any length whose sum     *)
(* fits 32 bits.                                                           *)
(***************************************************************************)
EXTENDS Net, NaturalsInduction, WellFoundedInduction, FiniteSetTheorems, TLAPS

Entries == [ip : Hosts, mac : Macs]
Buckets == 0..list_size-1

-----------------------------------------------------------------------------
(* The inductive invariant                                                  *)

\* Where the boot thread's search stands: on an entry of the chain it searches
\* since it has seen one, with a first half of a hardware address that is one
\* of its host's.
Searching ==
  /\ e # HEAD => e \in Known /\ hash_code(e) = hash_code(Asked)
  /\ pc \in {"same", "packet", "send"} => Chain # <<>>
  /\ pc \in {"packet", "send", "free", "idle"} => phase = "send"
  /\ pc \in {"ask", "found"} => phase # "send"
  /\ pc = "send" /\ Alone(Asked) => half \in ToSet(told[Asked])

\* Of a datagram in fragments, whole fragments are sent before the last one,
\* and none without room for its header.
Fragments ==
  /\ datagram \in [total : Nat, left : Nat, data_p : Nat, frag_off : Nat]
  /\ datagram.left <= datagram.total
  /\ Fragmented /\ datagram.left > 0 =>
       \E k \in Nat : datagram.left + mtu * k = datagram.total
  /\ pc = "send" /\ Fragmented => current_size >= iphdr
  /\ FragmentsLose

IInv ==
  /\ CacheTruth /\ IsFiniteSet(Known)
  /\ MemoryAccounted /\ SentWhereTold
  /\ Searching /\ Fragments

-----------------------------------------------------------------------------
(* Sequences and finite sets                                                *)

\* What is behind a place in a sequence.
LEMMA SeqFacts ==
  ASSUME NEW S, NEW s \in Seq(S)
  PROVE  /\ Len(s) \in Nat /\ DOMAIN s = 1..Len(s)
         /\ \A i \in 1..Len(s) : s[i] \in S
         /\ s = <<>> <=> Len(s) = 0
  OBVIOUS

LEMMA ConcatFacts ==
  ASSUME NEW S, NEW s \in Seq(S), NEW t \in Seq(S)
  PROVE  /\ s \o t \in Seq(S) /\ Len(s \o t) = Len(s) + Len(t)
         /\ \A i \in 1..Len(s) : (s \o t)[i] = s[i]
         /\ \A i \in 1..Len(t) : (s \o t)[Len(s) + i] = t[i]
  OBVIOUS

\* An element goes behind the first one.
LEMMA InsertSecond ==
  ASSUME NEW S, NEW s \in Seq(S), s # <<>>, NEW x \in S
  PROVE  LET t == <<Head(s), x>> \o Tail(s)
         IN  /\ t \in Seq(S) /\ Len(t) = Len(s) + 1
             /\ t[1] = s[1] /\ t[2] = x
             /\ \A i \in 2..Len(s) : t[i + 1] = s[i]
<1> DEFINE f == <<Head(s), x>>
           r == Tail(s)
<1>1. /\ r \in Seq(S) /\ Len(r) = Len(s) - 1 /\ Len(s) \in Nat /\ Len(s) >= 1
      /\ \A j \in 1..Len(s)-1 : r[j] = s[j + 1]
      /\ s[1] \in S /\ Head(s) = s[1]
  OBVIOUS
<1>2. f \in Seq(S) /\ Len(f) = 2 /\ f[1] = s[1] /\ f[2] = x
  BY <1>1
<1> HIDE DEF f, r
<1>3. /\ f \o r \in Seq(S) /\ Len(f \o r) = 2 + Len(r)
      /\ \A i \in 1..2 + Len(r) : (f \o r)[i] = IF i <= 2 THEN f[i] ELSE r[i - 2]
  <2>1. /\ f \o r \in Seq(S) /\ Len(f \o r) = Len(f) + Len(r)
        /\ \A j \in 1..Len(f) : (f \o r)[j] = f[j]
        /\ \A j \in 1..Len(r) : (f \o r)[Len(f) + j] = r[j]
    <3>1. f \in Seq(S) /\ r \in Seq(S)
      BY <1>1, <1>2
    <3>2. QED
      BY ONLY <3>1, ConcatFacts
  <2>2. Len(f) = 2 /\ Len(r) \in Nat
    BY <1>1, <1>2
  <2>3. \A j \in 1..Len(r) : (f \o r)[2 + j] = r[j]
    BY <2>1, <2>2
  <2>4. \A i \in 1..2 + Len(r) : i <= 2 => i \in 1..Len(f)
    BY <2>2
  <2>5. \A i \in 1..2 + Len(r) : ~(i <= 2) => i - 2 \in 1..Len(r) /\ 2 + (i - 2) = i
    BY <2>2
  <2>6. QED
    BY <2>1, <2>2, <2>3, <2>4, <2>5
<1>4. \A i \in 2..Len(s) : (f \o r)[i + 1] = s[i]
  <2> SUFFICES ASSUME NEW i \in 2..Len(s) PROVE (f \o r)[i + 1] = s[i]
    OBVIOUS
  <2>1. i + 1 \in 1..2 + Len(r) /\ ~(i + 1 <= 2) /\ (i + 1) - 2 = i - 1 /\ i - 1 \in 1..Len(s)-1
        /\ (i - 1) + 1 = i
    BY <1>1
  <2>2. (f \o r)[i + 1] = r[i - 1]
    BY <2>1, <1>3
  <2>3. QED
    BY <2>1, <2>2, <1>1
<1>5. (f \o r)[1] = s[1] /\ (f \o r)[2] = x
  BY <1>1, <1>2, <1>3
<1>6. QED
  BY <1>1, <1>3, <1>4, <1>5 DEF f, r

\* What is announced is the last announcement; the earlier ones stay.
LEMMA Announced ==
  ASSUME NEW S, NEW s \in Seq(S), NEW x \in S
  PROVE  LET t == Append(s, x)
         IN  /\ t \in Seq(S) /\ t # <<>> /\ Last(t) = x /\ x \in ToSet(t)
             /\ ToSet(s) \subseteq ToSet(t)
             /\ Head(t) = IF s = <<>> THEN x ELSE Head(s)
<1>1. /\ Append(s, x) \in Seq(S) /\ Len(Append(s, x)) = Len(s) + 1 /\ Len(s) \in Nat
      /\ DOMAIN s = 1..Len(s) /\ DOMAIN Append(s, x) = 1..Len(s)+1
      /\ \A i \in 1..Len(s) : Append(s, x)[i] = s[i]
      /\ Append(s, x)[Len(s) + 1] = x
      /\ (s = <<>> <=> Len(s) = 0)
  OBVIOUS
<1>2. Append(s, x) # <<>> /\ Last(Append(s, x)) = x
  BY <1>1 DEF Last
<1>3. x \in ToSet(Append(s, x)) /\ ToSet(s) \subseteq ToSet(Append(s, x))
  BY <1>1 DEF ToSet
<1>4. Head(Append(s, x)) = IF s = <<>> THEN x ELSE Head(s)
  BY <1>1
<1>5. QED
  BY <1>1, <1>2, <1>3, <1>4

\* The last element of a sequence is one of its elements.
LEMMA LastIn ==
  ASSUME NEW S, NEW s \in Seq(S), s # <<>>
  PROVE  Last(s) \in ToSet(s) /\ Head(s) \in ToSet(s) /\ ToSet(s) \subseteq S
<1>1. Len(s) \in Nat /\ Len(s) # 0 /\ DOMAIN s = 1..Len(s) /\ \A i \in 1..Len(s) : s[i] \in S
  OBVIOUS
<1>2. Len(s) \in 1..Len(s) /\ 1 \in 1..Len(s)
  BY <1>1
<1>3. Head(s) = s[1]
  OBVIOUS
<1>4. QED
  BY <1>1, <1>2, <1>3 DEF Last, ToSet

-----------------------------------------------------------------------------
(* The cache, entry by entry                                                *)

\* What CacheTruth says of one entry.
TruthAt(b, i) ==
  /\ hash_code(list[b][i].ip) = b
  /\ \A j \in 1..Len(list[b]) : list[b][j].ip = list[b][i].ip => j = i
  /\ Alone(list[b][i].ip) => list[b][i].mac = Last(told[list[b][i].ip])
  /\ i > 1 => list[b][i].mac = Head(told[list[b][i].ip])
  /\ \E ip \in Hosts : hash_code(ip) = b /\ list[b][i].mac \in ToSet(told[ip])

\* CacheTruth, and what Known is made of.
CacheFacts ==
  /\ list \in [Buckets -> Seq(Entries)] /\ told \in [Hosts -> Seq(Macs)]
  /\ size = Cardinality(Known) /\ IsFiniteSet(Known)
  /\ Known = {ip \in Hosts : told[ip] # <<>>}
  /\ \A b \in Buckets : \A i \in 1..Len(list[b]) : TruthAt(b, i)

\* The known addresses whose entries stand behind another's.
Behind == {ip \in Known : list[hash_code(ip)][1].ip # ip}

\* The addresses of a table of chains.
KnownIn(l) == {x.ip : x \in UNION {ToSet(l[b]) : b \in DOMAIN l}}

LEMMA HostFacts ==
  /\ Hosts \subseteq Nat \ {0} /\ HEAD \notin Hosts
  /\ First \in Hosts /\ Second \in Hosts /\ Asked \in Hosts
  /\ \A ip \in Hosts : hash_code(ip) \in Buckets
<1>1. Hosts \subseteq Nat \ {0}
  BY HostsAssumption
<1>2. First \in Hosts /\ Second \in Hosts
  <2>1. AskedFirst \in HostNames /\ AskedNext \in HostNames
    BY NetAssumption
  <2>2. QED
    BY <2>1 DEF First, Second, Hosts
<1>3. \A n \in Nat : n % 10 \in 0..9
  OBVIOUS
<1>4. \A ip \in Hosts : hash_code(ip) \in Buckets
  BY <1>1, <1>3 DEF hash_code, Buckets, list_size
<1>5. QED
  BY <1>1, <1>2, <1>4 DEF HEAD, Asked

LEMMA InTable ==
  ASSUME NEW l \in [Buckets -> Seq(Entries)], NEW ip
  PROVE  ip \in KnownIn(l) <=> \E b \in Buckets : \E i \in 1..Len(l[b]) : l[b][i].ip = ip
<1>1. DOMAIN l = Buckets /\ \A b \in Buckets : DOMAIN l[b] = 1..Len(l[b])
  OBVIOUS
<1>2. ASSUME NEW b \in Buckets, NEW i \in 1..Len(l[b]), l[b][i].ip = ip PROVE ip \in KnownIn(l)
  BY <1>1, <1>2 DEF KnownIn, ToSet
<1>3. ASSUME ip \in KnownIn(l)
      PROVE  \E b \in Buckets : \E i \in 1..Len(l[b]) : l[b][i].ip = ip
  <2>1. PICK x \in UNION {ToSet(l[b]) : b \in DOMAIN l} : ip = x.ip
    BY <1>3 DEF KnownIn
  <2>2. PICK b \in DOMAIN l : x \in ToSet(l[b])
    BY <2>1
  <2>3. PICK i \in DOMAIN l[b] : x = l[b][i]
    BY <2>2 DEF ToSet
  <2>4. QED
    BY <1>1, <2>1, <2>2, <2>3
<1>4. QED
  BY <1>2, <1>3

LEMMA TypedTruth ==
  TypeOK => (CacheTruth /\ IsFiniteSet(Known) <=> CacheFacts)
<1> SUFFICES ASSUME TypeOK PROVE CacheTruth /\ IsFiniteSet(Known) <=> CacheFacts
  OBVIOUS
<1>1. /\ list \in [Buckets -> Seq(Entries)] /\ told \in [Hosts -> Seq(Macs)]
      /\ DOMAIN list = Buckets /\ \A b \in Buckets : DOMAIN list[b] = 1..Len(list[b])
  <2>1. list \in [Buckets -> Seq(Entries)] /\ told \in [Hosts -> Seq(Macs)]
    BY DEF TypeOK, Buckets, Entries
  <2>2. DOMAIN list = Buckets /\ \A b \in Buckets : list[b] \in Seq(Entries)
    BY <2>1
  <2>3. QED
    BY <2>1, <2>2
<1>2. CacheTruth <=>
        /\ size = Cardinality(Known) /\ Known = {ip \in Hosts : told[ip] # <<>>}
        /\ \A b \in Buckets : \A i \in 1..Len(list[b]) : TruthAt(b, i)
  <2>1. CacheTruth <=>
          /\ size = Cardinality(Known) /\ Known = {ip \in Hosts : told[ip] # <<>>}
          /\ \A b \in DOMAIN list : \A i \in DOMAIN list[b] :
               /\ hash_code(list[b][i].ip) = b
               /\ \A j \in DOMAIN list[b] : list[b][j].ip = list[b][i].ip => j = i
               /\ Alone(list[b][i].ip) => list[b][i].mac = Last(told[list[b][i].ip])
               /\ i > 1 => list[b][i].mac = Head(told[list[b][i].ip])
               /\ \E ip \in Hosts : hash_code(ip) = b /\ list[b][i].mac \in ToSet(told[ip])
    BY Zenon DEF CacheTruth
  <2>2. \A b \in DOMAIN list : b \in Buckets /\ DOMAIN list[b] = 1..Len(list[b])
    BY <1>1
  <2>3. DOMAIN list = Buckets
    BY <1>1
  <2>4. ASSUME NEW b \in Buckets, NEW i \in 1..Len(list[b])
        PROVE  TruthAt(b, i) <=>
               /\ hash_code(list[b][i].ip) = b
               /\ \A j \in DOMAIN list[b] : list[b][j].ip = list[b][i].ip => j = i
               /\ Alone(list[b][i].ip) => list[b][i].mac = Last(told[list[b][i].ip])
               /\ i > 1 => list[b][i].mac = Head(told[list[b][i].ip])
               /\ \E ip \in Hosts : hash_code(ip) = b /\ list[b][i].mac \in ToSet(told[ip])
    <3>1. DOMAIN list[b] = 1..Len(list[b])
      BY <2>2, <2>3
    <3>2. QED
      BY <3>1 DEF TruthAt
  <2>5. QED
    BY <2>1, <2>2, <2>3, <2>4
<1>3. QED
  BY <1>1, <1>2 DEF CacheFacts

LEMMA TypedTruthNext ==
  TypeOK' => (CacheTruth' /\ IsFiniteSet(Known)' <=> CacheFacts')
  BY TypedTruth, PTL

\* An address is known if and only if it stands in the chain of its bucket.
LEMMA Known1 ==
  ASSUME CacheFacts, NEW ip \in Hosts
  PROVE  /\ ip \in Known <=> \E i \in 1..Len(list[hash_code(ip)]) : list[hash_code(ip)][i].ip = ip
         /\ Position(ip) = {i \in 1..Len(list[hash_code(ip)]) : list[hash_code(ip)][i].ip = ip}
         /\ ip \in Known <=> Position(ip) # {}
<1>1. Known = KnownIn(list)
  BY DEF Known, KnownIn
<1>2. ip \in Known <=> \E b \in Buckets : \E i \in 1..Len(list[b]) : list[b][i].ip = ip
  BY <1>1, InTable DEF CacheFacts
<1>3. \A b \in Buckets : \A i \in 1..Len(list[b]) : hash_code(list[b][i].ip) = b
  BY DEF CacheFacts, TruthAt
<1>4. hash_code(ip) \in Buckets
  BY HostFacts
<1>5. ip \in Known <=> \E i \in 1..Len(list[hash_code(ip)]) : list[hash_code(ip)][i].ip = ip
  BY <1>2, <1>3, <1>4
<1>6. DOMAIN list[hash_code(ip)] = 1..Len(list[hash_code(ip)])
  BY <1>4 DEF CacheFacts
<1>7. Position(ip) = {i \in 1..Len(list[hash_code(ip)]) : list[hash_code(ip)][i].ip = ip}
  BY <1>6 DEF Position
<1>8. QED
  BY <1>5, <1>7

-----------------------------------------------------------------------------
(* hash_put                                                                 *)

\* What hash_put leaves in the chain l of address ip: r.
FillsEmpty(l, r, new) == l = <<>> /\ Len(r) = 1 /\ r[1] = new
WritesHead(l, r, mac) ==
  /\ l # <<>> /\ Len(r) = Len(l) /\ r[1] = [ip |-> l[1].ip, mac |-> mac]
  /\ \A i \in 2..Len(l) : r[i] = l[i]
GoesSecond(l, r, new) ==
  /\ l # <<>> /\ Len(r) = Len(l) + 1 /\ r[1] = l[1] /\ r[2] = new
  /\ \A i \in 2..Len(l) : r[i + 1] = l[i]

LEMMA PutShape ==
  ASSUME CacheFacts, NEW ip \in Hosts, NEW mac \in Macs, hash_put(ip, mac)
  PROVE  LET b == hash_code(ip)
             new == [ip |-> ip, mac |-> mac]
         IN  /\ list' \in [Buckets -> Seq(Entries)] /\ b \in Buckets
             /\ \A c \in Buckets : c # b => list'[c] = list[c]
             /\ \/ /\ ip \notin Known /\ FillsEmpty(list[b], list'[b], new)
                   /\ size' = size + 1 /\ blocks' = blocks
                \/ /\ ip \in Known /\ WritesHead(list[b], list'[b], mac)
                   /\ size' = size /\ blocks' = blocks
                \/ /\ ip \notin Known /\ GoesSecond(list[b], list'[b], new)
                   /\ size' = size + 1 /\ blocks' = blocks + 1
<1> DEFINE b == hash_code(ip)
           new == [ip |-> ip, mac |-> mac]
           L == list[b]
<1>1. b \in Buckets /\ list \in [Buckets -> Seq(Entries)] /\ L \in Seq(Entries)
  BY HostFacts DEF CacheFacts
<1>2. new \in Entries /\ new.ip = ip
  BY DEF Entries
<1>3. ip \in Known <=> Position(ip) # {}
  BY Known1
<1>4. L = <<>> => Position(ip) = {}
  BY <1>1 DEF Position
<1>5. CASE L = <<>> /\ list' = [list EXCEPT ![b] = <<new>>] /\ size' = size + 1 /\ UNCHANGED blocks
  <2>1. <<new>> \in Seq(Entries) /\ Len(<<new>>) = 1 /\ <<new>>[1] = new
    BY <1>2
  <2> HIDE DEF b, new
  <2>2. list' \in [Buckets -> Seq(Entries)] /\ list'[b] = <<new>>
        /\ \A c \in Buckets : c # b => list'[c] = list[c]
    BY <1>1, <1>5, <2>1
  <2>3. FillsEmpty(L, list'[b], new)
    BY <2>1, <2>2, <1>5 DEF FillsEmpty
  <2>4. QED
    BY <1>1, <1>3, <1>4, <1>5, <2>2, <2>3 DEF b, new
<1>6. CASE Position(ip) # {} /\ list' = [list EXCEPT ![b][1].mac = mac] /\ UNCHANGED <<size, blocks>>
  <2> DEFINE r == [L EXCEPT ![1].mac = mac]
  <2>1. L # <<>> /\ Len(L) \in Nat /\ Len(L) >= 1 /\ L[1] \in Entries /\ DOMAIN L = 1..Len(L)
        /\ \A i \in 1..Len(L) : L[i] \in Entries
    BY <1>1, <1>4, <1>6
  <2>2. [L[1] EXCEPT !.mac = mac] = [ip |-> L[1].ip, mac |-> mac]
    BY <2>1 DEF Entries
  <2>3. [ip |-> L[1].ip, mac |-> mac] \in Entries
    BY <2>1 DEF Entries
  <2> HIDE DEF L
  <2>4. r = [i \in 1..Len(L) |-> IF i = 1 THEN [ip |-> L[1].ip, mac |-> mac] ELSE L[i]]
    BY <2>1, <2>2
  <2>5. /\ r \in Seq(Entries) /\ Len(r) = Len(L) /\ r[1] = [ip |-> L[1].ip, mac |-> mac]
        /\ \A i \in 2..Len(L) : r[i] = L[i]
    <3> DEFINE t == [i \in 1..Len(L) |-> IF i = 1 THEN [ip |-> L[1].ip, mac |-> mac] ELSE L[i]]
    <3>1. \A i \in 1..Len(L) : (IF i = 1 THEN [ip |-> L[1].ip, mac |-> mac] ELSE L[i]) \in Entries
      BY <2>1, <2>3
    <3>2. t \in Seq(Entries) /\ Len(t) = Len(L)
      BY <3>1, <2>1
    <3>3. 1 \in 1..Len(L) /\ \A i \in 2..Len(L) : i \in 1..Len(L) /\ i # 1
      BY <2>1
    <3>4. QED
      BY <3>2, <3>3, <2>4
  <2>6. list' = [list EXCEPT ![b] = r]
    BY <1>6 DEF L
  <2> HIDE DEF b, r
  <2>7. list' \in [Buckets -> Seq(Entries)] /\ list'[b] = r
        /\ \A c \in Buckets : c # b => list'[c] = list[c]
    BY <1>1, <2>5, <2>6
  <2>8. WritesHead(L, list'[b], mac)
    BY <2>1, <2>5, <2>7 DEF WritesHead
  <2>9. QED
    BY <1>1, <1>3, <1>6, <2>7, <2>8 DEF b, L
<1>7. CASE L # <<>> /\ Position(ip) = {} /\ list' = [list EXCEPT ![b] = <<Head(L), new>> \o Tail(L)]
           /\ size' = size + 1 /\ blocks' = blocks + 1
  <2> DEFINE r == <<Head(L), new>> \o Tail(L)
  <2>1. /\ r \in Seq(Entries) /\ Len(r) = Len(L) + 1 /\ r[1] = L[1] /\ r[2] = new
        /\ \A i \in 2..Len(L) : r[i + 1] = L[i]
    BY <1>1, <1>2, <1>7, InsertSecond
  <2> HIDE DEF b, new, r, L
  <2>2. list' \in [Buckets -> Seq(Entries)] /\ list'[b] = r
        /\ \A c \in Buckets : c # b => list'[c] = list[c]
    BY <1>1, <1>7, <2>1 DEF r
  <2>3. GoesSecond(L, list'[b], new)
    BY <1>7, <2>1, <2>2 DEF GoesSecond
  <2>4. QED
    BY <1>1, <1>3, <1>7, <2>2, <2>3 DEF b, new, L
<1>8. QED
  BY <1>5, <1>6, <1>7 DEF hash_put

\* The address is known afterwards, and no other is that was not.
LEMMA PutKnown ==
  ASSUME CacheFacts, NEW ip \in Hosts, NEW mac \in Macs, hash_put(ip, mac)
  PROVE  /\ Known' = Known \cup {ip} /\ IsFiniteSet(Known') /\ size' = Cardinality(Known')
         /\ size' = size + (IF ip \in Known THEN 0 ELSE 1)
<1> DEFINE b == hash_code(ip)
           new == [ip |-> ip, mac |-> mac]
<1>1. /\ list' \in [Buckets -> Seq(Entries)] /\ b \in Buckets /\ list \in [Buckets -> Seq(Entries)]
      /\ \A c \in Buckets : c # b => list'[c] = list[c]
  BY PutShape DEF CacheFacts
<1>2. \/ ip \notin Known /\ FillsEmpty(list[b], list'[b], new) /\ size' = size + 1
      \/ ip \in Known /\ WritesHead(list[b], list'[b], mac) /\ size' = size
      \/ ip \notin Known /\ GoesSecond(list[b], list'[b], new) /\ size' = size + 1
  BY PutShape
<1>3. Known = KnownIn(list) /\ Known' = KnownIn(list')
  BY DEF Known, KnownIn
<1>4. new.ip = ip
  OBVIOUS
<1>5. /\ Len(list[b]) \in Nat /\ Len(list'[b]) \in Nat /\ (list[b] = <<>> <=> Len(list[b]) = 0)
  BY <1>1
<1>6. ASSUME NEW a, \E i \in 1..Len(list[b]) : list[b][i].ip = a
      PROVE  \E i \in 1..Len(list'[b]) : list'[b][i].ip = a
  <2>1. PICK i \in 1..Len(list[b]) : list[b][i].ip = a
    BY <1>6
  <2>2. CASE FillsEmpty(list[b], list'[b], new)
    BY <2>1, <2>2, <1>5 DEF FillsEmpty
  <2>3. CASE WritesHead(list[b], list'[b], mac)
    <3>1. i = 1 \/ i \in 2..Len(list[b])
      BY <2>1, <1>5
    <3>2. list'[b][i].ip = list[b][i].ip /\ i \in 1..Len(list'[b])
      BY <3>1, <2>1, <2>3 DEF WritesHead
    <3>3. QED
      BY <3>2, <2>1
  <2>4. CASE GoesSecond(list[b], list'[b], new)
    <3>1. i = 1 \/ i \in 2..Len(list[b])
      BY <2>1, <1>5
    <3>2. i = 1 => list'[b][1] = list[b][1] /\ 1 \in 1..Len(list'[b])
      BY <2>1, <2>4, <1>5 DEF GoesSecond
    <3>3. i # 1 => list'[b][i + 1] = list[b][i] /\ i + 1 \in 1..Len(list'[b])
      BY <3>1, <2>1, <2>4, <1>5 DEF GoesSecond
    <3>4. QED
      BY <3>2, <3>3, <2>1
  <2>5. QED
    BY <1>2, <2>2, <2>3, <2>4
<1>7. ASSUME NEW a, NEW i \in 1..Len(list'[b]), list'[b][i].ip = a
      PROVE  a = ip \/ \E j \in 1..Len(list[b]) : list[b][j].ip = a
  <2>2. CASE FillsEmpty(list[b], list'[b], new)
    BY <1>7, <2>2, <1>4 DEF FillsEmpty
  <2>3. CASE WritesHead(list[b], list'[b], mac)
    <3>1. i = 1 \/ i \in 2..Len(list[b])
      BY <1>7, <2>3, <1>5 DEF WritesHead
    <3>2. list'[b][i].ip = list[b][i].ip /\ i \in 1..Len(list[b])
      BY <3>1, <1>7, <2>3 DEF WritesHead
    <3>3. QED
      BY <3>2, <1>7
  <2>4. CASE GoesSecond(list[b], list'[b], new)
    <3>1. i = 1 \/ i = 2 \/ (i - 1 \in 2..Len(list[b]) /\ (i - 1) + 1 = i)
      BY <1>7, <2>4, <1>5 DEF GoesSecond
    <3>2. CASE i = 1
      BY <3>2, <1>7, <2>4, <1>5 DEF GoesSecond
    <3>3. CASE i = 2
      BY <3>3, <1>7, <2>4, <1>4 DEF GoesSecond
    <3>4. CASE i - 1 \in 2..Len(list[b]) /\ (i - 1) + 1 = i
      <4>1. list'[b][i] = list[b][i - 1] /\ i - 1 \in 1..Len(list[b])
        BY <3>4, <2>4, <1>5 DEF GoesSecond
      <4>2. QED
        BY <4>1, <1>7
    <3>5. QED
      BY <3>1, <3>2, <3>3, <3>4
  <2>5. QED
    BY <1>2, <2>2, <2>3, <2>4
<1>8. \E i \in 1..Len(list'[b]) : list'[b][i].ip = ip
  <2>1. CASE ip \in Known
    <3>1. \E i \in 1..Len(list[b]) : list[b][i].ip = ip
      BY <2>1, Known1
    <3>2. QED
      BY <3>1, <1>6
  <2>2. CASE FillsEmpty(list[b], list'[b], new)
    BY <2>2, <1>4 DEF FillsEmpty
  <2>3. CASE GoesSecond(list[b], list'[b], new)
    <3>1. 2 \in 1..Len(list'[b])
      BY <2>3, <1>5 DEF GoesSecond
    <3>2. QED
      BY <2>3, <3>1, <1>4 DEF GoesSecond
  <2>4. QED
    BY <1>2, <2>1, <2>2, <2>3
<1>9. ASSUME NEW a PROVE a \in KnownIn(list') <=> a \in KnownIn(list) \/ a = ip
  <2>1. a \in KnownIn(list') <=> \E c \in Buckets : \E i \in 1..Len(list'[c]) : list'[c][i].ip = a
    BY <1>1, InTable
  <2>2. a \in KnownIn(list) <=> \E c \in Buckets : \E i \in 1..Len(list[c]) : list[c][i].ip = a
    BY <1>1, InTable
  <2>3. ASSUME NEW c \in Buckets, NEW i \in 1..Len(list'[c]), list'[c][i].ip = a
        PROVE  a = ip \/ \E d \in Buckets : \E j \in 1..Len(list[d]) : list[d][j].ip = a
    <3>1. CASE c = b
      BY <3>1, <2>3, <1>7, <1>1
    <3>2. CASE c # b
      BY <3>2, <2>3, <1>1
    <3>3. QED
      BY <3>1, <3>2
  <2>4. ASSUME NEW c \in Buckets, NEW i \in 1..Len(list[c]), list[c][i].ip = a
        PROVE  \E d \in Buckets : \E j \in 1..Len(list'[d]) : list'[d][j].ip = a
    <3>1. CASE c = b
      BY <3>1, <2>4, <1>6, <1>1
    <3>2. CASE c # b
      BY <3>2, <2>4, <1>1
    <3>3. QED
      BY <3>1, <3>2
  <2>5. a = ip => \E d \in Buckets : \E j \in 1..Len(list'[d]) : list'[d][j].ip = a
    BY <1>8, <1>1
  <2>6. QED
    BY <2>1, <2>2, <2>3, <2>4, <2>5
<1>10. Known' = Known \cup {ip}
  BY <1>3, <1>9
<1>11. IsFiniteSet(Known) /\ size = Cardinality(Known)
  BY DEF CacheFacts
<1>12. IsFiniteSet(Known') /\ Cardinality(Known') = Cardinality(Known) + (IF ip \in Known THEN 0 ELSE 1)
  <2>1. CASE ip \in Known
    <3>1. Known' = Known
      BY <1>10, <2>1
    <3>2. Cardinality(Known) \in Nat
      BY <1>11, FS_CardinalityType
    <3>3. QED
      BY <2>1, <3>1, <3>2, <1>11
  <2>2. CASE ip \notin Known
    <3> DEFINE K == Known
               k == K \cup {ip}
    <3>1. IsFiniteSet(k) /\ Cardinality(k) = Cardinality(K) + 1
      <4>1. IsFiniteSet(K) /\ ip \notin K
        BY <1>11, <2>2
      <4> HIDE DEF K
      <4>2. QED
        BY <4>1, FS_AddElement DEF k
    <3>2. QED
      BY <2>2, <3>1, <1>10
  <2>3. QED
    BY <2>1, <2>2
<1>13. Cardinality(Known) \in Nat
  BY <1>11, FS_CardinalityType
<1>14. size' = size + (IF ip \in Known THEN 0 ELSE 1)
  BY <1>2, <1>11, <1>13
<1>15. QED
  BY <1>10, <1>11, <1>12, <1>14

\* What is announced is remembered.
ToldGrows(ip, mac) ==
  /\ told' \in [Hosts -> Seq(Macs)]
  /\ \A h \in Hosts : h # ip => told'[h] = told[h]
  /\ told'[ip] # <<>> /\ Last(told'[ip]) = mac /\ mac \in ToSet(told'[ip])
  /\ ToSet(told[ip]) \subseteq ToSet(told'[ip])
  /\ Head(told'[ip]) = IF told[ip] = <<>> THEN mac ELSE Head(told[ip])

\* No other address known afterwards has its bucket.
AloneNext(a) == \A other \in Known' \ {a} : hash_code(other) # hash_code(a)

\* The entries after hash_put are as CacheTruth has them.
LEMMA PutTruth ==
  ASSUME CacheFacts, NEW ip \in Hosts, NEW mac \in Macs, hash_put(ip, mac), ToldGrows(ip, mac)
  PROVE  CacheFacts'
<1> DEFINE b == hash_code(ip)
           new == [ip |-> ip, mac |-> mac]
           L == list[b]
           R == list'[b]
<1>1. /\ list' \in [Buckets -> Seq(Entries)] /\ b \in Buckets /\ list \in [Buckets -> Seq(Entries)]
      /\ \A c \in Buckets : c # b => list'[c] = list[c]
  BY PutShape DEF CacheFacts
<1>2. \/ ip \notin Known /\ FillsEmpty(L, R, new)
      \/ ip \in Known /\ WritesHead(L, R, mac)
      \/ ip \notin Known /\ GoesSecond(L, R, new)
  BY PutShape
<1>3. Known' = Known \cup {ip} /\ IsFiniteSet(Known') /\ size' = Cardinality(Known')
  BY PutKnown
<1>4. \A c \in Buckets : \A i \in 1..Len(list[c]) :
        /\ list[c][i].ip \in Hosts /\ list[c][i].ip \in Known /\ told[list[c][i].ip] # <<>>
        /\ TruthAt(c, i)
  <2> SUFFICES ASSUME NEW c \in Buckets, NEW i \in 1..Len(list[c])
               PROVE  /\ list[c][i].ip \in Hosts /\ list[c][i].ip \in Known
                      /\ told[list[c][i].ip] # <<>> /\ TruthAt(c, i)
    OBVIOUS
  <2>1. TruthAt(c, i)
    BY DEF CacheFacts
  <2>2. list[c][i] \in Entries
    BY <1>1
  <2>3. list[c][i].ip \in Hosts
    BY <2>2 DEF Entries
  <2>4. list[c][i].ip \in Known
    BY <2>1, <2>3, Known1 DEF TruthAt
  <2>5. QED
    BY <2>1, <2>3, <2>4 DEF CacheFacts
<1>5. \A h \in Hosts : /\ ToSet(told[h]) \subseteq ToSet(told'[h])
                       /\ told[h] # <<>> => Head(told'[h]) = Head(told[h])
                       /\ h # ip => told'[h] = told[h]
  BY DEF ToldGrows
<1>6. \A a : AloneNext(a) => Alone(a)
  BY <1>3 DEF Alone, AloneNext
<1>7. \A a : \A o \in Known' : o # a /\ hash_code(o) = hash_code(a) => ~AloneNext(a)
  BY DEF AloneNext
<1>8. Known' = {h \in Hosts : told'[h] # <<>>}
  <2>1. Known = {h \in Hosts : told[h] # <<>>} /\ told'[ip] # <<>>
    BY DEF CacheFacts, ToldGrows
  <2>2. QED
    BY <2>1, <1>3, <1>5
<1>9. new.ip = ip /\ new.mac = mac
  OBVIOUS
<1>10. ip \notin Known => told[ip] = <<>>
  BY DEF CacheFacts
<1>11. Len(L) \in Nat /\ (L = <<>> <=> Len(L) = 0) /\ Len(R) \in Nat
  BY <1>1
<1>12. mac \in ToSet(told'[ip]) /\ Last(told'[ip]) = mac
  BY DEF ToldGrows
<1>0. ASSUME NEW c, NEW i,
             /\ hash_code(list'[c][i].ip) = c
             /\ \A j \in 1..Len(list'[c]) : list'[c][j].ip = list'[c][i].ip => j = i
             /\ AloneNext(list'[c][i].ip) => list'[c][i].mac = Last(told'[list'[c][i].ip])
             /\ i > 1 => list'[c][i].mac = Head(told'[list'[c][i].ip])
             /\ \E h \in Hosts : hash_code(h) = c /\ list'[c][i].mac \in ToSet(told'[h])
      PROVE  TruthAt(c, i)'
  BY <1>0 DEF TruthAt, Alone, AloneNext
<1> HIDE DEF b, new, L, R
\* The chains of other buckets.
<1>13. ASSUME NEW c \in Buckets, NEW i \in 1..Len(list'[c]), c # b PROVE TruthAt(c, i)'
  <2>1. list'[c] = list[c] /\ i \in 1..Len(list[c])
    BY <1>1, <1>13
  <2> DEFINE x == list[c][i]
  <2>2. TruthAt(c, i) /\ x.ip \in Hosts /\ told[x.ip] # <<>>
    BY <2>1, <1>4
  <2>3. hash_code(x.ip) = c /\ x.ip # ip
    BY <2>2, <1>13 DEF TruthAt, b
  <2>4. told'[x.ip] = told[x.ip]
    BY <2>2, <2>3, <1>5
  <2>5. \E h \in Hosts : hash_code(h) = c /\ x.mac \in ToSet(told'[h])
    BY <2>2, <1>5 DEF TruthAt
  <2>6. \A j \in 1..Len(list[c]) : list[c][j].ip = x.ip => j = i
    BY <2>2 DEF TruthAt
  <2>7. (AloneNext(x.ip) => x.mac = Last(told'[x.ip])) /\ (i > 1 => x.mac = Head(told'[x.ip]))
    BY <2>2, <2>4, <1>6 DEF TruthAt
  <2>8. QED
    BY <2>1, <2>3, <2>5, <2>6, <2>7, <1>0
\* An entry of the chain behind the head, which says what it said.
<1>14. ASSUME NEW i \in 2..Len(L)
       PROVE  /\ hash_code(L[i].ip) = b /\ ~AloneNext(L[i].ip) /\ L[i].mac = Head(told'[L[i].ip])
              /\ \E h \in Hosts : hash_code(h) = b /\ L[i].mac \in ToSet(told'[h])
  <2>1. i \in 1..Len(L) /\ 1 \in 1..Len(L) /\ i > 1
    BY <1>11
  <2>2. /\ TruthAt(b, i) /\ TruthAt(b, 1) /\ L[i].ip \in Hosts /\ told[L[i].ip] # <<>>
        /\ L[1].ip \in Known
    BY <2>1, <1>1, <1>4 DEF L
  <2>3. hash_code(L[i].ip) = b /\ hash_code(L[1].ip) = b /\ L[1].ip # L[i].ip
    BY <2>1, <2>2 DEF TruthAt, L
  <2>4. ~AloneNext(L[i].ip)
    BY <2>2, <2>3, <1>3, <1>7
  <2>5. L[i].mac = Head(told'[L[i].ip])
    BY <2>1, <2>2, <1>5 DEF TruthAt, L
  <2>6. \E h \in Hosts : hash_code(h) = b /\ L[i].mac \in ToSet(told'[h])
    BY <2>2, <1>5 DEF TruthAt, L
  <2>7. QED
    BY <2>3, <2>4, <2>5, <2>6
<1>15. \A i, j \in 1..Len(L) : L[i].ip = L[j].ip => i = j
  BY <1>1, <1>4 DEF TruthAt, L
<1>16. \A i \in 1..Len(L) : hash_code(L[i].ip) = b /\ L[i].ip \in Known
  BY <1>1, <1>4 DEF TruthAt, L
<1>17. b = hash_code(ip)
  BY DEF b
<1>18. ASSUME NEW i \in 1..Len(R) PROVE TruthAt(b, i)'
  <2>1. CASE FillsEmpty(L, R, new)
    <3>1. i = 1 /\ R[1] = new /\ Len(R) = 1
      BY <2>1 DEF FillsEmpty
    <3>2. QED
      BY <3>1, <1>9, <1>12, <1>17, <1>0 DEF R
  <2>2. CASE ip \in Known /\ WritesHead(L, R, mac)
    <3>1. /\ Len(R) = Len(L) /\ R[1].ip = L[1].ip /\ R[1].mac = mac /\ 1 \in 1..Len(L)
          /\ \A j \in 2..Len(L) : R[j] = L[j]
      BY <2>2, <1>11 DEF WritesHead
    <3>2. \A j \in 1..Len(R) : R[j].ip = L[j].ip /\ (j = 1 \/ j \in 2..Len(L))
      BY <3>1, <1>11
    <3>3. \A j \in 1..Len(R) : R[j].ip = R[i].ip => j = i
      BY <3>1, <3>2, <1>15
    <3>4. CASE i = 1
      <4>1. hash_code(L[1].ip) = b
        BY <3>1, <1>16
      <4>2. AloneNext(L[1].ip) => L[1].ip = ip
        BY <4>1, <1>3, <1>7, <1>17
      <4>3. QED
        BY <3>1, <3>3, <3>4, <4>1, <4>2, <1>12, <1>17, <1>0 DEF R
    <3>5. CASE i \in 2..Len(L)
      <4>1. R[i] = L[i]
        BY <3>1, <3>5
      <4>2. QED
        BY <4>1, <3>3, <3>5, <1>14, <1>0 DEF R
    <3>6. QED
      BY <3>2, <3>4, <3>5
  <2>3. CASE ip \notin Known /\ GoesSecond(L, R, new)
    <3>1. /\ Len(R) = Len(L) + 1 /\ R[1] = L[1] /\ R[2] = new /\ 1 \in 1..Len(L)
          /\ \A j \in 2..Len(L) : R[j + 1] = L[j]
      BY <2>3, <1>11 DEF GoesSecond
    <3>2. \A j \in 1..Len(R) : j = 1 \/ j = 2 \/ (j - 1 \in 2..Len(L) /\ R[j] = L[j - 1])
      <4>1. \A j \in 1..Len(R) : j = 1 \/ j = 2 \/ (j - 1 \in 2..Len(L) /\ (j - 1) + 1 = j)
        BY <3>1, <1>11
      <4>2. QED
        BY <4>1, <3>1
    <3>3. \A j \in 1..Len(L) : L[j].ip # ip
      BY <2>3, <1>16
    <3>4. \A j \in 1..Len(R) : R[j].ip = R[i].ip => j = i
      <4> SUFFICES ASSUME NEW j \in 1..Len(R), R[j].ip = R[i].ip PROVE j = i
        OBVIOUS
      <4>1. i = 1 \/ i = 2 \/ (i - 1 \in 2..Len(L) /\ R[i] = L[i - 1])
        BY <3>2
      <4>2. j = 1 \/ j = 2 \/ (j - 1 \in 2..Len(L) /\ R[j] = L[j - 1])
        BY <3>2
      <4>3. \A k \in 2..Len(L) : k \in 1..Len(L) /\ k # 1
        OBVIOUS
      <4>4. CASE i = 2 \/ j = 2
        BY <4>1, <4>2, <4>3, <4>4, <3>1, <3>3, <1>9
      <4>5. CASE i # 2 /\ j # 2
        <5>1. CASE i = 1 /\ j = 1
          BY <5>1
        <5>2. CASE i = 1 /\ j # 1
          BY <5>2, <4>2, <4>3, <4>5, <3>1, <1>15
        <5>3. CASE i # 1 /\ j = 1
          BY <5>3, <4>1, <4>3, <4>5, <3>1, <1>15
        <5>4. CASE i # 1 /\ j # 1
          <6>1. i - 1 = j - 1
            BY <5>4, <4>1, <4>2, <4>3, <4>5, <1>15
          <6>2. QED
            BY <6>1
        <5>5. QED
          BY <5>1, <5>2, <5>3, <5>4
      <4>6. QED
        BY <4>4, <4>5
    <3>5. CASE i = 1
      <4>1. hash_code(L[1].ip) = b /\ L[1].ip # ip
        BY <3>1, <3>3, <1>16
      <4>2. ~AloneNext(L[1].ip)
        BY <4>1, <1>3, <1>7, <1>17
      <4>3. \E h \in Hosts : hash_code(h) = b /\ L[1].mac \in ToSet(told'[h])
        <5>1. TruthAt(b, 1)
          BY <3>1, <1>1, <1>4 DEF L
        <5>2. QED
          BY <5>1, <1>5 DEF TruthAt, L
      <4>4. QED
        BY <3>1, <3>4, <3>5, <4>1, <4>2, <4>3, <1>0 DEF R
    <3>6. CASE i = 2
      <4>1. hash_code(L[1].ip) = b /\ L[1].ip # ip /\ L[1].ip \in Known
        BY <3>1, <3>3, <1>16
      <4>2. ~AloneNext(ip)
        BY <4>1, <1>3, <1>7, <1>17
      <4>3. mac = Head(told'[ip])
        BY <2>3, <1>10 DEF ToldGrows
      <4>4. QED
        BY <3>1, <3>4, <3>6, <4>2, <4>3, <1>9, <1>12, <1>17, <1>0 DEF R
    <3>7. CASE i - 1 \in 2..Len(L) /\ R[i] = L[i - 1]
      BY <3>4, <3>7, <1>14, <1>0 DEF R
    <3>8. QED
      BY <3>2, <3>5, <3>6, <3>7
  <2>4. QED
    BY <1>2, <2>1, <2>2, <2>3
<1>19. \A c \in Buckets : \A i \in 1..Len(list'[c]) : TruthAt(c, i)'
  BY <1>13, <1>18 DEF R
<1>20. told' \in [Hosts -> Seq(Macs)]
  BY DEF ToldGrows
<1>21. QED
  BY <1>1, <1>3, <1>8, <1>19, <1>20 DEF CacheFacts

\* A block is taken for an entry if and only if it stands behind another.
LEMMA PutBehind ==
  ASSUME CacheFacts, blocks \in Nat, NEW ip \in Hosts, NEW mac \in Macs, hash_put(ip, mac)
  PROVE  /\ IsFiniteSet(Behind) /\ Cardinality(Behind) \in Nat
         /\ Cardinality(Behind') = Cardinality(Behind) + (blocks' - blocks)
         /\ \/ blocks' = blocks
            \/ blocks' = blocks + 1 /\ list[hash_code(ip)] # <<>> /\ Position(ip) = {}
<1> DEFINE b == hash_code(ip)
           new == [ip |-> ip, mac |-> mac]
           L == list[b]
           R == list'[b]
<1>1. \/ ip \notin Known /\ FillsEmpty(L, R, new) /\ blocks' = blocks
      \/ ip \in Known /\ WritesHead(L, R, mac) /\ blocks' = blocks
      \/ ip \notin Known /\ GoesSecond(L, R, new) /\ blocks' = blocks + 1
  BY PutShape
<1>2. b \in Buckets /\ (\A c \in Buckets : c # b => list'[c] = list[c]) /\ list \in [Buckets -> Seq(Entries)]
  BY PutShape DEF CacheFacts
<1>3. Known' = Known \cup {ip} /\ IsFiniteSet(Known) /\ Known \subseteq Hosts
  BY PutKnown DEF CacheFacts
<1>4. \A a \in Known : list[hash_code(a)] # <<>> /\ hash_code(a) \in Buckets
  <2> SUFFICES ASSUME NEW a \in Known PROVE list[hash_code(a)] # <<>> /\ hash_code(a) \in Buckets
    OBVIOUS
  <2>1. a \in Hosts /\ hash_code(a) \in Buckets
    BY <1>3, HostFacts
  <2>2. \E i \in 1..Len(list[hash_code(a)]) : TRUE
    BY <2>1, Known1
  <2>3. list[hash_code(a)] \in Seq(Entries)
    BY <2>1, <1>2
  <2>4. QED
    BY <2>1, <2>2, <2>3
<1>5. \A c \in Buckets : list[c] # <<>> => list'[c][1].ip = list[c][1].ip
  <2>1. L # <<>> => R[1].ip = L[1].ip
    BY <1>1 DEF FillsEmpty, WritesHead, GoesSecond
  <2>2. QED
    BY <2>1, <1>2
<1>6. \A a \in Known : list'[hash_code(a)][1].ip = list[hash_code(a)][1].ip
  BY <1>4, <1>5
<1>7. IsFiniteSet(Behind) /\ Cardinality(Behind) \in Nat
  <2>1. Behind \subseteq Known
    BY DEF Behind
  <2>2. QED
    BY <2>1, <1>3, FS_Subset, FS_CardinalityType
<1>8. new.ip = ip
  OBVIOUS
<1>9. CASE ip \in Known \/ R[1].ip = ip
  <2>1. Behind' = Behind
    BY <1>3, <1>6, <1>9 DEF Behind
  <2>2. blocks' = blocks
    <3>1. L # <<>> /\ ip \notin Known => L[1].ip # ip
      <4>1. L # <<>> => 1 \in 1..Len(L)
        BY <1>2
      <4>2. QED
        BY <4>1, Known1
    <3>2. QED
      BY <3>1, <1>1, <1>9 DEF GoesSecond
  <2>3. QED
    BY <2>1, <2>2, <1>7
<1>10. CASE ip \notin Known /\ R[1].ip # ip
  <2>1. Behind' = Behind \cup {ip} /\ ip \notin Behind
    BY <1>3, <1>6, <1>10 DEF Behind
  <2>2. Cardinality(Behind') = Cardinality(Behind) + 1
    <3> DEFINE B == Behind
    <3>1. IsFiniteSet(B) /\ ip \notin B
      BY <1>7, <2>1
    <3> HIDE DEF B
    <3>2. Cardinality(B \cup {ip}) = Cardinality(B) + 1
      BY <3>1, FS_AddElement
    <3>3. QED
      BY <3>2, <2>1 DEF B
  <2>3. blocks' = blocks + 1 /\ L # <<>>
    BY <1>1, <1>8, <1>10 DEF FillsEmpty, GoesSecond
  <2>4. Position(ip) = {}
    BY <1>10, Known1
  <2>5. QED
    BY <2>2, <2>3, <2>4, <1>7
<1>11. QED
  BY <1>9, <1>10

\* What stays when neither the cache nor what is announced changes.
LEMMA CacheFrame ==
  ASSUME IInv, UNCHANGED <<cache, told>>
  PROVE  /\ CacheFacts /\ CacheFacts' /\ Known' = Known /\ Behind' = Behind
         /\ list' = list /\ told' = told /\ size' = size
         /\ IsFiniteSet(Behind) /\ Cardinality(Behind) \in Nat
<1>1. CacheFacts /\ list' = list /\ told' = told /\ size' = size
  BY TypedTruth DEF IInv, CacheTruth, cache
<1>2. Known' = Known
  BY <1>1 DEF Known
<1>3. Behind' = Behind
  BY <1>1, <1>2 DEF Behind
<1>4. CacheFacts'
  <2>1. \A a : Alone(a) <=> AloneNext(a)
    BY <1>2 DEF Alone, AloneNext
  <2>2. ASSUME NEW b \in Buckets, NEW i \in 1..Len(list[b]) PROVE TruthAt(b, i)'
    <3>1. TruthAt(b, i)
      BY <1>1 DEF CacheFacts
    <3>2. AloneNext(list[b][i].ip) => list[b][i].mac = Last(told[list[b][i].ip])
      BY <2>1, <3>1 DEF TruthAt
    <3>3. QED
      BY <3>1, <3>2, <1>1 DEF TruthAt, Alone, AloneNext
  <2>3. QED
    BY <2>2, <1>1, <1>2 DEF CacheFacts
<1>5. Behind \subseteq Known /\ IsFiniteSet(Known)
  BY <1>1 DEF Behind, CacheFacts
<1>6. IsFiniteSet(Behind) /\ Cardinality(Behind) \in Nat
  BY <1>5, FS_Subset, FS_CardinalityType
<1>7. QED
  BY <1>1, <1>2, <1>3, <1>4, <1>6

\* The entry the search stands on.
LEMMA EntryFacts ==
  ASSUME IInv
  PROVE  /\ Chain \in Seq(Entries) /\ Len(Chain) \in Nat
         /\ Chain = <<>> => Entry(e).ip = 0
         /\ Chain # <<>> =>
              /\ At(e) \in 1..Len(Chain) /\ Entry(e) = Chain[At(e)] /\ Entry(e) \in Entries
              /\ Entry(e).ip \in Known /\ Entry(e).ip # 0
              /\ hash_code(Entry(e).ip) = hash_code(Asked)
              /\ Alone(Asked) => Entry(e).mac \in ToSet(told[Asked])
         /\ \A i \in 1..Len(Chain) : Chain[i].ip \in Known /\ hash_code(Chain[i].ip) = hash_code(Asked)
<1>1. CacheFacts /\ Asked \in Hosts /\ hash_code(Asked) \in Buckets
  BY TypedTruth, HostFacts DEF IInv, CacheTruth
<1>2. Chain \in Seq(Entries) /\ Len(Chain) \in Nat /\ DOMAIN Chain = 1..Len(Chain)
      /\ (Chain = <<>> <=> Len(Chain) = 0)
  BY <1>1 DEF Chain, CacheFacts
<1>3. \A i \in 1..Len(Chain) : Chain[i].ip \in Known /\ hash_code(Chain[i].ip) = hash_code(Asked)
  <2> SUFFICES ASSUME NEW i \in 1..Len(Chain)
               PROVE  Chain[i].ip \in Known /\ hash_code(Chain[i].ip) = hash_code(Asked)
    OBVIOUS
  <2>1. TruthAt(hash_code(Asked), i) /\ Chain[i] \in Entries
    BY <1>1, <1>2 DEF CacheFacts, Chain
  <2>2. hash_code(Chain[i].ip) = hash_code(Asked) /\ Chain[i].ip \in Hosts
    BY <2>1 DEF TruthAt, Chain, Entries
  <2>3. QED
    BY <2>2, <1>1, Known1 DEF Chain
<1>4. e # HEAD => \E i \in 1..Len(Chain) : Chain[i].ip = e
  <2>1. e # HEAD => e \in Hosts /\ e \in Known /\ hash_code(e) = hash_code(Asked)
    BY DEF IInv, CacheTruth, TypeOK, Searching
  <2>2. QED
    BY <2>1, <1>1, Known1 DEF Chain
<1>5. Chain = <<>> => Entry(e).ip = 0
  BY <1>2, <1>4 DEF Entry, Empty
<1>6. ASSUME Chain # <<>>
      PROVE  /\ At(e) \in 1..Len(Chain) /\ Entry(e) = Chain[At(e)] /\ Entry(e) \in Entries
             /\ Entry(e).ip \in Known /\ Entry(e).ip # 0
             /\ hash_code(Entry(e).ip) = hash_code(Asked)
             /\ Alone(Asked) => Entry(e).mac \in ToSet(told[Asked])
  <2>1. \E i \in DOMAIN Chain : IF e = HEAD THEN i = 1 ELSE Chain[i].ip = e
    <3>1. 1 \in DOMAIN Chain
      BY <1>6, <1>2
    <3>2. QED
      BY <3>1, <1>2, <1>4
  <2>2. At(e) \in 1..Len(Chain)
    BY <2>1, <1>2 DEF At
  <2>3. Entry(e) = Chain[At(e)]
    BY <1>6 DEF Entry
  <2> DEFINE k == At(e)
  <2> HIDE DEF k
  <2>4. k \in 1..Len(Chain) /\ Entry(e) = Chain[k]
    BY <2>2, <2>3 DEF k
  <2>5. Entry(e) \in Entries /\ Entry(e).ip \in Known /\ hash_code(Entry(e).ip) = hash_code(Asked)
    BY <2>4, <1>2, <1>3
  <2>6. Entry(e).ip \in Hosts
    BY <2>5 DEF Entries
  <2>7. Entry(e).ip # 0
    BY <2>6, HostFacts DEF HEAD
  <2>8. Alone(Asked) => Entry(e).mac \in ToSet(told[Asked])
    <3> SUFFICES ASSUME Alone(Asked) PROVE Entry(e).mac \in ToSet(told[Asked])
      OBVIOUS
    <3>1. Entry(e).ip = Asked
      BY <2>5 DEF Alone
    <3>2. TruthAt(hash_code(Asked), k)
      BY <2>4, <1>1 DEF CacheFacts, Chain
    <3>3. Entry(e).mac = Last(told[Asked])
      BY <3>1, <3>2, <2>4 DEF TruthAt, Chain
    <3>4. told[Asked] # <<>> /\ told[Asked] \in Seq(Macs)
      BY <3>1, <2>5, <1>1 DEF CacheFacts
    <3>5. QED
      BY <3>3, <3>4, LastIn
  <2>9. QED
    BY <2>2, <2>3, <2>5, <2>7, <2>8
<1>7. QED
  BY <1>2, <1>3, <1>5, <1>6

-----------------------------------------------------------------------------
(* What a step has to show                                                  *)

\* The kinds of value of what is not the cache.
OtherKinds ==
  /\ blocks \in 0..NBlocks /\ ipSent \in Nat
  /\ phase \in {"first", "second", "send"}
  /\ pc \in {"zero", "same", "last", "ask", "found", "packet", "send", "free", "idle"}
  /\ e \in Hosts \cup {HEAD} /\ half \in Macs \cup {0}
  /\ request \subseteq Hosts
  /\ halted \in {"no", "panic", "wild"}

\* The blocks that are not an entry's.
OtherBlocks == 2 + ipSent + (IF phase = "send" THEN 1 ELSE 0) + InProgress

\* The heap has blocks.
LEMMA BlocksNat == NBlocks \in Nat
  BY NetAssumption

LEMMA Kinds ==
  ASSUME IInv
  PROVE  /\ OtherKinds /\ blocks = Cardinality(Behind) + OtherBlocks /\ OtherBlocks \in Nat
         /\ CacheFacts /\ NBlocks \in Nat /\ blocks \in Nat
         /\ IsFiniteSet(Behind) /\ Cardinality(Behind) \in Nat
<1>1. OtherKinds
  BY DEF IInv, CacheTruth, TypeOK, OtherKinds
<1>2. CacheFacts
  BY TypedTruth DEF IInv, CacheTruth
<1>3. Behind \subseteq Known /\ IsFiniteSet(Known)
  BY <1>2 DEF Behind, CacheFacts
<1>4. IsFiniteSet(Behind) /\ Cardinality(Behind) \in Nat
  BY <1>3, FS_Subset, FS_CardinalityType
<1>5. InProgress \in Nat /\ ipSent \in Nat /\ NBlocks \in Nat /\ blocks \in Nat
  <2>1. InProgress \in Nat
    BY DEF InProgress
  <2>2. ipSent \in Nat /\ blocks \in 0..NBlocks
    BY <1>1 DEF OtherKinds
  <2>3. blocks \in Nat
    BY <2>2, BlocksNat
  <2>4. QED
    BY <2>1, <2>2, <2>3, BlocksNat
<1>6. OtherBlocks \in Nat
  BY <1>5 DEF OtherBlocks
<1>7. blocks = Cardinality(Behind) + OtherBlocks
  <2>1. blocks = 2 + Cardinality(Behind) + ipSent + (IF phase = "send" THEN 1 ELSE 0) + InProgress
    BY DEF IInv, MemoryAccounted, Behind
  <2>2. QED
    BY <2>1, <1>4, <1>5 DEF OtherBlocks
<1>8. QED
  BY <1>1, <1>2, <1>4, <1>5, <1>6, <1>7

\* The parts of the invariant, put together.
LEMMA Together ==
  ASSUME CacheFacts', OtherKinds', Searching', Fragments', SentWhereTold',
         size' \in Nat, Cardinality(Behind') \in Nat,
         blocks' = Cardinality(Behind') + OtherBlocks'
  PROVE  IInv'
<1>1. datagram' \in [total : Nat, left : Nat, data_p : Nat, frag_off : Nat]
  BY DEF Fragments
<1>2. \A f \in DOMAIN datagram' : datagram'[f] \in Nat
  BY <1>1
<1>3. TypeOK'
  BY <1>2 DEF TypeOK, OtherKinds, CacheFacts, Buckets, Entries
<1>4. CacheTruth' /\ IsFiniteSet(Known)'
  BY <1>3, TypedTruthNext
<1>5. ipSent' \in Nat /\ InProgress' \in Nat
  BY DEF OtherKinds, InProgress
<1>6. blocks' = 2 + Cardinality(Behind') + ipSent' + (IF phase' = "send" THEN 1 ELSE 0) + InProgress'
  BY <1>5 DEF OtherBlocks
<1>7. MemoryAccounted'
  BY <1>6 DEF MemoryAccounted, Behind
<1>8. QED
  BY <1>4, <1>7 DEF IInv

\* A step that leaves the cache alone.
LEMMA CacheKept ==
  ASSUME IInv, UNCHANGED <<cache, told>>, OtherKinds', Searching', Fragments', SentWhereTold',
         blocks' - blocks = OtherBlocks' - OtherBlocks, OtherBlocks' \in Nat
  PROVE  IInv'
<1>1. /\ CacheFacts' /\ Behind' = Behind /\ size' = size
      /\ Cardinality(Behind) \in Nat
  BY CacheFrame
<1>2. size \in Nat
  BY DEF IInv, CacheTruth, TypeOK
<1>3. blocks' = Cardinality(Behind') + OtherBlocks'
  <2>1. blocks = Cardinality(Behind) + OtherBlocks /\ OtherBlocks \in Nat /\ blocks \in Nat
    BY Kinds
  <2>2. blocks' \in Nat
    BY BlocksNat DEF OtherKinds
  <2>3. QED
    BY <2>1, <2>2, <1>1
<1>4. Cardinality(Behind') \in Nat /\ size' \in Nat
  BY <1>1, <1>2
<1>5. QED
  BY <1>1, <1>3, <1>4, Together

\* The boot thread's place stands while the handler runs.
LEMMA BootKept ==
  ASSUME IInv, UNCHANGED boot, Known \subseteq Known', Chain # <<>> => Chain' # <<>>,
         ToSet(told[Asked]) \subseteq ToSet(told'[Asked])
  PROVE  Searching' /\ Fragments'
<1>1. /\ phase' = phase /\ pc' = pc /\ e' = e /\ half' = half /\ datagram' = datagram
      /\ Asked' = Asked
  BY DEF boot, Asked
<1>2. Alone(Asked)' => Alone(Asked)
  BY <1>1 DEF Alone
<1>3. Searching'
  BY <1>1, <1>2 DEF IInv, Searching
<1>4. Fragments'
  BY <1>1 DEF IInv, Fragments, Fragmented, current_size, FragmentsLose
<1>5. QED
  BY <1>3, <1>4

\* A handler that leaves the cache and the memory alone.
LEMMA QuietInv ==
  ASSUME IInv, Quiet, UNCHANGED <<cache, blocks, boot, told, ipSent>>, request' \subseteq Hosts,
         \/ halted' \in {"no", "panic"}
         \/ halted' = "wild" /\ (pc = "packet" \/ \E ip \in Hosts, other \in Known :
                                    ip # other /\ hash_code(ip) = hash_code(other))
  PROVE  IInv'
<1>1. Known' = Known /\ list' = list /\ told' = told
  BY CacheFrame
<1>2. phase' = phase /\ pc' = pc /\ e' = e /\ half' = half /\ Asked' = Asked
  BY DEF boot, Asked
<1>3. Searching' /\ Fragments'
  <2>1. Chain' = Chain
    BY <1>1, <1>2 DEF Chain
  <2>2. QED
    BY <1>1, <2>1, BootKept
<1>4. OtherKinds'
  <2>1. OtherKinds
    BY Kinds
  <2>2. QED
    BY <2>1, <1>2 DEF OtherKinds
<1>5. OtherBlocks' = OtherBlocks /\ blocks' = blocks
  BY <1>2 DEF OtherBlocks, InProgress
<1>6. SentWhereTold'
  BY <1>1, <1>2 DEF SentWhereTold, Quiet, NoPacket
<1>7. OtherBlocks \in Nat /\ blocks \in Nat
  BY Kinds
<1>8. QED
  BY <1>3, <1>4, <1>5, <1>6, <1>7, CacheKept

-----------------------------------------------------------------------------
(* The timer handler                                                        *)

\* An announcement is remembered, once if it repeats the last.
LEMMA Remembered ==
  ASSUME told \in [Hosts -> Seq(Macs)], NEW ip \in Hosts, NEW mac \in Macs,
         told' = IF told[ip] # <<>> /\ Last(told[ip]) = mac THEN told
                 ELSE [told EXCEPT ![ip] = Append(@, mac)]
  PROVE  ToldGrows(ip, mac)
<1>1. told[ip] \in Seq(Macs)
  OBVIOUS
<1>2. CASE told[ip] # <<>> /\ Last(told[ip]) = mac
  <2>1. mac \in ToSet(told[ip])
    BY <1>1, <1>2, LastIn
  <2>2. told' = told
    BY <1>2
  <2>3. QED
    BY <1>2, <2>1, <2>2 DEF ToldGrows
<1>3. CASE ~(told[ip] # <<>> /\ Last(told[ip]) = mac)
  <2> DEFINE t == Append(told[ip], mac)
  <2>1. /\ t \in Seq(Macs) /\ t # <<>> /\ Last(t) = mac /\ mac \in ToSet(t)
        /\ ToSet(told[ip]) \subseteq ToSet(t)
        /\ Head(t) = IF told[ip] = <<>> THEN mac ELSE Head(told[ip])
    BY ONLY <1>1, mac \in Macs, Announced
  <2>2. told' = [told EXCEPT ![ip] = t]
    BY <1>3
  <2> HIDE DEF t
  <2>3. told'[ip] = t /\ told' \in [Hosts -> Seq(Macs)] /\ \A h \in Hosts : h # ip => told'[h] = told[h]
    BY <2>1, <2>2
  <2>4. QED
    BY <2>1, <2>3 DEF ToldGrows
<1>4. QED
  BY <1>2, <1>3

LEMMA ReplyStep ==
  ASSUME IInv, halted = "no", NEW ip \in Hosts, NEW mac \in Macs, arp_rcv_reply(ip, mac)
  PROVE  IInv'
<1>1. /\ OtherKinds /\ CacheFacts /\ NBlocks \in Nat /\ blocks \in Nat /\ OtherBlocks \in Nat
      /\ blocks = Cardinality(Behind) + OtherBlocks
  BY Kinds
<1>2. CASE list[hash_code(ip)] # <<>> /\ Position(ip) = {} /\ ~HasBlocks(1)
  <2>1. Panic
    BY <1>2 DEF arp_rcv_reply
  <2>2. request' \subseteq Hosts
    BY <2>1, <1>1 DEF Panic, OtherKinds
  <2>3. QED
    BY <2>1, <2>2, QuietInv DEF Panic
<1>3. CASE ~(list[hash_code(ip)] # <<>> /\ Position(ip) = {} /\ ~HasBlocks(1))
  <2>1. /\ hash_put(ip, mac) /\ request' = request \ {ip} /\ Quiet /\ UNCHANGED <<boot, halted, ipSent>>
        /\ told' = IF told[ip] # <<>> /\ Last(told[ip]) = mac THEN told
                   ELSE [told EXCEPT ![ip] = Append(@, mac)]
    BY <1>3 DEF arp_rcv_reply
  <2>2. ToldGrows(ip, mac)
    BY <2>1, <1>1, Remembered DEF CacheFacts
  <2>3. CacheFacts'
    BY <2>1, <2>2, <1>1, PutTruth
  <2>4. Known' = Known \cup {ip} /\ IsFiniteSet(Known') /\ size' = Cardinality(Known')
    BY <2>1, <1>1, PutKnown
  <2>5. /\ IsFiniteSet(Behind) /\ Cardinality(Behind) \in Nat
        /\ Cardinality(Behind') = Cardinality(Behind) + (blocks' - blocks)
        /\ \/ blocks' = blocks
           \/ blocks' = blocks + 1 /\ list[hash_code(ip)] # <<>> /\ Position(ip) = {}
    BY <2>1, <1>1, PutBehind
  <2>6. blocks' \in 0..NBlocks /\ Cardinality(Behind') \in Nat
    <3>1. blocks' = blocks \/ (blocks' = blocks + 1 /\ blocks + 1 <= NBlocks)
      BY <2>5, <1>3 DEF HasBlocks
    <3>2. blocks \in 0..NBlocks
      BY <1>1 DEF OtherKinds
    <3>3. blocks' \in 0..NBlocks /\ (blocks' - blocks) \in {0, 1}
      BY <3>1, <3>2, BlocksNat
    <3>4. QED
      BY <3>3, <2>5
  <2>7. phase' = phase /\ pc' = pc /\ e' = e /\ half' = half /\ ipSent' = ipSent /\ halted' = halted
    BY <2>1 DEF boot
  <2>8. OtherKinds'
    BY <2>1, <2>6, <2>7, <1>1 DEF OtherKinds
  <2>9. OtherBlocks' = OtherBlocks
    BY <2>7 DEF OtherBlocks, InProgress
  <2>10. Searching' /\ Fragments'
    <3>1. \A c \in Buckets : list[c] # <<>> => list'[c] # <<>>
      <4>1. \A c \in Buckets : c # hash_code(ip) => list'[c] = list[c]
        BY <2>1, <1>1, PutShape
      <4>2. list'[hash_code(ip)] # <<>>
        <5> DEFINE L == list[hash_code(ip)]
                   R == list'[hash_code(ip)]
        <5>1. L \in Seq(Entries) /\ R \in Seq(Entries)
          BY <2>3, <1>1, HostFacts DEF CacheFacts
        <5>2. L # <<>> => Len(L) > 0 /\ Len(L) \in Nat
          BY <5>1
        <5>3. Len(R) = 1 \/ (L # <<>> /\ (Len(R) = Len(L) \/ Len(R) = Len(L) + 1))
          BY <2>1, <1>1, PutShape DEF FillsEmpty, WritesHead, GoesSecond
        <5> HIDE DEF L, R
        <5>4. R # <<>>
          BY <5>2, <5>3
        <5>5. QED
          BY <5>4 DEF R
      <4>3. QED
        BY <4>1, <4>2
    <3>2. Asked' = Asked /\ Asked \in Hosts /\ hash_code(Asked) \in Buckets
      BY <2>7, HostFacts DEF Asked
    <3>3. Chain # <<>> => Chain' # <<>>
      BY <3>1, <3>2 DEF Chain
    <3>4. ToSet(told[Asked]) \subseteq ToSet(told'[Asked])
      BY <2>2, <3>2 DEF ToldGrows
    <3>5. QED
      BY <2>1, <2>4, <3>3, <3>4, BootKept
  <2>11. SentWhereTold'
    BY <2>1, <2>7 DEF SentWhereTold, Quiet, NoPacket
  <2>12. size' \in Nat
    BY <2>4, FS_CardinalityType
  <2>13. blocks' = Cardinality(Behind') + OtherBlocks'
    BY <2>5, <2>6, <2>9, <1>1
  <2>14. QED
    BY <2>3, <2>6, <2>8, <2>10, <2>11, <2>12, <2>13, Together
<1>4. QED
  BY <1>2, <1>3

\* A step of the handler that changes nothing but halted.
LEMMA StillStep ==
  ASSUME IInv, halted = "no", Nothing \/ Panic
  PROVE  IInv'
<1>1. request \subseteq Hosts
  BY Kinds DEF OtherKinds
<1>2. CASE Nothing
  BY <1>1, <1>2, QuietInv DEF Nothing
<1>3. CASE Panic
  BY <1>1, <1>3, QuietInv DEF Panic
<1>4. QED
  BY <1>2, <1>3

LEMMA RequestStep ==
  ASSUME IInv, halted = "no", arp_rcv_request
  PROVE  IInv'
<1>1. CASE ~HasBlocks(3)
  BY <1>1, StillStep DEF arp_rcv_request
<1>2. CASE HasBlocks(3)
  <2>1. blocks' = blocks
    BY <1>2, Kinds DEF arp_rcv_request, arp_send, ArpSendLeaves
  <2>2. /\ Quiet /\ UNCHANGED <<cache, boot, request, halted, told, ipSent>>
    BY <1>2 DEF arp_rcv_request
  <2>3. request' \subseteq Hosts
    BY <2>2, Kinds DEF OtherKinds
  <2>4. QED
    BY <2>1, <2>2, <2>3, QuietInv
<1>3. QED
  BY <1>1, <1>2

\* The answer goes where the entry of its destination points.
LEMMA AnswerStep ==
  ASSUME IInv, halted = "no", NEW ip \in Hosts, NEW packet, ip_send(ip, packet)
  PROVE  IInv'
<1>1. /\ OtherKinds /\ CacheFacts /\ NBlocks \in Nat /\ blocks \in Nat /\ OtherBlocks \in Nat
  BY Kinds
<1>2. hash_code(ip) \in Buckets /\ list[hash_code(ip)] \in Seq(Entries)
  BY <1>1, HostFacts DEF CacheFacts
<1>3. CASE Position(ip) = {} /\ list[hash_code(ip)] # <<>>
  <2> DEFINE other == list[hash_code(ip)][1].ip
  <2>1. 1 \in 1..Len(list[hash_code(ip)])
    BY <1>2, <1>3
  <2>2. TruthAt(hash_code(ip), 1) /\ list[hash_code(ip)][1] \in Entries
    BY <2>1, <1>1, <1>2 DEF CacheFacts
  <2>3. hash_code(other) = hash_code(ip) /\ other \in Hosts
    BY <2>2 DEF TruthAt, Entries
  <2>4. other \in Known
    BY <2>1, <2>3, <1>1, Known1
  <2>5. other # ip
    BY <2>1, <1>1, <1>3, Known1
  <2>6. Wild
    BY <1>3 DEF ip_send
  <2>7. request' \subseteq Hosts
    BY <2>6, <1>1 DEF Wild, OtherKinds
  <2>8. \E a \in Hosts, o \in Known : a # o /\ hash_code(a) = hash_code(o)
    BY <2>3, <2>4, <2>5
  <2>9. QED
    BY <2>6, <2>7, <2>8, QuietInv DEF Wild
<1>4. CASE Position(ip) = {} /\ list[hash_code(ip)] = <<>>
  BY <1>4, StillStep DEF ip_send
<1>5. CASE Position(ip) # {} /\ ~HasBlocks(2)
  BY <1>5, StillStep DEF ip_send
<1>6. CASE Position(ip) # {} /\ HasBlocks(2)
  <2>1. /\ out' = [dest |-> ip, front |-> Found(ip), back |-> Found(ip),
                   answers |-> {[damaged |-> packet.damaged, odd |-> packet.odd]}]
        /\ blocks' = blocks + 1 /\ ipSent' = ipSent + 1
        /\ UNCHANGED <<cache, boot, request, halted, told>>
    BY <1>6 DEF ip_send
  <2>2. Known' = Known /\ list' = list /\ told' = told
    BY <2>1, CacheFrame
  <2>3. phase' = phase /\ pc' = pc /\ e' = e /\ half' = half /\ Asked' = Asked /\ halted' = halted
    BY <2>1 DEF boot, Asked
  <2>4. Searching' /\ Fragments'
    <3>1. Chain' = Chain
      BY <2>2, <2>3 DEF Chain
    <3>2. QED
      BY <2>1, <2>2, <3>1, BootKept
  <2>5. OtherKinds'
    <3>1. blocks' \in 0..NBlocks /\ ipSent' \in Nat
      BY <2>1, <1>1, <1>6 DEF HasBlocks, OtherKinds
    <3>2. QED
      BY <3>1, <2>1, <2>3, <1>1 DEF OtherKinds
  <2>6. Alone(ip) => Found(ip) \in ToSet(told[ip])
    <3> DEFINE i == CHOOSE x \in Position(ip) : TRUE
    <3>1. i \in Position(ip)
      BY <1>6
    <3>2. Found(ip) = list[hash_code(ip)][i].mac
      BY DEF Found
    <3> HIDE DEF i
    <3>3. i \in 1..Len(list[hash_code(ip)]) /\ list[hash_code(ip)][i].ip = ip
      BY <3>1, <1>1, Known1
    <3>4. TruthAt(hash_code(ip), i) /\ told[ip] \in Seq(Macs)
      BY <3>3, <1>1, <1>2 DEF CacheFacts
    <3>5. told[ip] # <<>>
      <4>1. ip \in Known
        BY <3>3, <1>1, Known1
      <4>2. QED
        BY <4>1, <1>1 DEF CacheFacts
    <3>6. Alone(ip) => Found(ip) = Last(told[ip])
      BY <3>2, <3>3, <3>4 DEF TruthAt
    <3>7. Last(told[ip]) \in ToSet(told[ip])
      BY <3>4, <3>5, LastIn
    <3>8. QED
      BY <3>6, <3>7
  <2>7. SentWhereTold'
    <3>1. out'.dest = ip /\ {out'.front, out'.back} = {Found(ip)} /\ halted' = "no"
      BY <2>1, <2>3
    <3>2. Alone(ip) <=> AloneNext(ip)
      BY <2>2 DEF Alone, AloneNext
    <3>3. AloneNext(ip) => {out'.front, out'.back} \subseteq ToSet(told'[ip])
      BY <3>1, <3>2, <2>2, <2>6
    <3>4. QED
      BY <3>1, <3>3 DEF SentWhereTold, Alone, AloneNext
  <2>8. OtherBlocks' = OtherBlocks + 1
    <3>1. OtherBlocks' = 2 + (ipSent + 1) + (IF phase = "send" THEN 1 ELSE 0) + InProgress
      BY <2>1, <2>3 DEF OtherBlocks, InProgress
    <3>2. ipSent \in Nat /\ InProgress \in Nat
      BY <1>1 DEF OtherKinds, InProgress
    <3>3. QED
      BY <3>1, <3>2 DEF OtherBlocks
  <2>9. QED
    BY <2>1, <2>4, <2>5, <2>7, <2>8, <1>1, CacheKept
<1>7. QED
  BY <1>3, <1>4, <1>5, <1>6

LEMMA PacketStep ==
  ASSUME IInv, halted = "no", NEW p \in Packets, ip_rcv(p)
  PROVE  IInv'
<1>1. p.source \in Hosts
  BY DEF Packets
<1>2. Nothing \/ Panic \/ ip_send(p.source, p)
  BY DEF ip_rcv, icmp_rcv, udp_rcv
<1>3. QED
  BY <1>1, <1>2, StillStep, AnswerStep

LEMMA CallbackStep ==
  ASSUME IInv, halted = "no", reveice_callback
  PROVE  IInv'
  BY ReplyStep, RequestStep, PacketStep DEF reveice_callback

LEMMA LoseStep ==
  ASSUME IInv, halted = "no", Lose
  PROVE  IInv'
<1>1. Quiet /\ UNCHANGED <<cache, blocks, boot, halted, told, ipSent>> /\ request' \subseteq Hosts
  BY Kinds DEF Lose, OtherKinds
<1>2. QED
  BY <1>1, QuietInv

-----------------------------------------------------------------------------
(* The boot thread                                                          *)

\* A step of the boot thread that sends nothing and takes no memory.
LEMMA MoveStep ==
  ASSUME IInv, halted = "no", Quiet, UNCHANGED <<cache, blocks, phase, datagram, halted, told, ipSent>>,
         request' \subseteq Hosts, half' \in Macs \cup {0}, e' \in Hosts \cup {HEAD},
         pc \notin {"send", "idle"},
         pc' \in {"zero", "same", "last", "ask", "found", "packet", "free"},
         e' # HEAD => e' \in Known /\ hash_code(e') = hash_code(Asked),
         pc' \in {"same", "packet"} => Chain # <<>>,
         pc' \in {"packet", "free"} => phase = "send",
         pc' \in {"ask", "found"} => phase # "send"
  PROVE  IInv'
<1>1. Known' = Known /\ list' = list /\ told' = told /\ OtherKinds /\ blocks \in Nat /\ OtherBlocks \in Nat
  BY CacheFrame, Kinds
<1>2. phase' = phase /\ datagram' = datagram /\ Asked' = Asked /\ Chain' = Chain
  BY <1>1 DEF Asked, Chain
<1>3. pc' \notin {"send", "idle"}
  OBVIOUS
<1>4. OtherKinds'
  BY <1>1, <1>2 DEF OtherKinds
<1>5. Searching'
  BY <1>1, <1>2, <1>3 DEF Searching
<1>6. Fragments'
  BY <1>2, <1>3 DEF IInv, Fragments, Fragmented, FragmentsLose
<1>7. SentWhereTold'
  BY DEF SentWhereTold, Quiet, NoPacket
<1>8. OtherBlocks' = OtherBlocks
  BY <1>2, <1>3 DEF OtherBlocks, InProgress
<1>9. QED
  BY <1>1, <1>4, <1>5, <1>6, <1>7, <1>8, CacheKept

\* What the search's place is made of.
LEMMA PlaceFacts ==
  ASSUME IInv
  PROVE  /\ e \in Hosts \cup {HEAD} /\ half \in Macs \cup {0} /\ request \subseteq Hosts
         /\ phase \in {"first", "second", "send"}
         /\ e # HEAD => e \in Known /\ hash_code(e) = hash_code(Asked)
         /\ Known \subseteq Hosts /\ Asked \in Hosts
  BY Kinds, HostFacts DEF IInv, Searching, OtherKinds, CacheFacts

LEMMA TestZeroStep == ASSUME IInv, halted = "no", TestZero PROVE IInv'
<1>1. /\ pc = "zero" /\ pc' = IF Entry(e).ip = 0 THEN "last" ELSE "same"
      /\ UNCHANGED <<phase, e, half, datagram>>
      /\ Quiet /\ UNCHANGED <<cache, blocks, request, halted, told, ipSent>>
  BY DEF TestZero, Goto, Elsewhere
<1>2. pc' = "same" => Chain # <<>>
  BY <1>1, EntryFacts
<1>3. QED
  BY <1>1, <1>2, PlaceFacts, MoveStep

LEMMA TestSameStep == ASSUME IInv, halted = "no", TestSame PROVE IInv'
<1>1. pc = "same" /\ Chain # <<>>
  BY DEF TestSame, IInv, Searching
<1>2. CASE Entry(e).ip = Asked /\ Goto("last") /\ Elsewhere
  BY <1>1, <1>2, PlaceFacts, MoveStep DEF Goto, Elsewhere
<1>3. CASE /\ Entry(e).ip # Asked /\ At(e) < Len(Chain)
           /\ e' = Chain[At(e) + 1].ip
           /\ pc' = "zero" /\ UNCHANGED <<phase, half, datagram>> /\ Elsewhere
  <2>1. At(e) + 1 \in 1..Len(Chain)
    BY <1>1, <1>3, EntryFacts
  <2>2. e' \in Known /\ hash_code(e') = hash_code(Asked)
    BY <2>1, <1>3, EntryFacts
  <2>3. e' \in Hosts
    BY <2>2, PlaceFacts
  <2>4. QED
    BY <1>1, <1>3, <2>2, <2>3, PlaceFacts, MoveStep DEF Elsewhere
<1>4. CASE Entry(e).ip # Asked /\ At(e) = Len(Chain) /\ Wild
  <2>1. Entry(e).ip \in Known /\ hash_code(Entry(e).ip) = hash_code(Asked) /\ Asked \in Hosts
    BY <1>1, EntryFacts, HostFacts
  <2>2. \E ip \in Hosts, other \in Known : ip # other /\ hash_code(ip) = hash_code(other)
    BY <2>1, <1>4
  <2>3. request' \subseteq Hosts
    BY <1>4, PlaceFacts DEF Wild
  <2>4. QED
    BY <1>4, <2>2, <2>3, QuietInv DEF Wild
<1>5. QED
  BY <1>2, <1>3, <1>4 DEF TestSame

LEMMA TestLastStep == ASSUME IInv, halted = "no", TestLast PROVE IInv'
<1>1. /\ pc = "last" /\ pc' = IF Entry(e).ip = 0 THEN Missing ELSE FoundNext
      /\ UNCHANGED <<phase, e, half, datagram>>
      /\ Quiet /\ UNCHANGED <<cache, blocks, request, halted, told, ipSent>>
  BY DEF TestLast, Goto, Elsewhere
<1>2. CASE Entry(e).ip = 0
  BY <1>1, <1>2, PlaceFacts, MoveStep DEF Missing
<1>3. CASE Entry(e).ip # 0
  <2>1. Chain # <<>>
    BY <1>3, EntryFacts
  <2>2. pc' = IF phase = "send" THEN "packet" ELSE "found"
    BY <1>1, <1>3, PlaceFacts DEF FoundNext
  <2>3. QED
    BY <1>1, <2>1, <2>2, PlaceFacts, MoveStep
<1>4. QED
  BY <1>2, <1>3

LEMMA AskStep == ASSUME IInv, halted = "no", Ask PROVE IInv'
<1>1. CASE ~HasBlocks(3)
  BY <1>1, StillStep DEF Ask
<1>2. CASE HasBlocks(3)
  <2>1. /\ pc = "ask" /\ arp_send /\ request' = request \cup {Asked} /\ pc' = "zero" /\ e' = HEAD
        /\ Quiet /\ UNCHANGED <<cache, phase, half, datagram, halted, told, ipSent>>
    BY <1>2 DEF Ask
  <2>2. blocks' = blocks
    BY <2>1, Kinds DEF arp_send, ArpSendLeaves
  <2>3. QED
    BY <2>1, <2>2, PlaceFacts, MoveStep
<1>3. QED
  BY <1>1, <1>2

LEMMA NoMemoryStep == ASSUME IInv, halted = "no", NoMemory PROVE IInv'
  BY StillStep DEF NoMemory

\* Data sizes are numbers.
LEMMA SizesNat == DataSizes \subseteq Nat
  BY NetAssumption

LEMMA NextAddressStep == ASSUME IInv, halted = "no", NextAddress PROVE IInv'
<1>1. /\ pc = "found" /\ pc' = "zero" /\ e' = HEAD /\ half' = half
      /\ Quiet /\ UNCHANGED <<cache, request, halted, told, ipSent>>
  BY DEF NextAddress, Elsewhere
<1>2. /\ Known' = Known /\ list' = list /\ told' = told
      /\ OtherKinds /\ blocks \in Nat /\ OtherBlocks \in Nat /\ ipSent \in Nat
  BY <1>1, CacheFrame, Kinds DEF OtherKinds
<1>3. SentWhereTold'
  BY <1>1 DEF SentWhereTold, Quiet, NoPacket
<1>4. Searching'
  BY <1>1 DEF Searching
<1>5. CASE phase = "first" /\ phase' = "second" /\ UNCHANGED <<datagram, blocks>>
  <2>1. Fragments'
    BY <1>1, <1>5 DEF IInv, Fragments, Fragmented, FragmentsLose
  <2>2. OtherKinds'
    BY <1>1, <1>2, <1>5 DEF OtherKinds
  <2>3. OtherBlocks' = OtherBlocks
    BY <1>1, <1>5 DEF OtherBlocks, InProgress
  <2>4. QED
    BY <1>1, <1>2, <1>3, <1>4, <1>5, <2>1, <2>2, <2>3, CacheKept
<1>6. CASE /\ phase = "second" /\ HasBlocks(2) /\ phase' = "send" /\ blocks' = blocks + 2
           /\ \E n \in DataSizes :
                datagram' = [total |-> n + 8, left |-> n + 8, data_p |-> 0, frag_off |-> 0]
  <2>1. PICK n \in DataSizes :
          datagram' = [total |-> n + 8, left |-> n + 8, data_p |-> 0, frag_off |-> 0]
    BY <1>6
  <2>2. n \in Nat
    BY <2>1, SizesNat
  <2>3. Fragments'
    <3> DEFINE t == n + 8
    <3>1. t \in Nat /\ t + mtu * 0 = t /\ t - t = 0 /\ (0 + mtu - 1) \div mtu = 0
      BY <2>2 DEF mtu, iphdr
    <3>2. datagram' = [total |-> t, left |-> t, data_p |-> 0, frag_off |-> 0]
      BY <2>1
    <3> HIDE DEF t
    <3>3. datagram' \in [total : Nat, left : Nat, data_p : Nat, frag_off : Nat]
      BY <3>1, <3>2
    <3>4. /\ datagram'.total = t /\ datagram'.left = t
          /\ datagram'.data_p = 0 /\ datagram'.frag_off = 0
      BY <3>2
    <3>5. FragmentsLose'
      BY <3>1, <3>4 DEF FragmentsLose, iphdr, mtu
    <3>6. t <= t /\ \E k \in Nat : t + mtu * k = t
      BY <3>1
    <3>7. QED
      BY <3>3, <3>4, <3>5, <3>6, <1>1 DEF Fragments
  <2>4. OtherKinds'
    <3>1. blocks' \in 0..NBlocks
      BY <1>2, <1>6, BlocksNat DEF HasBlocks
    <3>2. QED
      BY <3>1, <1>1, <1>2, <1>6 DEF OtherKinds
  <2>5. OtherBlocks = 2 + ipSent /\ OtherBlocks' = 2 + ipSent + 2
    BY <1>1, <1>2, <1>6 DEF OtherBlocks, InProgress
  <2>6. QED
    BY <1>1, <1>2, <1>3, <1>4, <1>6, <2>3, <2>4, <2>5, CacheKept
<1>7. QED
  BY <1>5, <1>6 DEF NextAddress, Elsewhere

LEMMA HeaderStep == ASSUME IInv, halted = "no", Header PROVE IInv'
<1>1. pc = "packet" /\ Chain # <<>> /\ phase = "send"
  BY DEF Header, IInv, Searching
<1>2. CASE ~HasBlocks(1)
  BY <1>2, StillStep DEF Header
<1>3. CASE HasBlocks(1) /\ Fragmented /\ current_size < iphdr
  <2>1. Wild
    BY <1>3 DEF Header
  <2>2. request' \subseteq Hosts
    BY <2>1, PlaceFacts DEF Wild
  <2>3. QED
    BY <1>1, <2>1, <2>2, QuietInv DEF Wild
<1>4. CASE HasBlocks(1) /\ ~(Fragmented /\ current_size < iphdr)
  <2>1. /\ blocks' = blocks + 1 /\ half' = Entry(e).mac /\ pc' = "send"
        /\ UNCHANGED <<phase, e, datagram>>
        /\ Quiet /\ UNCHANGED <<cache, request, halted, told, ipSent>>
    BY <1>4 DEF Header
  <2>2. /\ Known' = Known /\ list' = list /\ told' = told
        /\ OtherKinds /\ blocks \in Nat /\ OtherBlocks \in Nat /\ ipSent \in Nat
    BY <2>1, CacheFrame, Kinds DEF OtherKinds
  <2>3. Asked' = Asked /\ Chain' = Chain /\ (Alone(Asked)' => Alone(Asked))
    BY <2>1, <2>2 DEF Asked, Chain, Alone
  <2>4. half' \in Macs /\ (Alone(Asked) => half' \in ToSet(told[Asked]))
    BY <1>1, <2>1, EntryFacts DEF Entries
  <2>5. Searching'
    <3>1. e' # HEAD => e' \in Known' /\ hash_code(e') = hash_code(Asked)'
      BY <2>1, <2>2, <2>3, PlaceFacts
    <3>2. QED
      BY <1>1, <2>1, <2>2, <2>3, <2>4, <3>1 DEF Searching
  <2>6. Fragments'
    <3>1. current_size \in Int
      BY DEF current_size, mtu, iphdr, IInv, Fragments
    <3>2. Fragmented => current_size >= iphdr
      BY <3>1, <1>4 DEF iphdr
    <3>3. Fragmented' = Fragmented /\ current_size' = current_size /\ datagram' = datagram
      BY <2>1 DEF Fragmented, current_size
    <3>4. QED
      BY <3>2, <3>3 DEF IInv, Fragments, FragmentsLose
  <2>7. OtherKinds'
    <3>1. blocks' \in 0..NBlocks
      BY <1>4, <2>1, <2>2, BlocksNat DEF HasBlocks
    <3>2. QED
      BY <3>1, <2>1, <2>2, <2>4 DEF OtherKinds
  <2>8. SentWhereTold'
    BY <2>1 DEF SentWhereTold, Quiet, NoPacket
  <2>9. OtherBlocks = 2 + ipSent + 2 /\ OtherBlocks' = 2 + ipSent + 3
    BY <1>1, <2>1, <2>2 DEF OtherBlocks, InProgress
  <2>10. QED
    BY <2>1, <2>2, <2>5, <2>6, <2>7, <2>8, <2>9, CacheKept
<1>5. QED
  BY <1>2, <1>3, <1>4

LEMMA FreeStep == ASSUME IInv, halted = "no", Free PROVE IInv'
<1>1. /\ pc = "free" /\ phase = "send" /\ blocks' = blocks - 1 /\ pc' = "idle"
      /\ UNCHANGED <<phase, e, half, datagram>>
      /\ Quiet /\ UNCHANGED <<cache, request, halted, told, ipSent>>
  BY DEF Free, Goto, IInv, Searching
<1>2. /\ Known' = Known /\ list' = list /\ told' = told
      /\ OtherKinds /\ blocks \in Nat /\ OtherBlocks \in Nat /\ ipSent \in Nat
      /\ blocks = Cardinality(Behind) + OtherBlocks /\ Cardinality(Behind) \in Nat
  BY <1>1, CacheFrame, Kinds DEF OtherKinds
<1>3. Asked' = Asked
  BY <1>1 DEF Asked
<1>4. Searching'
  <2>1. e' # HEAD => e' \in Known' /\ hash_code(e') = hash_code(Asked)'
    BY <1>1, <1>2, <1>3, PlaceFacts
  <2>2. QED
    BY <1>1, <2>1 DEF Searching
<1>5. Fragments'
  BY <1>1 DEF IInv, Fragments, Fragmented, FragmentsLose
<1>6. SentWhereTold'
  BY <1>1 DEF SentWhereTold, Quiet, NoPacket
<1>7. OtherBlocks = 2 + ipSent + 2 /\ OtherBlocks' = 2 + ipSent + 1
  BY <1>1, <1>2 DEF OtherBlocks, InProgress
<1>8. OtherKinds'
  <2>1. blocks' \in 0..NBlocks
    BY <1>1, <1>2, <1>7, BlocksNat DEF OtherKinds
  <2>2. QED
    BY <2>1, <1>1, <1>2 DEF OtherKinds
<1>9. QED
  BY <1>1, <1>2, <1>4, <1>5, <1>6, <1>7, <1>8, CacheKept

\* A packet, whole or a fragment, and what is left of the datagram.
LEMMA Advancing ==
  ASSUME Fragments, pc = "send", Fragmented => current_size >= iphdr,
         datagram' = Advanced(datagram, current_size), pc' # "send"
  PROVE  Fragments'
<1> DEFINE d == datagram
           c == current_size
           d2 == datagram'
<1>1. /\ d \in [total : Nat, left : Nat, data_p : Nat, frag_off : Nat]
      /\ d.total \in Nat /\ d.left \in Nat /\ d.data_p \in Nat /\ d.frag_off \in Nat
      /\ d.left <= d.total
  BY DEF Fragments
<1>2. c = IF d.left > 1480 THEN 1480 ELSE d.left
  BY DEF current_size, mtu, iphdr
<1>3. Fragmented <=> d.total > 1480
  BY DEF Fragmented, mtu, iphdr
<1>4. /\ d2.total = d.total /\ d2.left = d.left - c
      /\ d2.data_p = d.data_p + (IF Fragmented THEN c - 20 ELSE c)
      /\ d2.frag_off = d.frag_off + (IF Fragmented THEN c \div 8 ELSE 0)
  BY <1>1 DEF Advanced, iphdr
<1>4a. d2 = [total |-> d2.total, left |-> d2.left, data_p |-> d2.data_p, frag_off |-> d2.frag_off]
  BY <1>1 DEF Advanced
<1>5. Fragmented' <=> Fragmented
  BY <1>4 DEF Fragmented
<1>6. d.total > 0 => (IF ~Fragmented THEN d.data_p = d.total - d.left
                      ELSE /\ d.data_p = (d.total - d.left) - 20 * (((d.total - d.left) + 1480 - 1) \div 1480)
                           /\ d.left > 0 => d.frag_off * 8 = d.total - d.left)
  BY DEF Fragments, FragmentsLose, mtu, iphdr
<1>7. Fragmented => c >= 20
  BY DEF iphdr
<1>0. ASSUME d2 \in [total : Nat, left : Nat, data_p : Nat, frag_off : Nat], d2.left <= d2.total,
             Fragmented /\ d2.left > 0 => \E k \in Nat : d2.left + 1480 * k = d2.total,
             d2.total > 0 =>
               (IF ~Fragmented THEN d2.data_p = d2.total - d2.left
                ELSE /\ d2.data_p = (d2.total - d2.left) - 20 * (((d2.total - d2.left) + 1480 - 1) \div 1480)
                     /\ d2.left > 0 => d2.frag_off * 8 = d2.total - d2.left)
      PROVE  Fragments'
  BY <1>0, <1>5 DEF Fragments, FragmentsLose, mtu, iphdr
<1> HIDE DEF d, c, d2
<1>8. CASE ~Fragmented
  <2>1. c = d.left
    BY <1>1, <1>2, <1>3, <1>8
  <2>2. /\ d2.total = d.total /\ d2.left = 0 /\ d2.data_p = d.data_p + d.left
        /\ d2.frag_off = d.frag_off
    BY <2>1, <1>1, <1>4, <1>8
  <2>3. d2 \in [total : Nat, left : Nat, data_p : Nat, frag_off : Nat]
    <3>1. d2.total \in Nat /\ d2.left \in Nat /\ d2.data_p \in Nat /\ d2.frag_off \in Nat
      BY <2>2, <1>1
    <3>2. QED
      BY <3>1, <1>4a
  <2>4. d2.total > 0 => d2.data_p = d2.total - d2.left
    BY <2>2, <1>1, <1>6, <1>8
  <2>5. QED
    BY <2>2, <2>3, <2>4, <1>0, <1>1, <1>8
<1>9. CASE Fragmented
  <2>1. d.left > 0
    BY <1>1, <1>2, <1>7, <1>9
  <2>2. PICK k \in Nat : d.left + 1480 * k = d.total
    BY <2>1, <1>9 DEF Fragments, d, mtu, iphdr
  <2> DEFINE T == d.total
             l == d.left
             p == d.data_p
             f == d.frag_off
  <2>3. T \in Nat /\ l \in Nat /\ p \in Nat /\ f \in Nat /\ l > 0 /\ T - l = 1480 * k /\ l + 1480 * k = T
    BY <2>1, <2>2, <1>1
  <2>4. p = (T - l) - 20 * (((T - l) + 1480 - 1) \div 1480) /\ f * 8 = T - l
    BY <2>1, <2>3, <1>3, <1>6, <1>9
  <2>5. d2.total = T /\ d2.left = l - c /\ d2.data_p = p + (c - 20) /\ d2.frag_off = f + c \div 8
    BY <1>4, <1>9
  <2>6. c = (IF l > 1480 THEN 1480 ELSE l) /\ c >= 20
    BY <1>2, <1>7, <1>9
  <2> HIDE DEF T, l, p, f
  <2>7. (1480 * k + 1480 - 1) \div 1480 = k
    BY <2>2
  <2>8. p = 1480 * k - 20 * k /\ f * 8 = 1480 * k
    BY <2>3, <2>4, <2>7
  <2>9. CASE l > 1480
    <3>1. c = 1480 /\ c \div 8 = 185
      BY <2>6, <2>9
    <3>2. d2.left = l - 1480 /\ d2.data_p = p + 1460 /\ d2.frag_off = f + 185 /\ d2.total = T
      BY <2>5, <3>1
    <3>4. l - 1480 \in Nat /\ p + 1460 \in Nat /\ f + 185 \in Nat
      BY <2>3, <2>9
    <3>5. d2 \in [total : Nat, left : Nat, data_p : Nat, frag_off : Nat]
      <4>1. d2.total \in Nat /\ d2.left \in Nat /\ d2.data_p \in Nat /\ d2.frag_off \in Nat
        BY <3>2, <3>4, <2>3
      <4>2. QED
        BY <4>1, <1>4a
    <3>6. (l - 1480) + 1480 * (k + 1) = T /\ T - (l - 1480) = 1480 * (k + 1) /\ k + 1 \in Nat
      BY <2>2, <2>3
    <3>7. (1480 * (k + 1) + 1480 - 1) \div 1480 = k + 1
      BY <2>2
    <3>8. p + 1460 = 1480 * (k + 1) - 20 * (k + 1) /\ (f + 185) * 8 = 1480 * (k + 1)
      BY <2>2, <2>3, <2>8
    <3>9. l - 1480 <= T
      BY <3>6, <3>4, <2>3
    <3>10. d2.total - d2.left = 1480 * (k + 1)
      BY <3>2, <3>6
    <3>11. /\ d2.data_p = (d2.total - d2.left) - 20 * (((d2.total - d2.left) + 1480 - 1) \div 1480)
           /\ d2.frag_off * 8 = d2.total - d2.left
      BY <3>2, <3>7, <3>8, <3>10
    <3>12. d2.left <= d2.total /\ \E x \in Nat : d2.left + 1480 * x = d2.total
      <4> DEFINE m == k + 1
      <4>1. m \in Nat /\ d2.left + 1480 * m = d2.total
        BY <3>2, <3>6
      <4> HIDE DEF m
      <4>3. \E x \in Nat : d2.left + 1480 * x = d2.total
        BY <4>1
      <4>4. d2.left <= d2.total
        BY <3>2, <3>9
      <4>5. QED
        BY <4>3, <4>4
    <3>13. QED
      BY <3>5, <3>11, <3>12, <1>0, <1>9
  <2>10. CASE ~(l > 1480)
    <3>1. c = l /\ l \in 20..1480
      BY <2>3, <2>6, <2>10
    <3>2. d2.left = 0 /\ d2.data_p = p + (l - 20) /\ d2.total = T /\ d2.frag_off = f + l \div 8
      BY <2>3, <2>5, <3>1
    <3>4. l \div 8 \in Nat /\ p + (l - 20) \in Nat /\ f + l \div 8 \in Nat
      BY <2>3, <3>1
    <3>5. d2 \in [total : Nat, left : Nat, data_p : Nat, frag_off : Nat]
      <4>1. d2.total \in Nat /\ d2.left \in Nat /\ d2.data_p \in Nat /\ d2.frag_off \in Nat
        BY <3>2, <3>4, <2>3
      <4>2. QED
        BY <4>1, <1>4a
    <3>6. T - 0 = 1480 * k + l
      BY <2>2, <2>3
    <3>7. (1480 * k + l + 1480 - 1) \div 1480 = k + 1
      BY <2>2, <3>1
    <3>8. p + (l - 20) = (1480 * k + l) - 20 * (k + 1)
      BY <2>2, <2>3, <2>8
    <3>9. d2.total - d2.left = 1480 * k + l
      BY <3>2, <3>6
    <3>10. d2.data_p = (d2.total - d2.left) - 20 * (((d2.total - d2.left) + 1480 - 1) \div 1480)
      BY <3>2, <3>7, <3>8, <3>9
    <3>11. d2.left <= d2.total /\ ~(d2.left > 0)
      BY <3>2, <2>3
    <3>12. QED
      BY <3>5, <3>10, <3>11, <1>0, <1>9
  <2>11. QED
    BY <2>9, <2>10
<1>10. QED
  BY <1>8, <1>9

LEMMA SendStep == ASSUME IInv, halted = "no", Send PROVE IInv'
<1>1. /\ pc = "send" /\ Chain # <<>> /\ phase = "send" /\ pc' \in {"packet", "free"}
      /\ Fragments /\ (Fragmented => current_size >= iphdr)
      /\ Alone(Asked) => half \in ToSet(told[Asked])
  BY DEF Send, IInv, Searching, Fragments
<1>2. /\ out' = [dest |-> Asked, front |-> half, back |-> Entry(e).mac, answers |-> {}]
      /\ ipSent' = ipSent + 1 /\ half' = 0
      /\ UNCHANGED <<cache, blocks, phase, e, request, halted, told>>
      /\ datagram' = Advanced(datagram, current_size) \/ datagram' = datagram
  BY DEF Send
<1>3. /\ Known' = Known /\ list' = list /\ told' = told
      /\ OtherKinds /\ blocks \in Nat /\ OtherBlocks \in Nat /\ ipSent \in Nat
  BY <1>2, CacheFrame, Kinds DEF OtherKinds
<1>4. Asked' = Asked /\ Chain' = Chain
  BY <1>2, <1>3 DEF Asked, Chain
<1>5. Searching'
  <2>1. e' # HEAD => e' \in Known' /\ hash_code(e') = hash_code(Asked)'
    BY <1>2, <1>3, <1>4, PlaceFacts
  <2>2. QED
    BY <2>1, <1>1, <1>2, <1>4 DEF Searching
<1>6. Fragments'
  <2>1. CASE datagram' = Advanced(datagram, current_size)
    BY <2>1, <1>1, Advancing
  <2>2. CASE datagram' = datagram
    BY <2>2, <1>1 DEF Fragments, Fragmented, FragmentsLose
  <2>3. QED
    BY <2>1, <2>2, <1>2
<1>7. OtherKinds'
  BY <1>1, <1>2, <1>3 DEF OtherKinds
<1>8. SentWhereTold'
  <2>1. Alone(Asked) => {half, Entry(e).mac} \subseteq ToSet(told[Asked])
    BY <1>1, EntryFacts
  <2>2. out'.dest = Asked /\ out'.front = half /\ out'.back = Entry(e).mac
    BY <1>2
  <2>3. AloneNext(Asked) => Alone(Asked)
    BY <1>3 DEF Alone, AloneNext
  <2>4. AloneNext(out'.dest) => {out'.front, out'.back} \subseteq ToSet(told'[out'.dest])
    BY <2>1, <2>2, <2>3, <1>3
  <2>5. QED
    BY <2>4, <1>2 DEF SentWhereTold, Alone, AloneNext
<1>9. OtherBlocks = 2 + ipSent + 3 /\ OtherBlocks' = 2 + (ipSent + 1) + 2
  BY <1>1, <1>2, <1>3 DEF OtherBlocks, InProgress
<1>10. QED
  BY <1>2, <1>3, <1>5, <1>6, <1>7, <1>8, <1>9, CacheKept

-----------------------------------------------------------------------------
(* The inductive invariant holds                                            *)

LEMMA InitInv == Init => IInv
<1> SUFFICES ASSUME Init PROVE IInv
  OBVIOUS
<1>1. /\ list = [b \in Buckets |-> <<>>] /\ size = 0 /\ blocks = 2
      /\ phase = "first" /\ pc = "zero" /\ e = HEAD /\ half = 0 /\ datagram = NoDatagram
      /\ request = {} /\ out = NoPacket /\ halted = "no"
      /\ told = [h \in Hosts |-> <<>>] /\ ipSent = 0
  BY DEF Init, Buckets
<1>2. list \in [Buckets -> Seq(Entries)] /\ told \in [Hosts -> Seq(Macs)]
  BY <1>1
<1>3. Known = {}
  <2>1. \A b \in DOMAIN list : list[b] = <<>>
    BY <1>1
  <2>2. \A b \in DOMAIN list : ToSet(list[b]) = {}
    BY <2>1 DEF ToSet
  <2>3. QED
    BY <2>2 DEF Known
<1>4. IsFiniteSet(Known) /\ Cardinality(Known) = 0
  BY <1>3, FS_EmptySet
<1>5. Known = {ip \in Hosts : told[ip] # <<>>}
  BY <1>1, <1>3
<1>6. \A b \in Buckets : \A i \in 1..Len(list[b]) : TruthAt(b, i)
  <2>1. \A b \in Buckets : Len(list[b]) = 0
    BY <1>1
  <2>2. QED
    BY <2>1
<1>7. CacheFacts
  BY <1>1, <1>2, <1>4, <1>5, <1>6 DEF CacheFacts
<1>8. 2 \in 0..NBlocks
  BY NetAssumption
<1>9. datagram = [total |-> 0, left |-> 0, data_p |-> 0, frag_off |-> 0]
  BY <1>1 DEF NoDatagram
<1>10. datagram \in [total : Nat, left : Nat, data_p : Nat, frag_off : Nat]
  BY <1>9
<1>11. TypeOK
  <2>1. \A f \in DOMAIN datagram : datagram[f] \in Nat
    BY <1>10
  <2>2. QED
    BY <1>1, <1>2, <1>8, <2>1 DEF TypeOK, Buckets, Entries
<1>12. CacheTruth
  BY <1>7, <1>11, TypedTruth
<1>13. MemoryAccounted
  <2>1. Cardinality({ip \in Known : list[hash_code(ip)][1].ip # ip}) = 0
    <3>1. {ip \in Known : list[hash_code(ip)][1].ip # ip} = {}
      BY <1>3
    <3>2. QED
      BY <3>1, FS_EmptySet
  <2>2. InProgress = 0
    BY <1>1 DEF InProgress
  <2>3. QED
    BY <1>1, <2>1, <2>2 DEF MemoryAccounted
<1>14. SentWhereTold
  BY <1>1 DEF SentWhereTold
<1>15. Searching
  BY <1>1 DEF Searching
<1>16. Fragments
  BY <1>1, <1>9, <1>10 DEF Fragments, FragmentsLose, Fragmented, mtu, iphdr
<1>17. QED
  BY <1>4, <1>12, <1>13, <1>14, <1>15, <1>16 DEF IInv

LEMMA BootStep ==
  ASSUME IInv, halted = "no", Boot
  PROVE  IInv'
  BY TestZeroStep, TestSameStep, TestLastStep, AskStep, NextAddressStep, NoMemoryStep,
     HeaderStep, SendStep, FreeStep
     DEF Boot

LEMMA NextInv == IInv /\ [Next]_vars => IInv'
<1> SUFFICES ASSUME IInv, [Next]_vars PROVE IInv'
  OBVIOUS
<1>1. CASE Next
  BY <1>1, CallbackStep, LoseStep, BootStep DEF Next
<1>2. CASE UNCHANGED vars
  <2>1. /\ UNCHANGED <<cache, told>> /\ blocks' = blocks /\ phase' = phase /\ pc' = pc /\ e' = e
        /\ half' = half /\ datagram' = datagram /\ request' = request /\ out' = out
        /\ halted' = halted /\ ipSent' = ipSent
    BY <1>2 DEF vars, boot
  <2>2. Known' = Known /\ list' = list /\ told' = told /\ OtherKinds /\ blocks \in Nat /\ OtherBlocks \in Nat
    BY <2>1, CacheFrame, Kinds
  <2>3. Asked' = Asked /\ Chain' = Chain
    BY <2>1, <2>2 DEF Asked, Chain
  <2>4. OtherKinds'
    BY <2>1, <2>2 DEF OtherKinds
  <2>5. Searching'
    BY <2>1, <2>2, <2>3 DEF IInv, Searching, Alone
  <2>6. Fragments'
    BY <2>1 DEF IInv, Fragments, Fragmented, current_size, FragmentsLose
  <2>7. SentWhereTold'
    BY <2>1, <2>2 DEF IInv, SentWhereTold, Alone
  <2>8. OtherBlocks' = OtherBlocks
    BY <2>1 DEF OtherBlocks, InProgress
  <2>9. QED
    BY <2>1, <2>2, <2>4, <2>5, <2>6, <2>7, <2>8, CacheKept
<1>3. QED
  BY <1>1, <1>2

LEMMA Invariance == Spec => []IInv
  BY InitInv, NextInv, PTL DEF Spec

\* What the ARP cache of net/arp.c says, whatever is announced and in whatever
\* order: an address stands once, in its own bucket, and only if it was
\* announced.  Alone in its bucket it has the hardware address announced last;
\* else hash_put writes a repeated announcement into the head of the chain.
THEOREM SpecCacheTruth == Spec => []CacheTruth
  BY Invariance, PTL DEF IInv

\* Packets of ip_send go to hardware addresses their destination announced, if
\* no other known address has its bucket, although the timer handler changes
\* the entry between two reads of it; and the search of hash_get runs through
\* a null pointer only if two addresses share a bucket.
THEOREM SpecSentWhereTold == Spec => []SentWhereTold
  BY Invariance, PTL DEF IInv

\* Every block the network code has taken is accounted for: the cache's, an
\* entry's behind another, the two in progress, and those ip_send and
\* handle_net never give back.
THEOREM SpecMemoryAccounted == Spec => []MemoryAccounted
  BY Invariance, PTL DEF IInv

\* ip_send sends a datagram that fits the mtu whole.  Of a longer one, of any
\* size, each fragment stands, for the receiver, iphdr bytes further on than
\* the one before from where its data begins, and so many bytes of the end are
\* never sent.
THEOREM SpecFragmentsLose == Spec => []FragmentsLose
  BY Invariance, PTL DEF IInv, Fragments

-----------------------------------------------------------------------------
(* Numbers                                                                  *)

\* A set of numbers that is not empty has a least one.
LEMMA LeastExists ==
  ASSUME NEW S, S \subseteq Nat, S # {}
  PROVE  \E x \in S : \A y \in S : x =< y
<1> DEFINE Below == OpToRel(<, Nat)
<1>1. IsWellFoundedOn(Below, Nat)
  BY NatLessThanWellFounded
<1> HIDE DEF Below
<1>2. \E x \in S : \A y \in S : ~(<<y, x>> \in Below)
  BY <1>1, WFMin
<1>3. PICK x \in S : \A y \in S : ~(<<y, x>> \in Below)
  BY <1>2
<1>4. \A y \in S : ~(y < x)
  BY <1>3 DEF Below, OpToRel
<1>5. \A y \in S : x =< y
  BY <1>4
<1>6. QED
  BY <1>5

\* Induction over the numbers.
LEMMA SetInduction ==
  ASSUME NEW T, 0 \in T, \A n \in Nat : n \in T => n + 1 \in T
  PROVE  Nat \subseteq T
<1> DEFINE U == Nat \ T
<1> SUFFICES ASSUME U # {} PROVE FALSE
  OBVIOUS
<1> HIDE DEF U
<1>1. U \subseteq Nat
  BY DEF U
<1>2. PICK x \in U : \A y \in U : x =< y
  BY <1>1, LeastExists
<1>3. x \in Nat /\ x \notin T /\ x # 0
  BY <1>2 DEF U
<1>4. x - 1 \in Nat /\ (x - 1) + 1 = x /\ ~(x =< x - 1)
  BY <1>3
<1>5. x - 1 \in U
  BY <1>3, <1>4 DEF U
<1>6. QED
  BY <1>2, <1>4, <1>5

Recurses(f, m, a, by) == \A i \in 0..m : f[i] = IF i = 0 THEN a ELSE by[i][f[i-1]]

\* A recursive function over 0..m exists.
LEMMA Recursion ==
  ASSUME NEW S, NEW m \in Nat, NEW a \in S, NEW by \in [1..m -> [S -> S]]
  PROVE  \E f \in [0..m -> S] : Recurses(f, m, a, by)
<1> DEFINE Upto(f, k) == \A i \in 0..k : f[i] = IF i = 0 THEN a ELSE by[i][f[i-1]]
           T == {k \in Nat : k > m \/ \E f \in [0..m -> S] : Upto(f, k)}
<1>1. 0 \in T
  <2> DEFINE f == [i \in 0..m |-> a]
  <2>1. f \in [0..m -> S] /\ Upto(f, 0)
    OBVIOUS
  <2>2. QED
    BY <2>1
<1>2. ASSUME NEW k \in Nat, k \in T PROVE k + 1 \in T
  <2>1. CASE k + 1 > m
    BY <2>1
  <2>2. CASE k + 1 <= m
    <3>1. PICK f \in [0..m -> S] : Upto(f, k)
      BY <1>2, <2>2
    <3> DEFINE g == [f EXCEPT ![k+1] = by[k+1][f[k]]]
    <3>2. k \in 0..m /\ k + 1 \in 1..m /\ k + 1 \in 0..m /\ (k + 1) - 1 = k /\ k + 1 # k
      BY <2>2
    <3>3. by[k+1][f[k]] \in S
      BY <3>1, <3>2
    <3>4. /\ g \in [0..m -> S] /\ g[k+1] = by[k+1][f[k]]
          /\ \A i \in 0..m : i # k + 1 => g[i] = f[i]
      BY <3>2, <3>3
    <3> HIDE DEF g
    <3>5. ASSUME NEW i \in 0..k+1
          PROVE  g[i] = IF i = 0 THEN a ELSE by[i][g[i-1]]
      <4>1. CASE i = k + 1
        BY <4>1, <3>2, <3>4
      <4>2. CASE i # k + 1
        <5>1. i \in 0..k /\ i \in 0..m /\ (i # 0 => i - 1 \in 0..m /\ i - 1 # k + 1)
          BY <4>2, <3>2
        <5>2. g[i] = f[i] /\ (i # 0 => g[i-1] = f[i-1])
          BY <5>1, <4>2, <3>4
        <5>3. QED
          BY <5>1, <5>2, <3>1
      <4>3. QED
        BY <4>1, <4>2
    <3>6. QED
      BY <3>4, <3>5
  <2>3. QED
    BY <2>1, <2>2
<1> HIDE DEF T
<1>3. m \in T
  BY <1>1, <1>2, SetInduction
<1>4. QED
  BY <1>3 DEF T, Recurses

-----------------------------------------------------------------------------
(* The checksum: sums of words                                              *)

\* What is left of a sum: a multiple of the greatest word N less, and 0 of no
\* sum but 0.
Leaves(N, s, x) ==
  /\ s \in Nat /\ x \in 0..N
  /\ x = 0 <=> s = 0
  /\ \E k \in Nat : s = x + k * N

\* A sum leaves one number only, and one that is less than N apart leaves
\* another.
LEMMA LeavesOne ==
  ASSUME NEW N \in Nat, NEW s, NEW x, NEW y, Leaves(N, s, x), Leaves(N, s, y)
  PROVE  x = y
<1>1. s \in Nat /\ x \in 0..N /\ y \in 0..N /\ (x = 0 <=> s = 0) /\ (y = 0 <=> s = 0)
  BY DEF Leaves
<1>2. PICK k \in Nat : s = x + k * N
  BY DEF Leaves
<1>3. PICK l \in Nat : s = y + l * N
  BY DEF Leaves
<1>4. k * N \in Nat /\ l * N \in Nat
  OBVIOUS
<1>5. CASE k = l
  BY <1>1, <1>2, <1>3, <1>4, <1>5
<1>6. CASE k > l
  <2>1. k * N >= l * N + N
    <3>1. k - 1 \in Nat /\ k - 1 >= l
      BY <1>6
    <3>2. (k - 1) * N >= l * N /\ k * N = (k - 1) * N + N
      BY <3>1
    <3>3. QED
      BY <3>1, <3>2, <1>4
  <2>2. QED
    BY <1>1, <1>2, <1>3, <1>4, <2>1
<1>7. CASE l > k
  <2>1. l * N >= k * N + N
    <3>1. l - 1 \in Nat /\ l - 1 >= k
      BY <1>7
    <3>2. (l - 1) * N >= k * N /\ l * N = (l - 1) * N + N
      BY <3>1
    <3>3. QED
      BY <3>1, <3>2, <1>4
  <2>2. QED
    BY <1>1, <1>2, <1>3, <1>4, <2>1
<1>8. QED
  BY <1>5, <1>6, <1>7

LEMMA LeavesApart ==
  ASSUME NEW N \in Nat, NEW s, NEW t, NEW x, Leaves(N, s, x), Leaves(N, t, x), s < t
  PROVE  t - s >= N
<1>1. s \in Nat /\ t \in Nat /\ x \in 0..N
  BY DEF Leaves
<1>2. PICK k \in Nat : s = x + k * N
  BY DEF Leaves
<1>3. PICK l \in Nat : t = x + l * N
  BY DEF Leaves
<1>4. k * N \in Nat /\ l * N \in Nat
  OBVIOUS
<1>5. l > k
  <2> SUFFICES ASSUME l <= k PROVE FALSE
    OBVIOUS
  <2>1. l * N <= k * N
    OBVIOUS
  <2>2. QED
    BY <1>1, <1>2, <1>3, <1>4, <2>1
<1>6. l - 1 \in Nat /\ l - 1 >= k
  BY <1>5
<1>7. (l - 1) * N >= k * N /\ l * N = (l - 1) * N + N
  BY <1>6
<1>8. QED
  BY <1>1, <1>2, <1>3, <1>4, <1>6, <1>7

\* The end-around carry adds a word to what is left.
LEMMA LeavesPlus ==
  ASSUME NEW N \in Nat \ {0}, NEW s, NEW x, Leaves(N, s, x), NEW w \in 0..N
  PROVE  Leaves(N, s + w, IF x + w >= N + 1 THEN x + w - N ELSE x + w)
<1>1. s \in Nat /\ x \in 0..N /\ (x = 0 <=> s = 0)
  BY DEF Leaves
<1>2. PICK k \in Nat : s = x + k * N
  BY DEF Leaves
<1>3. k * N \in Nat /\ k + 1 \in Nat /\ (k + 1) * N = k * N + N
  OBVIOUS
<1>4. CASE x + w >= N + 1
  <2>1. s + w = (x + w - N) + (k + 1) * N
    BY <1>1, <1>2, <1>3
  <2>2. s + w \in Nat /\ x + w - N \in 0..N /\ (x + w - N = 0 <=> s + w = 0)
    BY <1>1, <1>4
  <2>3. QED
    BY <1>3, <1>4, <2>1, <2>2 DEF Leaves
<1>5. CASE ~(x + w >= N + 1)
  <2>1. s + w = (x + w) + k * N
    BY <1>1, <1>2, <1>3
  <2>2. s + w \in Nat /\ x + w \in 0..N /\ (x + w = 0 <=> s + w = 0)
    BY <1>1, <1>5
  <2>3. QED
    BY <1>5, <2>1, <2>2 DEF Leaves
<1>6. QED
  BY <1>4, <1>5

\* Division, as the proofs use it.
LEMMA Division ==
  ASSUME NEW M \in Nat \ {0}, NEW s \in Nat
  PROVE  /\ s \div M \in Nat /\ s % M \in 0..M-1
         /\ s = (s \div M) * M + (s % M)
         /\ s < M * M => s \div M < M
         /\ s < M => s % M = s /\ s \div M = 0
         /\ M <= s /\ s < M + M => s % M = s - M /\ s \div M = 1
<1>1. s \div M \in Nat /\ s % M \in 0..M-1 /\ s = (s \div M) * M + (s % M)
  OBVIOUS
<1>2. ASSUME s < M * M PROVE s \div M < M
  <2> SUFFICES ASSUME s \div M >= M PROVE FALSE
    BY <1>1
  <2>1. (s \div M) * M >= M * M
    BY <1>1
  <2>2. QED
    BY <1>1, <1>2, <2>1
<1>3. s < M => s % M = s /\ s \div M = 0
  OBVIOUS
<1>4. M <= s /\ s < M + M => s % M = s - M /\ s \div M = 1
  OBVIOUS
<1>5. QED
  BY <1>1, <1>2, <1>3, <1>4

\* Two foldings of a sum of 32 bits give what is left of it.
LEMMA FoldedLeaves ==
  ASSUME NEW M \in Nat \ {0, 1}, NEW s \in Nat, s < M * M,
         NEW once, once = (s \div M) + (s % M)
  PROVE  Leaves(M - 1, s, (once + (once \div M)) % M)
<1> DEFINE q == s \div M
           r == s % M
<1>1. q \in Nat /\ r \in 0..M-1 /\ s = q * M + r /\ q < M
  BY Division
<1> HIDE DEF q, r
<1>2. once = q + r
  BY DEF q, r
<1>3. q * M = q * (M - 1) + q /\ q * (M - 1) \in Nat /\ q + 1 \in Nat
      /\ (q + 1) * (M - 1) = q * (M - 1) + (M - 1)
  BY <1>1
<1>4. q = 0 => q * M = 0
  OBVIOUS
<1>5. q # 0 => q * M > 0
  BY <1>1
<1>9. once \in Nat /\ once + 1 \in Nat /\ M \in Nat \ {0}
  BY <1>1, <1>2
<1>6. CASE once < M
  <2>1. once \in Nat /\ once \div M = 0 /\ once % M = once
    BY <1>6, <1>9, Division
  <2>2. (once + (once \div M)) % M = once
    BY <2>1
  <2>3. s = once + q * (M - 1)
    BY <1>1, <1>2, <1>3
  <2>4. once \in 0..M-1 /\ (once = 0 <=> s = 0)
    BY <1>1, <1>2, <1>4, <1>5, <1>6, <2>1
  <2>5. QED
    BY <1>1, <2>2, <2>3, <2>4 DEF Leaves
<1>7. CASE once >= M
  <2>1. once \in Nat /\ once < M + M /\ once + 1 < M + M
    BY <1>1, <1>2, <1>7
  <2>2. once \div M = 1
    BY <1>7, <1>9, <2>1, Division
  <2>3. (once + 1) % M = once + 1 - M
    <3>1. M <= once + 1
      BY <1>7, <1>9
    <3>2. \A t \in Nat : M <= t /\ t < M + M => t % M = t - M
      BY <1>9, Division
    <3>3. QED
      BY <1>9, <2>1, <3>1, <3>2
  <2>4. s = (once + 1 - M) + (q + 1) * (M - 1)
    BY <1>1, <1>2, <1>3
  <2>5. once + 1 - M \in 1..M-1 /\ s # 0
    BY <1>1, <1>2, <1>3, <1>7, <2>1
  <2>6. (once + (once \div M)) % M = once + 1 - M
    BY <2>2, <2>3
  <2>7. once + 1 - M \in 0..M-1 /\ (once + 1 - M = 0 <=> s = 0)
    BY <2>5
  <2>8. QED
    BY <1>3, <2>4, <2>6, <2>7 DEF Leaves
<1>8. QED
  BY <1>1, <1>2, <1>6, <1>7

-----------------------------------------------------------------------------
(* The checksum: the loops                                                  *)

Greatest == WordValues - 1
AllBytes == Seq(Byte)
WordsOf(p) == Len(p) \div 2

LEMMA WordsFacts ==
  /\ Base \in Nat \ {0, 1} /\ WordValues \in Nat \ {0, 1} /\ Greatest \in Nat \ {0}
  /\ (Base - 1) * Base < Greatest /\ (Base - 1) * Base + (Base - 1) = Greatest
<1>1. Base \in Nat \ {0, 1}
  BY ChecksumAssumption
<1>2. Base * Base \in Nat /\ (Base - 1) * Base = Base * Base - Base /\ Base * Base >= 2 * Base
  BY <1>1
<1>3. QED
  BY <1>1, <1>2 DEF WordValues, Greatest

\* A word of a packet, by its place and by its bytes.
LEMMA WordIs ==
  ASSUME NEW p \in AllBytes, NEW i \in 1..WordsOf(p)
  PROVE  /\ 2*i - 1 \in 1..Len(p) /\ 2*i \in 1..Len(p)
         /\ Word(p, 2*i - 1) = p[2*i - 1] * Base + p[2*i]
         /\ p[2*i - 1] \in Byte /\ p[2*i] \in Byte
         /\ Word(p, 2*i - 1) \in 0..Greatest
<1>1. Len(p) \in Nat
  BY DEF AllBytes
<1>2. 2 * i <= Len(p) /\ i \in Nat /\ i >= 1
  BY <1>1 DEF WordsOf
<1>3. 2*i - 1 \in 1..Len(p) /\ 2*i \in 1..Len(p) /\ (2*i - 1) + 1 = 2*i
  BY <1>1, <1>2
<1>4. p[2*i - 1] \in Byte /\ p[2*i] \in Byte
  BY <1>3 DEF AllBytes
<1>5. Word(p, 2*i - 1) = p[2*i - 1] * Base + p[2*i]
  BY <1>3 DEF Word
<1>6. ASSUME NEW a \in Byte, NEW b \in Byte PROVE a * Base + b \in 0..Greatest
  <2>1. a \in Nat /\ b \in Nat /\ a <= Base - 1 /\ b <= Base - 1 /\ Base \in Nat
    BY WordsFacts DEF Byte
  <2>2. a * Base \in Nat /\ a * Base <= (Base - 1) * Base
    BY <2>1
  <2>3. QED
    BY <2>1, <2>2, WordsFacts
<1>7. QED
  BY <1>3, <1>4, <1>5, <1>6

\* f has the sums of the words of p, one after the other.
Sums(f, p) ==
  /\ f \in [0..WordsOf(p) -> Nat]
  /\ f[0] = 0
  /\ \A i \in 1..WordsOf(p) : f[i] = f[i-1] + Word(p, 2*i - 1)

LEMMA SumsExist ==
  ASSUME NEW p \in AllBytes
  PROVE  \E f : Sums(f, p)
<1> DEFINE m == WordsOf(p)
           by == [i \in 1..m |-> [s \in Nat |-> s + Word(p, 2*i - 1)]]
<1>1. m \in Nat
  BY DEF AllBytes, WordsOf
<1>2. \A i \in 1..m : Word(p, 2*i - 1) \in Nat
  BY WordIs, WordsFacts
<1>3. by \in [1..m -> [Nat -> Nat]]
  BY <1>2
<1>4. PICK f \in [0..m -> Nat] : Recurses(f, m, 0, by)
  <2> HIDE DEF by, m
  <2> QED
    BY <1>1, <1>3, Recursion
<1>5. f[0] = 0
  <2> HIDE DEF by, m
  <2>1. 0 \in 0..m
    BY <1>1
  <2>2. QED
    BY <1>4, <2>1 DEF Recurses
<1>6. ASSUME NEW i \in 1..m PROVE f[i] = f[i-1] + Word(p, 2*i - 1)
  <2>1. i \in 0..m /\ i # 0 /\ i - 1 \in 0..m
    BY <1>1
  <2>2. f[i-1] \in Nat
    BY <1>4, <2>1
  <2>3. by[i][f[i-1]] = f[i-1] + Word(p, 2*i - 1)
    BY <2>2
  <2>4. QED
    BY <1>4, <2>1, <2>3 DEF Recurses
<1>7. QED
  BY <1>4, <1>5, <1>6 DEF Sums

\* No sum leaves 32 bits.
LEMMA SumsBound ==
  ASSUME NEW p \in AllBytes, NEW f, Sums(f, p)
  PROVE  \A i \in 0..WordsOf(p) : f[i] \in Nat /\ f[i] <= i * Greatest
<1> DEFINE T == {n \in Nat : n \in 0..WordsOf(p) => f[n] <= n * Greatest}
<1>1. WordsOf(p) \in Nat
  BY DEF AllBytes, WordsOf
<1>2. 0 \in T
  BY WordsFacts DEF Sums
<1>3. ASSUME NEW n \in Nat, n \in T PROVE n + 1 \in T
  <2> SUFFICES ASSUME n + 1 \in 0..WordsOf(p) PROVE f[n+1] <= (n+1) * Greatest
    OBVIOUS
  <2>1. n \in 0..WordsOf(p) /\ n + 1 \in 1..WordsOf(p) /\ (n + 1) - 1 = n
    BY <1>1
  <2>2. f[n+1] = f[n] + Word(p, 2*(n+1) - 1)
    BY <2>1 DEF Sums
  <2>3. Word(p, 2*(n+1) - 1) \in 0..Greatest
    BY <2>1, WordIs
  <2>4. f[n] \in Nat /\ f[n] <= n * Greatest
    BY <1>3, <2>1 DEF Sums
  <2>5. n * Greatest \in Nat /\ (n + 1) * Greatest = n * Greatest + Greatest
    BY WordsFacts
  <2> HIDE DEF T
  <2>6. QED
    BY <2>2, <2>3, <2>4, <2>5, WordsFacts
<1> HIDE DEF T
<1>4. Nat \subseteq T
  BY <1>2, <1>3, SetInduction
<1>5. QED
  BY <1>1, <1>4 DEF T, Sums

\* What is added to the words: the last byte of an odd number.
LowHalf(p) == IF Odd(p) THEN Last(p) ELSE 0

Short(p) == Len(p) < 2 * WordValues

LEMMA LowHalfIs ==
  ASSUME NEW p \in AllBytes
  PROVE  LowHalf(p) \in Byte
<1>1. Len(p) \in Nat /\ 0 \in Byte
  BY WordsFacts DEF AllBytes, Byte
<1>2. CASE Odd(p)
  <2>1. Len(p) \in 1..Len(p)
    BY <1>1, <1>2 DEF Odd
  <2>2. p[Len(p)] \in Byte
    BY <2>1 DEF AllBytes
  <2>3. QED
    BY <1>2, <2>2 DEF LowHalf, Last
<1>3. CASE ~Odd(p)
  BY <1>1, <1>3 DEF LowHalf
<1>4. QED
  BY <1>2, <1>3

\* The sum of a short packet, its last byte included, fits 32 bits.
LEMMA TotalFits ==
  ASSUME NEW p \in AllBytes, Short(p), NEW f, Sums(f, p)
  PROVE  /\ f[WordsOf(p)] + LowHalf(p) \in Nat
         /\ f[WordsOf(p)] + LowHalf(p) < WordValues * WordValues
         /\ \A i \in 0..WordsOf(p) : f[i] \in Nat /\ f[i] < WordValues * WordValues
<1> DEFINE m == WordsOf(p)
<1>1. Len(p) \in Nat /\ m \in Nat /\ 2 * m <= Len(p)
  BY DEF AllBytes, WordsOf
<1>2. m <= Greatest
  BY <1>1, WordsFacts DEF Short, Greatest
<1>3. \A i \in 0..m : f[i] \in Nat /\ f[i] <= Greatest * Greatest
  <2> TAKE i \in 0..m
  <2>1. f[i] \in Nat /\ f[i] <= i * Greatest
    BY SumsBound
  <2> HIDE DEF m
  <2>2. i \in Nat /\ i <= Greatest /\ Greatest \in Nat
    BY <1>1, <1>2, WordsFacts
  <2>3. i * Greatest <= Greatest * Greatest /\ i * Greatest \in Nat
    BY <2>2
  <2>4. QED
    BY <2>1, <2>2, <2>3
<1>4. WordValues * WordValues = Greatest * Greatest + Greatest + Greatest + 1 /\ Greatest * Greatest \in Nat
  BY WordsFacts DEF Greatest
<1>5. LowHalf(p) \in 0..Greatest
  BY LowHalfIs, WordsFacts DEF Byte, WordValues, Greatest
<1>6. m \in 0..m
  BY <1>1
<1> HIDE DEF m
<1>7. f[m] + LowHalf(p) \in Nat /\ f[m] + LowHalf(p) < WordValues * WordValues
  BY <1>3, <1>4, <1>5, <1>6, WordsFacts
<1>8. \A i \in 0..m : f[i] \in Nat /\ f[i] < WordValues * WordValues
  BY <1>3, <1>4, WordsFacts
<1>9. QED
  BY <1>7, <1>8 DEF m

\* What the code computes, its wrapping at 32 bits aside.
LEMMA ChecksumIs ==
  ASSUME NEW p \in AllBytes, Short(p), NEW f, Sums(f, p)
  PROVE  ip_hdr_checksum(p) = Complement(folded(f[WordsOf(p)] + LowHalf(p)))
<1> DEFINE m == WordsOf(p)
           cksum[i \in 0..Len(p) \div 2] ==
             IF i = 0 THEN 0 ELSE Wrapped(cksum[i-1] + Word(p, 2*i - 1))
           Fits(g) == g = [i \in 0..m |-> IF i = 0 THEN 0 ELSE Wrapped(g[i-1] + Word(p, 2*i - 1))]
<1>1. ip_hdr_checksum(p) = Complement(folded(Wrapped(cksum[m] + LowHalf(p))))
  BY DEF ip_hdr_checksum, WordsOf, LowHalf
<1>2. Fits(CHOOSE g : Fits(g)) => Fits(cksum)
  BY DEF WordsOf
<1> HIDE DEF cksum
<1>3. m \in Nat /\ f \in [0..m -> Nat] /\ f[0] = 0
      /\ \A i \in 1..m : f[i] = f[i-1] + Word(p, 2*i - 1)
  BY DEF AllBytes, WordsOf, Sums
<1>4. \A s \in Nat : s < WordValues * WordValues => Wrapped(s) = s
  <2>1. WordValues * WordValues \in Nat \ {0}
    BY WordsFacts
  <2>2. QED
    BY <2>1, Division DEF Wrapped
<1>5. /\ f[m] + LowHalf(p) \in Nat
      /\ f[m] + LowHalf(p) < WordValues * WordValues
      /\ \A i \in 0..m : f[i] \in Nat /\ f[i] < WordValues * WordValues
  BY TotalFits
<1> HIDE DEF m
<1>6. \A i \in 1..m : Wrapped(f[i-1] + Word(p, 2*i - 1)) = f[i]
  <2> TAKE i \in 1..m
  <2>1. i \in 0..m
    BY <1>3
  <2>2. f[i-1] + Word(p, 2*i - 1) = f[i]
    BY <1>3
  <2>3. QED
    BY <1>4, <1>5, <2>1, <2>2
<1>7. Fits(f)
  <2>1. \A i \in 0..m : f[i] = IF i = 0 THEN 0 ELSE Wrapped(f[i-1] + Word(p, 2*i - 1))
    <3> TAKE i \in 0..m
    <3>1. CASE i = 0
      BY <1>3, <3>1
    <3>2. CASE i # 0
      <4>1. i \in 1..m
        BY <3>2, <1>3
      <4>2. QED
        BY <4>1, <3>2, <1>6
    <3>3. QED
      BY <3>1, <3>2
  <2>2. f = [i \in 0..m |-> f[i]]
    BY <1>3
  <2>3. QED
    BY <2>1, <2>2
<1>8. Fits(cksum)
  <2> HIDE DEF Fits
  <2>1. Fits(CHOOSE g : Fits(g))
    BY <1>7
  <2>2. QED
    BY <2>1, <1>2
<1> DEFINE T == {n \in Nat : n \in 0..m => cksum[n] = f[n]}
<1>9. 0 \in T
  <2>1. 0 \in 0..m
    BY <1>3
  <2>2. cksum[0] = 0
    BY <1>8, <2>1
  <2>3. QED
    BY <2>2, <1>3
<1>10. ASSUME NEW n \in Nat, n \in T PROVE n + 1 \in T
  <2> SUFFICES ASSUME n + 1 \in 0..m PROVE cksum[n+1] = f[n+1]
    OBVIOUS
  <2>1. n \in 0..m /\ n + 1 \in 1..m /\ (n + 1) - 1 = n /\ n + 1 # 0
    BY <1>3
  <2>2. cksum[n+1] = Wrapped(cksum[n] + Word(p, 2*(n+1) - 1))
    BY <1>8, <2>1
  <2>3. cksum[n] = f[n]
    BY <1>10, <2>1
  <2>4. Wrapped(f[n] + Word(p, 2*(n+1) - 1)) = f[n+1]
    BY <1>6, <2>1
  <2>5. QED
    BY <2>2, <2>3, <2>4
<1> HIDE DEF T, Fits
<1>11. Nat \subseteq T
  BY <1>9, <1>10, SetInduction
<1>12. cksum[m] = f[m]
  BY <1>3, <1>11 DEF T
<1>13. QED
  BY <1>1, <1>4, <1>5, <1>12 DEF m

\* And what is left of it.
LEMMA ChecksumLeaves ==
  ASSUME NEW p \in AllBytes, Short(p), NEW f, Sums(f, p)
  PROVE  /\ f[WordsOf(p)] + LowHalf(p) \in Nat
         /\ Leaves(Greatest, f[WordsOf(p)] + LowHalf(p), folded(f[WordsOf(p)] + LowHalf(p)))
         /\ ip_hdr_checksum(p) = Greatest - folded(f[WordsOf(p)] + LowHalf(p))
<1>1. ip_hdr_checksum(p) = Complement(folded(f[WordsOf(p)] + LowHalf(p)))
  BY ChecksumIs
<1>2. /\ f[WordsOf(p)] + LowHalf(p) \in Nat
      /\ f[WordsOf(p)] + LowHalf(p) < WordValues * WordValues
  BY TotalFits
<1>3. \A s \in Nat : s < WordValues * WordValues => Leaves(Greatest, s, folded(s))
  <2> TAKE s \in Nat
  <2> HAVE s < WordValues * WordValues
  <2>1. Leaves(WordValues - 1, s, (((s \div WordValues) + (s % WordValues))
               + (((s \div WordValues) + (s % WordValues)) \div WordValues)) % WordValues)
    BY FoldedLeaves, WordsFacts
  <2>2. QED
    BY <2>1 DEF folded, Greatest
<1>4. QED
  BY <1>1, <1>2, <1>3 DEF Complement, Greatest

LEMMA OnesPlusLeaves ==
  ASSUME NEW s, NEW x, Leaves(Greatest, s, x), NEW w \in 0..Greatest
  PROVE  Leaves(Greatest, s + w, OnesPlus(x, w))
<1>1. Leaves(Greatest, s + w, IF x + w >= Greatest + 1 THEN x + w - Greatest ELSE x + w)
  BY LeavesPlus, WordsFacts
<1>2. Greatest + 1 = WordValues /\ WordValues - 1 = Greatest
  BY WordsFacts DEF Greatest
<1>3. QED
  BY <1>1, <1>2 DEF OnesPlus

\* An odd number of bytes, as the other host sums it.
Padded(p) == IF Odd(p) THEN Append(p, 0) ELSE p

\* The sum of another host leaves the same of its words.
LEMMA OnesSumLeaves ==
  ASSUME NEW p, Padded(p) \in AllBytes, NEW f, Sums(f, Padded(p))
  PROVE  Leaves(Greatest, f[WordsOf(Padded(p))], OnesSum(p))
<1> DEFINE q == Padded(p)
           m == WordsOf(q)
           by == [i \in 1..m |-> [s \in 0..Greatest |-> OnesPlus(s, Word(q, 2*i - 1))]]
           sum[i \in 0..Len(Padded(p)) \div 2] ==
             IF i = 0 THEN 0 ELSE OnesPlus(sum[i-1], Word(Padded(p), 2*i - 1))
           Fits(g) == g = [i \in 0..m |-> IF i = 0 THEN 0 ELSE OnesPlus(g[i-1], Word(q, 2*i - 1))]
<1>1. OnesSum(p) = sum[m]
  BY DEF OnesSum, Padded, WordsOf
<1>2. Fits(CHOOSE g : Fits(g)) => Fits(sum)
  BY DEF WordsOf
<1> HIDE DEF sum
<1>3. m \in Nat /\ f \in [0..m -> Nat] /\ f[0] = 0
      /\ \A i \in 1..m : f[i] = f[i-1] + Word(q, 2*i - 1)
  BY DEF AllBytes, WordsOf, Sums
<1>4. \A i \in 1..m : Word(q, 2*i - 1) \in 0..Greatest
  BY WordIs
<1>5. \A s \in 0..Greatest, w \in 0..Greatest : OnesPlus(s, w) \in 0..Greatest
  BY WordsFacts DEF OnesPlus, Greatest
<1> HIDE DEF m, q
<1>6. by \in [1..m -> [0..Greatest -> 0..Greatest]]
  BY <1>4, <1>5
<1> HIDE DEF by
<1>7. 0 \in 0..Greatest
  BY WordsFacts
<1>8. PICK g \in [0..m -> 0..Greatest] : Recurses(g, m, 0, by)
  BY <1>3, <1>6, <1>7, Recursion
<1>9. Fits(g)
  <2>1. \A i \in 0..m : g[i] = IF i = 0 THEN 0 ELSE OnesPlus(g[i-1], Word(q, 2*i - 1))
    <3> TAKE i \in 0..m
    <3>1. CASE i = 0
      BY <1>8, <3>1 DEF Recurses
    <3>2. CASE i # 0
      <4>1. i \in 1..m /\ i - 1 \in 0..m
        BY <3>2, <1>3
      <4>2. g[i-1] \in 0..Greatest
        BY <4>1, <1>8
      <4>3. by[i][g[i-1]] = OnesPlus(g[i-1], Word(q, 2*i - 1))
        BY <4>1, <4>2 DEF by
      <4>4. QED
        BY <4>3, <3>2, <1>8 DEF Recurses
    <3>3. QED
      BY <3>1, <3>2
  <2>2. g = [i \in 0..m |-> g[i]]
    BY <1>8
  <2>3. QED
    BY <2>1, <2>2
<1>10. Fits(sum)
  <2> HIDE DEF Fits
  <2>1. Fits(CHOOSE h : Fits(h))
    BY <1>9
  <2>2. QED
    BY <2>1, <1>2
<1>11. /\ 0 \in 0..m /\ sum[0] = 0
       /\ \A i \in 1..m : sum[i] = OnesPlus(sum[i-1], Word(q, 2*i - 1))
  <2>1. 0 \in 0..m /\ \A i \in 1..m : i \in 0..m /\ i # 0
    BY <1>3
  <2>2. QED
    BY <2>1, <1>10
<1> HIDE DEF Fits
<1> DEFINE T == {n \in Nat : n \in 0..m => Leaves(Greatest, f[n], sum[n])}
<1>12. 0 \in T
  <2>1. 0 = 0 + 0 * Greatest
    BY WordsFacts
  <2>2. QED
    BY <2>1, <1>3, <1>7, <1>11 DEF Leaves
<1>13. ASSUME NEW n \in Nat, n \in T PROVE n + 1 \in T
  <2> SUFFICES ASSUME n + 1 \in 0..m PROVE Leaves(Greatest, f[n+1], sum[n+1])
    OBVIOUS
  <2>1. n \in 0..m /\ n + 1 \in 1..m /\ (n + 1) - 1 = n
    BY <1>3
  <2>2. Leaves(Greatest, f[n], sum[n])
    BY <1>13, <2>1
  <2>3. Word(q, 2*(n+1) - 1) \in 0..Greatest
    BY <1>4, <2>1
  <2>4. f[n+1] = f[n] + Word(q, 2*(n+1) - 1)
    BY <1>3, <2>1
  <2>5. sum[n+1] = OnesPlus(sum[n], Word(q, 2*(n+1) - 1))
    BY <1>11, <2>1
  <2> HIDE DEF T
  <2>6. QED
    BY <2>2, <2>3, <2>4, <2>5, OnesPlusLeaves
<1> HIDE DEF T
<1>14. Nat \subseteq T
  BY <1>12, <1>13, SetInduction
<1>15. Leaves(Greatest, f[m], sum[m])
  BY <1>3, <1>14 DEF T
<1>16. QED
  BY <1>1, <1>15 DEF m, q

\* The padding of an odd number of bytes makes its last byte a word.
LEMMA PaddedSums ==
  ASSUME NEW p \in AllBytes, NEW f, Sums(f, p)
  PROVE  /\ Padded(p) \in AllBytes
         /\ \E h : /\ Sums(h, Padded(p))
                   /\ h[WordsOf(Padded(p))] =
                        f[WordsOf(p)] + (IF Odd(p) THEN Last(p) * Base ELSE 0)
<1>1. Len(p) \in Nat /\ p \in Seq(Byte) /\ 0 \in Byte /\ f \in [0..WordsOf(p) -> Nat]
      /\ WordsOf(p) \in Nat
  BY WordsFacts DEF AllBytes, Byte, Sums, WordsOf
<1>2. CASE ~Odd(p)
  <2>1. f[WordsOf(p)] + 0 = f[WordsOf(p)]
    BY <1>1
  <2>2. QED
    BY <1>1, <1>2, <2>1 DEF Padded
<1>3. CASE Odd(p)
  <2> DEFINE q == Append(p, 0)
             m == WordsOf(p)
             h == [i \in 0..m+1 |-> IF i = m + 1 THEN f[m] + Last(p) * Base ELSE f[i]]
  <2>1. Padded(p) = q /\ q \in Seq(Byte) /\ Len(q) = Len(p) + 1
        /\ q[Len(p) + 1] = 0 /\ \A i \in 1..Len(p) : q[i] = p[i]
    BY <1>1, <1>3 DEF Padded
  <2>2. m \in Nat /\ Len(p) = 2 * m + 1 /\ WordsOf(q) = m + 1
    BY <1>1, <1>3, <2>1 DEF Odd, WordsOf
  <2>3. Last(p) = p[Len(p)] /\ Last(p) \in Nat /\ Last(p) * Base \in Nat
    <3>1. Last(p) = p[Len(p)] /\ Len(p) \in 1..Len(p)
      BY <1>1, <2>2 DEF Last
    <3>2. Last(p) \in Byte
      BY <1>1, <3>1
    <3>3. QED
      BY <3>1, <3>2, WordsFacts DEF Byte
  <2> HIDE DEF m, q
  <2>4. /\ h \in [0..m+1 -> Nat] /\ h[m + 1] = f[m] + Last(p) * Base
        /\ \A i \in 0..m : h[i] = f[i]
    <3>1. \A i \in 0..m : f[i] \in Nat
      BY <1>1 DEF m
    <3>2. m \in 0..m /\ m + 1 \in 0..m+1 /\ \A i \in 0..m+1 : i # m + 1 => i \in 0..m
      BY <2>2
    <3>3. \A i \in 0..m : i \in 0..m+1 /\ i # m + 1
      BY <2>2
    <3>4. QED
      BY <3>1, <3>2, <3>3, <2>3
  <2> HIDE DEF h
  <2>5. ASSUME NEW i \in 1..m+1 PROVE h[i] = h[i-1] + Word(q, 2*i - 1)
    <3>1. CASE i = m + 1
      <4>1. 2*i - 1 = Len(p) /\ (2*i - 1) + 1 = Len(p) + 1 /\ i - 1 = m /\ m \in 0..m
            /\ Len(p) \in 1..Len(p)
        BY <2>2, <3>1
      <4>2. Word(q, 2*i - 1) = Last(p) * Base + 0
        BY <4>1, <2>1, <2>3 DEF Word
      <4>3. h[i] = f[m] + Last(p) * Base /\ h[i-1] = f[m]
        BY <4>1, <2>4, <3>1
      <4>4. QED
        BY <4>2, <4>3, <2>3
    <3>2. CASE i # m + 1
      <4>1. i \in 1..m /\ i \in 0..m /\ i - 1 \in 0..m
            /\ 2*i - 1 \in 1..Len(p) /\ (2*i - 1) + 1 \in 1..Len(p)
        BY <2>2, <3>2
      <4>2. Word(q, 2*i - 1) = Word(p, 2*i - 1)
        BY <4>1, <2>1 DEF Word
      <4>3. f[i] = f[i-1] + Word(p, 2*i - 1)
        BY <4>1 DEF Sums, m
      <4>4. QED
        BY <4>1, <4>2, <4>3, <2>4
    <3>3. QED
      BY <3>1, <3>2
  <2>6. h[0] = 0
    BY <2>2, <2>4 DEF Sums
  <2>7. Sums(h, q)
    BY <2>2, <2>4, <2>5, <2>6 DEF Sums
  <2>8. QED
    BY <1>3, <2>1, <2>2, <2>4, <2>7 DEF m, q, AllBytes
<1>4. QED
  BY <1>2, <1>3

\* Packets that differ in word j, by delta, have sums that do.
Differ(p, q, j, delta) ==
  /\ WordsOf(q) = WordsOf(p)
  /\ \A i \in 1..WordsOf(p) :
       Word(q, 2*i - 1) = Word(p, 2*i - 1) + (IF i = j THEN delta ELSE 0)

LEMMA SumsChange ==
  ASSUME NEW p \in AllBytes, NEW q \in AllBytes, NEW f, Sums(f, p), NEW g, Sums(g, q),
         NEW j \in Nat \ {0}, NEW delta \in Int, Differ(p, q, j, delta)
  PROVE  g[WordsOf(p)] = f[WordsOf(p)] + (IF j <= WordsOf(p) THEN delta ELSE 0)
<1> DEFINE m == WordsOf(p)
           By(n) == IF j <= n THEN delta ELSE 0
           T == {n \in Nat : n \in 0..m => g[n] = f[n] + By(n)}
<1>1. /\ m \in Nat
      /\ f \in [0..m -> Nat] /\ f[0] = 0 /\ \A i \in 1..m : f[i] = f[i-1] + Word(p, 2*i - 1)
      /\ g[0] = 0 /\ \A i \in 1..m : g[i] = g[i-1] + Word(q, 2*i - 1)
  BY DEF AllBytes, WordsOf, Sums, Differ
<1>2. \A i \in 1..m : Word(p, 2*i - 1) \in Int
  BY WordIs, WordsFacts
<1>3. \A i \in 1..m : Word(q, 2*i - 1) = Word(p, 2*i - 1) + (IF i = j THEN delta ELSE 0)
  BY DEF Differ
<1> HIDE DEF m
<1>4. 0 \in T
  <2>1. By(0) = 0
    OBVIOUS
  <2> HIDE DEF By
  <2>2. g[0] = 0 /\ f[0] = 0
    BY <1>1
  <2>3. g[0] = f[0] + By(0)
    BY <2>1, <2>2
  <2>4. QED
    BY <2>3
<1>5. ASSUME NEW n \in Nat, n \in T PROVE n + 1 \in T
  <2> SUFFICES ASSUME n + 1 \in 0..m PROVE g[n+1] = f[n+1] + By(n+1)
    OBVIOUS
  <2>1. n \in 0..m /\ n + 1 \in 1..m /\ (n + 1) - 1 = n
    BY <1>1
  <2>2. g[n] = f[n] + By(n) /\ f[n] \in Nat /\ By(n) \in Int
    BY <1>1, <1>5, <2>1
  <2>3. By(n + 1) = By(n) + (IF n + 1 = j THEN delta ELSE 0)
    OBVIOUS
  <2> DEFINE v == Word(p, 2*(n+1) - 1)
             u == Word(q, 2*(n+1) - 1)
             add == IF n + 1 = j THEN delta ELSE 0
  <2>4. v \in Int /\ u = v + add /\ add \in Int
    BY <1>2, <1>3, <2>1
  <2>5. g[n+1] = g[n] + u /\ f[n+1] = f[n] + v
    BY <1>1, <2>1
  <2> HIDE DEF u, v, add, By, T
  <2>6. By(n + 1) = By(n) + add
    BY <2>3 DEF add
  <2>7. QED
    BY <2>2, <2>4, <2>5, <2>6
<1> HIDE DEF T
<1>6. Nat \subseteq T
  BY <1>4, <1>5, SetInduction
<1>7. QED
  BY <1>1, <1>6 DEF T, m

\* What is left of a sum and its complement is the greatest word.
LEMMA Completed ==
  ASSUME NEW s, NEW x, Leaves(Greatest, s, x)
  PROVE  Greatest - x \in 0..Greatest /\ Leaves(Greatest, s + (Greatest - x), Greatest)
<1>1. s \in Nat /\ x \in 0..Greatest /\ Greatest \in Nat \ {0}
  BY WordsFacts DEF Leaves
<1>2. PICK k \in Nat : s = x + k * Greatest
  BY DEF Leaves
<1>3. k * Greatest \in Nat
  BY <1>1
<1>4. s + (Greatest - x) = Greatest + k * Greatest /\ s + (Greatest - x) \in Nat /\ s + (Greatest - x) # 0
  BY <1>1, <1>2, <1>3
<1>5. QED
  BY <1>1, <1>4 DEF Leaves

\* A short packet is taken if, and only if, the greatest word is left of its sum.
LEMMA TakenIf ==
  ASSUME NEW p \in AllBytes, Short(p), NEW f, Sums(f, p), NEW t, t = f[WordsOf(p)] + LowHalf(p)
  PROVE  /\ t \in Nat
         /\ ip_hdr_checksum(p) = 0 <=> Leaves(Greatest, t, Greatest)
<1>1. t \in Nat /\ Leaves(Greatest, t, folded(t)) /\ ip_hdr_checksum(p) = Greatest - folded(t)
  BY ChecksumLeaves
<1>2. folded(t) \in 0..Greatest /\ Greatest \in Nat
  BY <1>1, WordsFacts DEF Leaves
<1>3. Leaves(Greatest, t, Greatest) => folded(t) = Greatest
  BY <1>1, <1>2, LeavesOne
<1>4. ip_hdr_checksum(p) = 0 <=> folded(t) = Greatest
  BY <1>1, <1>2
<1>5. QED
  BY <1>1, <1>3, <1>4

LEMMA DigitLess == \A c \in Int : c <= Base - 1 => c < Greatest
<1>1. Base \in Nat \ {0, 1} /\ (Base - 1) * Base < Greatest /\ Base - 1 <= (Base - 1) * Base
  <2>1. Base \in Nat \ {0, 1} /\ (Base - 1) * Base < Greatest
    BY WordsFacts
  <2>2. Base - 1 \in Nat /\ (Base - 1) * Base = (Base - 1) * (Base - 1) + (Base - 1)
        /\ (Base - 1) * (Base - 1) \in Nat
    BY <2>1
  <2>3. QED
    BY <2>1, <2>2
<1>2. Greatest \in Nat /\ (Base - 1) * Base \in Nat
  BY WordsFacts
<1>3. QED
  BY <1>1, <1>2

\* A changed byte is noticed.
LEMMA DamageNoticed ==
  ASSUME NEW p \in AllBytes, Short(p), ip_hdr_checksum(p) = 0, NEW q \in Damaged(p)
  PROVE  ip_hdr_checksum(q) # 0
<1>1. PICK i \in DOMAIN p, b \in Byte : q = [p EXCEPT ![i] = b] /\ q # p
  BY DEF Damaged
<1>2. /\ Len(p) \in Nat /\ DOMAIN p = 1..Len(p) /\ i \in 1..Len(p)
      /\ \A k \in 1..Len(p) : p[k] \in Byte
  BY DEF AllBytes
<1>3. /\ q \in AllBytes /\ Len(q) = Len(p) /\ q[i] = b
      /\ \A k \in 1..Len(p) : k # i => q[k] = p[k]
  BY <1>1 DEF AllBytes
<1>4. b # p[i]
  <2> SUFFICES ASSUME b = p[i] PROVE FALSE
    OBVIOUS
  <2>1. q = p
    BY <1>1, <1>2 DEF AllBytes
  <2>2. QED
    BY <2>1, <1>1
<1>5. WordsOf(q) = WordsOf(p) /\ Short(q) /\ (Odd(q) <=> Odd(p))
  BY <1>3 DEF WordsOf, Short, Odd
<1>6. PICK f : Sums(f, p)
  BY SumsExist
<1>7. PICK g : Sums(g, q)
  BY <1>3, SumsExist
<1> DEFINE m == WordsOf(p)
           c == b - p[i]
           s == f[m] + LowHalf(p)
           t == g[m] + LowHalf(q)
<1>8. m \in Nat /\ (Len(p) = 2 * m \/ (Odd(p) /\ Len(p) = 2 * m + 1)) /\ f[m] \in Nat /\ g[m] \in Nat
  <2>1. m \in Nat /\ (Len(p) = 2 * m \/ (Odd(p) /\ Len(p) = 2 * m + 1)) /\ m \in 0..m
    <3>1. \A x \in Nat : /\ x \div 2 \in Nat
                         /\ x = 2 * (x \div 2) \/ (x % 2 = 1 /\ x = 2 * (x \div 2) + 1)
      OBVIOUS
    <3>2. m = Len(p) \div 2 /\ (Odd(p) <=> Len(p) % 2 = 1)
      BY DEF WordsOf, Odd
    <3> HIDE DEF m
    <3>3. PICK x \in Nat : x = Len(p)
      BY <1>2
    <3>4. m = x \div 2 /\ (Odd(p) <=> x % 2 = 1)
      BY <3>2, <3>3
    <3>5. m \in Nat /\ (x = 2 * m \/ (x % 2 = 1 /\ x = 2 * m + 1))
      BY <3>1, <3>4
    <3>6. QED
      BY <3>3, <3>4, <3>5
  <2>2. f \in [0..m -> Nat] /\ g \in [0..m -> Nat]
    BY <1>5, <1>6, <1>7 DEF Sums
  <2> HIDE DEF m
  <2>3. QED
    BY <2>1, <2>2
<1>9. c \in Int /\ c # 0 /\ p[i] \in 0..Base-1 /\ b \in 0..Base-1 /\ Base \in Nat \ {0, 1}
  BY <1>2, <1>4, WordsFacts DEF Byte
<1>10. LowHalf(p) \in Int /\ LowHalf(q) \in Int
  BY <1>3, LowHalfIs, WordsFacts DEF Byte
<1>11. \A k \in 1..m : /\ 2*k - 1 \in 1..Len(p) /\ 2*k \in 1..Len(p)
                       /\ Word(p, 2*k - 1) = p[2*k - 1] * Base + p[2*k]
                       /\ Word(q, 2*k - 1) = q[2*k - 1] * Base + q[2*k]
                       /\ p[2*k - 1] \in Nat /\ p[2*k] \in Nat
  BY <1>3, <1>5, WordIs, WordsFacts DEF Byte
<1>12. Len(p) \in 1..Len(p) /\ Last(p) = p[Len(p)] /\ Last(q) = q[Len(p)]
  BY <1>2, <1>3 DEF Last
<1> HIDE DEF m, c
<1> DEFINE Near == t # s /\ t - s < Greatest /\ s - t < Greatest
<1>13. ASSUME \E j \in 1..m : i = 2*j - 1 PROVE Near
  <2>1. PICK j \in 1..m : i = 2*j - 1
    BY <1>13
  <2>2. c * Base \in Int
    BY <1>9
  <2>3. \A k \in 1..m : Word(q, 2*k - 1) = Word(p, 2*k - 1) + (IF k = j THEN c * Base ELSE 0)
    <3> TAKE k \in 1..m
    <3>1. CASE k = j
      <4>1. q[2*k - 1] = b /\ q[2*k] = p[2*k] /\ p[2*k - 1] = p[i]
        <5>1. 2*k - 1 = i /\ 2*k # i
          BY <1>8, <2>1, <3>1
        <5>2. QED
          BY <1>3, <1>11, <5>1
      <4>2. b * Base = p[i] * Base + c * Base /\ p[i] * Base \in Int
        BY <1>9 DEF c
      <4>3. QED
        BY <1>11, <2>2, <3>1, <4>1, <4>2
    <3>2. CASE k # j
      <4>1. q[2*k - 1] = p[2*k - 1] /\ q[2*k] = p[2*k]
        <5>1. 2*k - 1 # i /\ 2*k # i
          BY <1>8, <2>1, <3>2
        <5>2. QED
          BY <1>3, <1>11, <5>1
      <4>2. Word(p, 2*k - 1) \in Int
        BY WordIs, WordsFacts DEF m
      <4>3. QED
        BY <1>11, <3>2, <4>1, <4>2
    <3>3. QED
      BY <3>1, <3>2
  <2>4. j \in Nat \ {0} /\ j <= m
    BY <1>8
  <2>5. g[m] = f[m] + c * Base
    <3>1. PICK delta \in Int : delta = c * Base
      BY <2>2
    <3>2. Differ(p, q, j, delta)
      BY <1>5, <2>3, <3>1 DEF m, Differ
    <3>3. g[WordsOf(p)] = f[WordsOf(p)] + (IF j <= WordsOf(p) THEN delta ELSE 0)
      BY <1>3, <1>6, <1>7, <2>4, <3>2, SumsChange
    <3>4. QED
      BY <2>4, <3>1, <3>3 DEF m
  <2>6. LowHalf(q) = LowHalf(p)
    <3>1. Odd(p) => Len(p) # i
      BY <1>8, <2>1, <2>4 DEF Odd
    <3>2. QED
      BY <3>1, <1>3, <1>5, <1>12 DEF LowHalf
  <2>7. c * Base < Greatest /\ -(c * Base) < Greatest /\ c * Base # 0
    <3>1. c <= Base - 1 /\ -c <= Base - 1
      BY <1>9 DEF c
    <3>2. c * Base <= (Base - 1) * Base /\ (-c) * Base <= (Base - 1) * Base /\ (-c) * Base = -(c * Base)
      BY <3>1, <1>9
    <3>3. c * Base # 0
      BY <1>9
    <3>4. QED
      BY <3>2, <3>3, <2>2, WordsFacts
  <2>8. t - s = c * Base /\ s - t = -(c * Base) /\ s \in Int /\ t \in Int
    BY <1>8, <1>10, <2>2, <2>5, <2>6
  <2>9. t # s
    BY <2>2, <2>7, <2>8
  <2> HIDE DEF s, t
  <2>10. QED
    BY <2>7, <2>8, <2>9
<1>14. ASSUME \E j \in 1..m : i = 2*j PROVE Near
  <2>1. PICK j \in 1..m : i = 2*j
    BY <1>14
  <2>2. \A k \in 1..m : Word(q, 2*k - 1) = Word(p, 2*k - 1) + (IF k = j THEN c ELSE 0)
    <3> TAKE k \in 1..m
    <3>1. p[2*k - 1] * Base \in Int
      BY <1>9, <1>11
    <3>2. CASE k = j
      <4>1. q[2*k] = b /\ q[2*k - 1] = p[2*k - 1] /\ p[2*k] = p[i]
        <5>1. 2*k = i /\ 2*k - 1 # i
          BY <1>8, <2>1, <3>2
        <5>2. QED
          BY <1>3, <1>11, <5>1
      <4>2. b = p[i] + c
        BY <1>9 DEF c
      <4>3. /\ Word(q, 2*k - 1) = p[2*k - 1] * Base + (p[i] + c)
            /\ Word(p, 2*k - 1) = p[2*k - 1] * Base + p[i]
        BY <1>11, <4>1, <4>2
      <4>4. p[i] \in Int
        BY <1>9
      <4> QED
        BY <1>9, <3>1, <3>2, <4>3, <4>4
    <3>3. CASE k # j
      <4>1. q[2*k - 1] = p[2*k - 1] /\ q[2*k] = p[2*k]
        <5>1. 2*k - 1 # i /\ 2*k # i
          BY <1>8, <2>1, <3>3
        <5>2. QED
          BY <1>3, <1>11, <5>1
      <4>2. Word(p, 2*k - 1) \in Int
        BY WordIs, WordsFacts DEF m
      <4>3. QED
        BY <1>11, <3>3, <4>1, <4>2
    <3>4. QED
      BY <3>2, <3>3
  <2>3. j \in Nat \ {0} /\ j <= m
    BY <1>8
  <2>4. g[m] = f[m] + c
    <3>1. Differ(p, q, j, c)
      BY <1>5, <2>2 DEF m, Differ
    <3>2. g[WordsOf(p)] = f[WordsOf(p)] + (IF j <= WordsOf(p) THEN c ELSE 0)
      BY <1>3, <1>6, <1>7, <1>9, <2>3, <3>1, SumsChange
    <3>3. QED
      BY <2>3, <3>2 DEF m
  <2>5. LowHalf(q) = LowHalf(p)
    <3>1. Odd(p) => Len(p) # i
      BY <1>8, <2>1, <2>3 DEF Odd
    <3>2. QED
      BY <3>1, <1>3, <1>5, <1>12 DEF LowHalf
  <2>6. c < Greatest /\ -c < Greatest
    <3>1. c <= Base - 1 /\ -c <= Base - 1
      BY <1>9 DEF c
    <3>2. QED
      BY <3>1, <1>9, DigitLess
  <2>7. t - s = c /\ s - t = -c /\ s \in Int /\ t \in Int
    BY <1>8, <1>9, <1>10, <2>4, <2>5
  <2>8. t # s
    BY <1>9, <2>7
  <2> HIDE DEF s, t
  <2>9. QED
    BY <2>6, <2>7, <2>8
<1>15. ASSUME Odd(p), i = Len(p) PROVE Near
  <2>1. Len(p) = 2 * m + 1
    BY <1>8, <1>15 DEF Odd
  <2>2. \A k \in 1..m : Word(q, 2*k - 1) = Word(p, 2*k - 1) + (IF k = m + 1 THEN 0 ELSE 0)
    <3> TAKE k \in 1..m
    <3>1. q[2*k - 1] = p[2*k - 1] /\ q[2*k] = p[2*k]
      BY <1>3, <1>8, <1>11, <1>15, <2>1
    <3>2. Word(p, 2*k - 1) \in Int
      BY WordIs, WordsFacts DEF m
    <3>3. QED
      BY <1>11, <3>1, <3>2
  <2>3. m + 1 \in Nat \ {0} /\ ~(m + 1 <= m)
    BY <1>8
  <2>4. g[m] = f[m] + 0
    <3>1. Differ(p, q, m + 1, 0)
      BY <1>5, <2>2 DEF m, Differ
    <3>2. g[WordsOf(p)] = f[WordsOf(p)] + (IF m + 1 <= WordsOf(p) THEN 0 ELSE 0)
      BY <1>3, <1>6, <1>7, <2>3, <3>1, SumsChange
    <3>3. QED
      BY <2>3, <3>2 DEF m
  <2>5. LowHalf(p) = p[i] /\ LowHalf(q) = b
    BY <1>3, <1>5, <1>12, <1>15 DEF LowHalf
  <2>6. c < Greatest /\ -c < Greatest
    <3>1. c <= Base - 1 /\ -c <= Base - 1
      BY <1>9 DEF c
    <3>2. QED
      BY <3>1, <1>9, DigitLess
  <2>7. g[m] = f[m] /\ s = f[m] + p[i] /\ t = g[m] + b
    BY <1>8, <2>4, <2>5
  <2>8. t - s = c /\ s - t = -c /\ s \in Int /\ t \in Int
    BY <1>8, <1>9, <2>7 DEF c
  <2>9. t # s
    BY <1>9, <2>8
  <2> HIDE DEF s, t
  <2>10. QED
    BY <2>6, <2>8, <2>9
<1>16. Near
  <2>1. i \in Nat /\ i >= 1 /\ i <= Len(p)
    BY <1>2
  <2>2. CASE i % 2 = 1 /\ i < 2 * m + 1
    <3>1. (i + 1) \div 2 \in 1..m /\ i = 2 * ((i + 1) \div 2) - 1
      <4>1. \A x \in Nat : x % 2 = 1 => x = 2 * ((x + 1) \div 2) - 1 /\ (x + 1) \div 2 \in Nat
        OBVIOUS
      <4>2. PICK y \in Nat : y = (i + 1) \div 2 /\ i = 2 * y - 1
        BY <2>1, <2>2, <4>1
      <4>3. 2 * y - 1 < 2 * m + 1 /\ 2 * y - 1 >= 1 /\ m \in Nat
        BY <1>8, <2>1, <2>2, <4>2
      <4> HIDE DEF m
      <4>5. y >= 1 /\ y <= m
        BY <4>3
      <4>4. QED
        BY <1>8, <4>2, <4>5
    <3>2. QED
      BY <3>1, <1>13
  <2>3. CASE i % 2 = 0
    <3>1. i \div 2 \in 1..m /\ i = 2 * (i \div 2)
      BY <1>8, <2>1, <2>3
    <3>2. QED
      BY <3>1, <1>14
  <2>4. CASE i % 2 = 1 /\ i >= 2 * m + 1
    <3>1. Odd(p) /\ i = Len(p)
      BY <1>8, <2>1, <2>4
    <3>2. QED
      BY <3>1, <1>15
  <2>5. QED
    BY <1>8, <2>1, <2>2, <2>3, <2>4
<1>17. s \in Nat /\ Leaves(Greatest, s, Greatest)
  BY <1>6, TakenIf DEF m
<1>18. t \in Nat /\ (ip_hdr_checksum(q) = 0 <=> Leaves(Greatest, t, Greatest))
  BY <1>3, <1>5, <1>7, TakenIf DEF m
<1> HIDE DEF s, t
<1>19. ~Leaves(Greatest, t, Greatest)
  <2> SUFFICES ASSUME Leaves(Greatest, t, Greatest) PROVE FALSE
    OBVIOUS
  <2>1. Greatest \in Nat
    BY WordsFacts
  <2>2. s < t => t - s >= Greatest
    BY <1>17, <2>1, LeavesApart
  <2>3. t < s => s - t >= Greatest
    BY <1>17, <2>1, LeavesApart
  <2>4. QED
    BY <1>16, <1>17, <1>18, <2>1, <2>2, <2>3
<1>20. QED
  BY <1>18, <1>19

-----------------------------------------------------------------------------
(* The checksum: packets that are sent                                      *)

\* A packet with a check field of 0, and with one of w.
LEMMA SealedIs ==
  ASSUME NEW d \in Data, NEW w \in 0..Greatest
  PROVE  LET z == <<0, 0>> \o d
             p == Sealed(d, w)
         IN  /\ z \in AllBytes /\ p \in AllBytes /\ Short(z) /\ Short(p)
             /\ Differ(z, p, 1, w) /\ 1 <= WordsOf(z)
             /\ WordsOf(p) = WordsOf(z)
             /\ Odd(z) <=> Odd(d)
             /\ LowHalf(p) = LowHalf(z)
             /\ Odd(d) => Last(z) = Last(d) /\ LowHalf(p) = Last(d)
             /\ ~Odd(d) => LowHalf(p) = 0
             /\ Last(d) \in Byte
<1> DEFINE z == <<0, 0>> \o d
           top == w \div Base
           low == w % Base
           p == Sealed(d, w)
<1>1. /\ d \in Seq(Byte) /\ d # <<>> /\ Len(d) < 2 * WordValues - 2
      /\ Len(d) \in Nat /\ Len(d) >= 1 /\ d[Len(d)] \in Byte
  BY ChecksumAssumption
<1>2. Base \in Nat \ {0, 1} /\ WordValues \in Nat /\ Greatest \in Nat
  BY WordsFacts
<1>3. top \in Byte /\ low \in Byte /\ 0 \in Byte /\ top * Base + low = w /\ w \in Nat
  <2>1. w \in Nat /\ w < Base * Base
    BY <1>2 DEF Greatest, WordValues
  <2>2. top \in Nat /\ low \in 0..Base-1 /\ w = top * Base + low /\ top < Base
    BY <1>2, <2>1, Division
  <2> HIDE DEF top, low
  <2>3. QED
    BY <1>2, <2>1, <2>2 DEF Byte
<1> HIDE DEF top, low
<1>4. p = <<top, low>> \o d
  BY DEF Sealed, top, low
<1>5. \A a \in Byte, b \in Byte :
        /\ <<a, b>> \o d \in Seq(Byte) /\ Len(<<a, b>> \o d) = Len(d) + 2
        /\ (<<a, b>> \o d)[1] = a /\ (<<a, b>> \o d)[2] = b
        /\ \A i \in 3..Len(d)+2 : (<<a, b>> \o d)[i] = d[i-2]
  <2> TAKE a \in Byte, b \in Byte
  <2>1. <<a, b>> \in Seq(Byte) /\ Len(<<a, b>>) = 2 /\ <<a, b>>[1] = a /\ <<a, b>>[2] = b
    OBVIOUS
  <2>2. /\ <<a, b>> \o d \in Seq(Byte) /\ Len(<<a, b>> \o d) = Len(<<a, b>>) + Len(d)
        /\ \A i \in 1..Len(<<a, b>>) : (<<a, b>> \o d)[i] = <<a, b>>[i]
        /\ \A i \in 1..Len(d) : (<<a, b>> \o d)[Len(<<a, b>>) + i] = d[i]
    BY <1>1, <2>1, ConcatFacts
  <2>3. ASSUME NEW i \in 3..Len(d)+2 PROVE (<<a, b>> \o d)[i] = d[i-2]
    <3>1. i - 2 \in 1..Len(d) /\ Len(<<a, b>>) + (i - 2) = i
      BY <1>1, <2>1
    <3>2. QED
      BY <2>2, <3>1
  <2>4. QED
    BY <1>1, <2>1, <2>2, <2>3
<1>6. /\ z \in Seq(Byte) /\ Len(z) = Len(d) + 2 /\ z[1] = 0 /\ z[2] = 0
      /\ \A i \in 3..Len(d)+2 : z[i] = d[i-2]
  BY <1>3, <1>5
<1>7. /\ p \in Seq(Byte) /\ Len(p) = Len(d) + 2 /\ p[1] = top /\ p[2] = low
      /\ \A i \in 3..Len(d)+2 : p[i] = d[i-2]
  BY <1>3, <1>4, <1>5
<1> HIDE DEF z, p
<1>8. /\ z \in AllBytes /\ p \in AllBytes /\ Short(z) /\ Short(p)
      /\ WordsOf(p) = WordsOf(z)
  BY <1>1, <1>2, <1>6, <1>7 DEF AllBytes, Short, WordsOf
<1>9. (Odd(z) <=> Odd(d)) /\ (Odd(p) <=> Odd(d))
  BY <1>1, <1>6, <1>7 DEF Odd
<1>10. Last(z) = Last(d) /\ Last(p) = Last(d) /\ Last(d) \in Byte
  <2>1. Len(d) + 2 \in 3..Len(d)+2 /\ (Len(d) + 2) - 2 = Len(d)
    BY <1>1
  <2>2. QED
    BY <2>1, <1>1, <1>6, <1>7 DEF Last
<1>11. WordsOf(z) \in Nat /\ 1 <= WordsOf(z)
  BY <1>1, <1>6 DEF WordsOf
<1>12. ASSUME NEW i \in 1..WordsOf(z)
       PROVE  Word(p, 2*i - 1) = Word(z, 2*i - 1) + (IF i = 1 THEN w ELSE 0)
  <2>1. Word(z, 2*i - 1) = z[2*i - 1] * Base + z[2*i] /\ Word(z, 2*i - 1) \in Int
        /\ 2*i \in 1..Len(z)
    BY <1>2, <1>8, WordIs
  <2>2. Word(p, 2*i - 1) = p[2*i - 1] * Base + p[2*i]
    BY <1>8, WordIs
  <2>3. CASE i = 1
    <3>1. 2*i - 1 = 1 /\ 2*i = 2
      BY <2>3
    <3>2. Word(z, 2*i - 1) = 0 * Base + 0 /\ Word(p, 2*i - 1) = top * Base + low
      BY <2>1, <2>2, <3>1, <1>6, <1>7
    <3>3. 0 * Base + 0 = 0
      BY <1>2
    <3>4. QED
      BY <1>3, <2>3, <3>2, <3>3
  <2>4. CASE i # 1
    <3>1. 2*i - 1 \in 3..Len(d)+2 /\ 2*i \in 3..Len(d)+2
      BY <1>1, <1>6, <1>11, <2>1, <2>4
    <3>2. p[2*i - 1] = z[2*i - 1] /\ p[2*i] = z[2*i]
      BY <3>1, <1>6, <1>7
    <3>3. QED
      BY <2>1, <2>2, <2>4, <3>2
  <2>5. QED
    BY <2>3, <2>4
<1>13. Differ(z, p, 1, w)
  BY <1>8, <1>12 DEF Differ
<1>14. LowHalf(p) = LowHalf(z) /\ (Odd(d) => LowHalf(p) = Last(d)) /\ (~Odd(d) => LowHalf(p) = 0)
  BY <1>9, <1>10 DEF LowHalf
<1>15. QED
  BY <1>8, <1>9, <1>10, <1>11, <1>13, <1>14 DEF z, p

\* The sum of a sealed packet is that of its words before, with the checksum.
LEMMA SealedSums ==
  ASSUME NEW d \in Data, NEW w \in 0..Greatest, NEW f, Sums(f, <<0, 0>> \o d)
  PROVE  /\ ip_hdr_checksum(Sealed(d, w)) = 0
              <=> Leaves(Greatest, (f[WordsOf(<<0, 0>> \o d)] + w) + (IF Odd(d) THEN Last(d) ELSE 0), Greatest)
         /\ f[WordsOf(<<0, 0>> \o d)] \in Nat
<1> DEFINE z == <<0, 0>> \o d
           p == Sealed(d, w)
<1>1. /\ z \in AllBytes /\ p \in AllBytes /\ Short(z) /\ Short(p)
      /\ Differ(z, p, 1, w) /\ 1 <= WordsOf(z) /\ WordsOf(p) = WordsOf(z)
      /\ LowHalf(p) = IF Odd(d) THEN Last(d) ELSE 0
  BY SealedIs
<1> HIDE DEF z, p
<1>2. Sums(f, z)
  BY DEF z
<1>3. PICK g : Sums(g, p)
  BY <1>1, SumsExist
<1>4. w \in Int /\ 1 \in Nat \ {0}
  BY WordsFacts
<1>5. g[WordsOf(z)] = f[WordsOf(z)] + w
  BY <1>1, <1>2, <1>3, <1>4, SumsChange
<1>6. ip_hdr_checksum(p) = 0 <=> Leaves(Greatest, g[WordsOf(p)] + LowHalf(p), Greatest)
  BY <1>1, <1>3, TakenIf
<1>7. f[WordsOf(z)] \in Nat
  <2>1. WordsOf(z) \in 0..WordsOf(z)
    BY <1>1 DEF AllBytes, WordsOf
  <2>2. QED
    BY <1>2, <2>1 DEF Sums
<1>8. QED
  BY <1>1, <1>5, <1>6, <1>7 DEF z, p

\* The kernel takes what it sends.
LEMMA TakesItsOwn ==
  ASSUME NEW d \in Data
  PROVE  /\ ip_hdr_checksum(<<0, 0>> \o d) \in 0..Greatest
         /\ ip_hdr_checksum(SentHere(d)) = 0
<1> DEFINE z == <<0, 0>> \o d
<1>1. z \in AllBytes /\ Short(z) /\ (LowHalf(z) = IF Odd(d) THEN Last(d) ELSE 0) /\ Last(d) \in Byte
  <2>1. 0 \in 0..Greatest
    BY WordsFacts
  <2>2. QED
    BY <2>1, SealedIs
<1> HIDE DEF z
<1>2. PICK f : Sums(f, z)
  BY <1>1, SumsExist
<1> DEFINE s == f[WordsOf(z)] + LowHalf(z)
           w == Greatest - folded(s)
<1>3. Leaves(Greatest, s, folded(s)) /\ ip_hdr_checksum(z) = w
  BY <1>1, <1>2, ChecksumLeaves
<1>4. w \in 0..Greatest /\ Leaves(Greatest, s + w, Greatest)
  BY <1>3, Completed
<1>5. /\ ip_hdr_checksum(Sealed(d, w)) = 0 <=>
            Leaves(Greatest, (f[WordsOf(z)] + w) + (IF Odd(d) THEN Last(d) ELSE 0), Greatest)
      /\ f[WordsOf(z)] \in Nat
  <2> HIDE DEF w
  <2>1. QED
    BY <1>2, <1>4, SealedSums DEF z
<1>6. LowHalf(z) \in Nat /\ w \in Nat
  BY <1>1, <1>4, LowHalfIs, WordsFacts DEF Byte
<1>7. s + w = (f[WordsOf(z)] + w) + LowHalf(z)
  <2> HIDE DEF w
  <2>1. QED
    BY <1>5, <1>6
<1> HIDE DEF w, s
<1>8. ip_hdr_checksum(Sealed(d, w)) = 0
  BY <1>1, <1>4, <1>5, <1>7
<1>9. SentHere(d) = Sealed(d, w)
  BY <1>3 DEF SentHere, z
<1>10. QED
  BY <1>3, <1>4, <1>8, <1>9 DEF z

\* It takes what another host sends but for the last byte of an odd number.
LEMMA TakesOthers ==
  ASSUME NEW d \in Data
  PROVE  /\ Complement(OnesSum(<<0, 0>> \o d)) \in 0..Greatest
         /\ ip_hdr_checksum(SentThere(d)) = 0 <=> ~Odd(d) \/ Last(d) = 0
         /\ ~Odd(d) => ip_hdr_checksum(<<0, 0>> \o d) = Complement(OnesSum(<<0, 0>> \o d))
<1> DEFINE z == <<0, 0>> \o d
<1>1. /\ z \in AllBytes /\ Short(z) /\ (Odd(z) <=> Odd(d)) /\ Last(d) \in Byte
      /\ (Odd(d) => Last(z) = Last(d)) /\ (~Odd(d) => LowHalf(z) = 0)
  <2>1. 0 \in 0..Greatest
    BY WordsFacts
  <2>2. QED
    BY <2>1, SealedIs
<1> HIDE DEF z
<1>2. PICK f : Sums(f, z)
  BY <1>1, SumsExist
<1> DEFINE y == OnesSum(z)
           w == Greatest - y
           F == f[WordsOf(z)]
<1>3. PICK h : /\ Sums(h, Padded(z))
               /\ h[WordsOf(Padded(z))] = F + (IF Odd(z) THEN Last(z) * Base ELSE 0)
  BY <1>1, <1>2, PaddedSums
<1>4. Padded(z) \in AllBytes
  BY <1>1, <1>2, PaddedSums
<1>5. Leaves(Greatest, F + (IF Odd(d) THEN Last(d) * Base ELSE 0), y)
  <2>1. Leaves(Greatest, h[WordsOf(Padded(z))], y)
    BY <1>3, <1>4, OnesSumLeaves
  <2>2. QED
    BY <1>1, <1>3, <2>1
<1> DEFINE tail == IF Odd(d) THEN Last(d) * Base ELSE 0
<1>6. w \in 0..Greatest /\ Leaves(Greatest, (F + tail) + w, Greatest)
  BY <1>5, Completed
<1> HIDE DEF y
<1>7. /\ ip_hdr_checksum(Sealed(d, w)) = 0 <=>
            Leaves(Greatest, (F + w) + (IF Odd(d) THEN Last(d) ELSE 0), Greatest)
      /\ F \in Nat
  <2> HIDE DEF w
  <2>1. QED
    BY <1>2, <1>6, SealedSums DEF z
<1>8. SentThere(d) = Sealed(d, w) /\ Complement(y) = w
  BY DEF SentThere, Complement, Greatest, y, z
<1> HIDE DEF F, w
<1>9. CASE ~Odd(d)
  <2>1. (F + tail) + w = (F + w) + 0 /\ F + 0 = F
    BY <1>6, <1>7, <1>9
  <2>2. ip_hdr_checksum(SentThere(d)) = 0
    BY <1>6, <1>7, <1>8, <1>9, <2>1
  <2>3. Leaves(Greatest, F, y)
    BY <1>5, <1>9, <2>1
  <2>4. Leaves(Greatest, F, folded(F)) /\ ip_hdr_checksum(z) = Greatest - folded(F)
    <3>1. F + LowHalf(z) = F
      BY <1>1, <1>9, <2>1
    <3>2. QED
      BY <1>1, <1>2, <3>1, ChecksumLeaves DEF F
  <2>5. folded(F) = y
    BY <2>3, <2>4, WordsFacts, LeavesOne
  <2>6. QED
    BY <1>6, <1>8, <1>9, <2>2, <2>4, <2>5 DEF w, y, z
<1>10. CASE Odd(d)
  <2> DEFINE a == Last(d)
             t == (F + a * Base) + w
             s == (F + w) + a
  <2>1. a \in Nat /\ a <= Base - 1 /\ Base \in Nat \ {0, 1} /\ a * Base \in Nat /\ w \in Nat
        /\ Greatest \in Nat
    BY <1>1, <1>6, WordsFacts DEF Byte
  <2> HIDE DEF a
  <2>2. Leaves(Greatest, t, Greatest) /\ (ip_hdr_checksum(SentThere(d)) = 0 <=> Leaves(Greatest, s, Greatest))
    BY <1>6, <1>7, <1>8, <1>10 DEF a
  <2>3. CASE a = 0
    <3>1. s = t
      BY <1>7, <2>1, <2>3
    <3>2. QED
      BY <2>2, <2>3, <3>1, <1>6, <1>8, <1>10 DEF a, y, z
  <2>4. CASE a # 0
    <3>1. s < t /\ t - s < Greatest
      <4>1. t - s = a * Base - a
        BY <1>7, <2>1
      <4>2. a * Base <= (Base - 1) * Base
        BY <2>1
      <4>3. a * Base >= 2 * a
        BY <2>1
      <4>4. QED
        BY <1>7, <2>1, <2>4, <4>1, <4>2, <4>3, WordsFacts
    <3> HIDE DEF s, t
    <3>2. ~Leaves(Greatest, s, Greatest)
      <4> SUFFICES ASSUME Leaves(Greatest, s, Greatest) PROVE FALSE
        OBVIOUS
      <4>1. t - s >= Greatest
        BY <2>1, <2>2, <3>1, LeavesApart
      <4>2. t \in Nat /\ s \in Nat
        BY <2>2 DEF Leaves
      <4>3. QED
        BY <2>1, <3>1, <4>1, <4>2
    <3>3. QED
      BY <2>2, <2>4, <3>2, <1>6, <1>8, <1>10 DEF a, y, z
  <2>5. QED
    BY <2>3, <2>4
<1>11. QED
  BY <1>9, <1>10 DEF z

\* The checksum of the kernel is that of RFC 1071 but for the last byte of an
\* odd number, and notices every changed byte.
LEMMA ChecksumIsRight == ChecksumRight
<1>1. \A d \in Data : \A w \in 0..Greatest : Sealed(d, w) \in AllBytes /\ Short(Sealed(d, w))
  BY SealedIs
<1>2. ASSUME NEW d \in Data, NEW p \in Damaged(SentHere(d))
      PROVE  ip_hdr_checksum(p) # 0
  <2>1. SentHere(d) \in AllBytes /\ Short(SentHere(d))
    BY <1>1, TakesItsOwn DEF SentHere
  <2>2. QED
    BY <2>1, TakesItsOwn, DamageNoticed
<1>3. ASSUME NEW d \in Data, ~Odd(d), NEW p \in Damaged(SentThere(d))
      PROVE  ip_hdr_checksum(p) # 0
  <2>1. SentThere(d) \in AllBytes /\ Short(SentThere(d))
    BY <1>1, TakesOthers DEF SentThere
  <2>2. QED
    BY <2>1, <1>3, TakesOthers, DamageNoticed
<1>4. FoldsEnough
  BY TakesOthers DEF FoldsEnough
<1>5. TakesIntact
  BY <1>2, <1>3, TakesItsOwn, TakesOthers DEF TakesIntact
<1>6. QED
  BY <1>4, <1>5 DEF ChecksumRight

-----------------------------------------------------------------------------
(* The verdict on received packets                                          *)

\* The checksum takes every intact packet but those of odd length of another
\* host.
LEMMA TakenIs == Taken[FALSE] = TRUE /\ Taken[TRUE] = FALSE
<1>1. Taken[FALSE] = TRUE
  <2>1. \A d \in Data : (Odd(d) /\ Last(d) # 0) = FALSE => ip_hdr_checksum(SentThere(d)) = 0
    BY TakesOthers
  <2>2. QED
    BY <2>1 DEF Taken
<1>2. Taken[TRUE] = FALSE
  <2>1. PICK d \in Data : Odd(d) /\ Last(d) # 0
    BY NetAssumption
  <2>2. ip_hdr_checksum(SentThere(d)) # 0
    BY <2>1, TakesOthers
  <2>3. ~(\A x \in Data : (Odd(x) /\ Last(x) # 0) = TRUE => ip_hdr_checksum(SentThere(x)) = 0)
    BY <2>1, <2>2
  <2>4. QED
    BY <2>3 DEF Taken
<1>3. QED
  BY <1>1, <1>2

\* What is answered is intact, and not one of the packets the checksum refuses.
Answered == out.answers \subseteq {[damaged |-> "no", odd |-> FALSE]}

LEMMA AnsweredInv == Answered /\ [Next]_vars => Answered'
<1> SUFFICES ASSUME Answered, [Next]_vars PROVE Answered'
  OBVIOUS
<1>1. Quiet => Answered'
  BY DEF Quiet, NoPacket, Answered
<1>2. (Nothing => Quiet) /\ (Panic => Quiet) /\ (Wild => Quiet)
  BY DEF Nothing, Panic, Wild
<1>3. ASSUME NEW p \in Packets, ip_rcv(p) PROVE Answered'
  <2>1. Quiet \/ (ChecksumHolds(p) /\ ip_send(p.source, p))
    BY <1>2, <1>3 DEF ip_rcv, icmp_rcv, udp_rcv
  <2>2. ASSUME ChecksumHolds(p), ip_send(p.source, p) PROVE Answered'
    <3>1. p.damaged = "no" /\ p.odd = FALSE
      BY <2>2 DEF ChecksumHolds, Packets
    <3>2. Quiet \/ out' = [dest |-> p.source, front |-> Found(p.source), back |-> Found(p.source),
                           answers |-> {[damaged |-> p.damaged, odd |-> p.odd]}]
      BY <1>2, <2>2 DEF ip_send
    <3>3. QED
      BY <1>1, <3>1, <3>2 DEF Answered
  <2>3. QED
    BY <1>1, <2>1, <2>2
<1>4. CASE reveice_callback
  <2>1. ASSUME NEW ip \in Hosts, NEW mac \in Macs, arp_rcv_reply(ip, mac) PROVE Quiet
    BY <1>2, <2>1 DEF arp_rcv_reply
  <2>2. arp_rcv_request => Quiet
    BY <1>2 DEF arp_rcv_request
  <2>3. QED
    BY <1>1, <1>3, <1>4, <2>1, <2>2 DEF reveice_callback
<1>5. CASE Boot
  <2>1. CASE Send
    BY <2>1 DEF Send, Answered
  <2>2. (TestZero => Quiet) /\ (TestLast => Quiet) /\ (Free => Quiet) /\ (NoMemory => Quiet)
    BY <1>2 DEF TestZero, TestLast, Free, NoMemory, Elsewhere
  <2>3. (TestSame => Quiet) /\ (Ask => Quiet) /\ (NextAddress => Quiet) /\ (Header => Quiet)
    BY <1>2 DEF TestSame, Ask, NextAddress, Header, Elsewhere
  <2>4. QED
    BY <1>1, <1>5, <2>1, <2>2, <2>3 DEF Boot
<1>6. CASE UNCHANGED vars
  BY <1>6 DEF vars, Answered
<1>7. QED
  BY <1>1, <1>4, <1>5, <1>6 DEF Next, Lose

\* The packets the kernel answers are those whose checksum holds: icmp_rcv and
\* udp_rcv take an intact packet of this kernel whatever its length, and of a
\* host that goes by RFC 1071 unless its length is odd and its last byte not
\* 0, and drop each with one changed byte.  Two foldings are enough for the
\* sum of any packet, of bytes of any size.
THEOREM SpecVerdictIsChecksum == Spec => []VerdictIsChecksum
<1>1. Init => Answered
  BY DEF Init, NoPacket, Answered
<1>2. Answered => VerdictIsChecksum
  <2> SUFFICES ASSUME Answered PROVE VerdictIsChecksum
    OBVIOUS
  <2>1. ASSUME NEW p \in Packets, p.damaged = "no" PROVE ChecksumHolds(p) = Taken[p.odd]
    <3>1. p.odd \in BOOLEAN
      BY DEF Packets
    <3>2. CASE p.odd = TRUE
      BY <2>1, <3>2, TakenIs DEF ChecksumHolds
    <3>3. CASE p.odd = FALSE
      BY <2>1, <3>3, TakenIs DEF ChecksumHolds
    <3>4. QED
      BY <3>1, <3>2, <3>3
  <2>2. \A answered \in out.answers : answered.damaged = "no" /\ answered.odd = FALSE
    BY DEF Answered
  <2>3. ASSUME NEW answered \in out.answers
        PROVE  answered.damaged = "no" /\ Taken[answered.odd]
    BY <2>2, <2>3, TakenIs
  <2>4. QED
    BY <2>1, <2>3, ChecksumIsRight DEF VerdictIsChecksum
<1>3. QED
  BY <1>1, <1>2, AnsweredInv, PTL DEF Spec

=============================================================================
