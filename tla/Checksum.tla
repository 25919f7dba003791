------------------------------- MODULE Checksum -------------------------------
(***************************************************************************)
(* The checksum of IP, ICMP and UDP (ip_hdr_checksum of net/ip.c) beside   *)
(* the one's complement sum of RFC 1071, by which other hosts go.          *)
(*                                                                         *)
(* Bytes are 0..Base-1 (Base is 256 in the code), so that a 16-bit word is *)
(* a number below WordValues, and the 32-bit sum is one below the square   *)
(* of that.                                                                *)
(***************************************************************************)
EXTENDS Integers, Sequences, SequencesExt

CONSTANTS
  Base,
  Data   \* the data of packets, sequences of bytes; the checksum goes before them

Byte == 0..Base-1

WordValues == Base * Base

ASSUME ChecksumAssumption ==
  /\ Base \in Nat \ {0, 1}
  /\ \A d \in Data : d \in Seq(Byte) /\ d # <<>> /\ Len(d) < 2 * WordValues - 2

\* htons of the word a little-endian processor loads from two bytes.
Word(p, i) == p[i] * Base + p[i+1]

Complement(w) == WordValues - 1 - w
Odd(p) == Len(p) % 2 = 1

-----------------------------------------------------------------------------
(* The reference: end-around carry at each step; the last byte of an odd    *)
(* number counts as the high half of a word.                                *)

OnesPlus(a, b) == IF a + b >= WordValues THEN a + b - (WordValues - 1) ELSE a + b

OnesSum(p) ==
  LET q == IF Odd(p) THEN Append(p, 0) ELSE p
      sum[i \in 0..Len(q) \div 2] == IF i = 0 THEN 0 ELSE OnesPlus(sum[i-1], Word(q, 2*i - 1))
  IN  sum[Len(q) \div 2]

-----------------------------------------------------------------------------
(* The code                                                                 *)

\* Mutant of folded: the carry of the first folding is lost.
foldedOnce(sum) == ((sum \div WordValues) + (sum % WordValues)) % WordValues

folded(sum) ==
  LET once == (sum \div WordValues) + (sum % WordValues)
  IN  (once + once \div WordValues) % WordValues

\* A sum has 32 bits.
Wrapped(sum) == sum % (WordValues * WordValues)

\* The last byte of an odd number is the low half of a word.
ip_hdr_checksum(p) ==
  LET words == Len(p) \div 2
      cksum[i \in 0..words] == IF i = 0 THEN 0 ELSE Wrapped(cksum[i-1] + Word(p, 2*i - 1))
  IN  Complement(folded(Wrapped(cksum[words] + (IF Odd(p) THEN Last(p) ELSE 0))))

\* A packet as it is sent: the checksum, computed over a check field of 0, is
\* stored in it.
Sealed(d, w) == <<w \div Base, w % Base>> \o d
SentHere(d) == Sealed(d, ip_hdr_checksum(<<0, 0>> \o d))
SentThere(d) == Sealed(d, Complement(OnesSum(<<0, 0>> \o d)))

Damaged(p) == {[p EXCEPT ![i] = b] : i \in DOMAIN p, b \in Byte} \ {p}

-----------------------------------------------------------------------------
(* Correctness                                                              *)

\* Two foldings are enough for every sum the loop can reach: for an even number
\* of bytes the result is the complement of the one's complement sum.
FoldsEnough ==
  \A d \in Data : ~Odd(d) => ip_hdr_checksum(<<0, 0>> \o d) = Complement(OnesSum(<<0, 0>> \o d))

\* The receiver takes an intact packet and drops one with a changed byte: a
\* packet of this kernel whatever its length, another host's if its length is
\* even.  An intact one of odd length from another host is taken only if its
\* last byte is 0, since the two count that byte differently.
TakesIntact ==
  \A d \in Data :
    /\ ip_hdr_checksum(SentHere(d)) = 0
    /\ \A p \in Damaged(SentHere(d)) : ip_hdr_checksum(p) # 0
    /\ ip_hdr_checksum(SentThere(d)) = 0 <=> ~Odd(d) \/ Last(d) = 0
    /\ \A p \in Damaged(SentThere(d)) : ~Odd(d) => ip_hdr_checksum(p) # 0

ChecksumRight == FoldsEnough /\ TakesIntact
===============================================================================
