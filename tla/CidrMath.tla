------------------------------- MODULE CidrMath -------------------------------
(***************************************************************************)
(* The arithmetic of address ranges in luci.ip (ip.c): IPv4 addresses are  *)
(* words, IPv6 and MAC addresses are bytes that are gone through one by    *)
(* one, with a carry or with the bits of the prefix that are left.         *)
(***************************************************************************)
EXTENDS Integers, SequencesExt

CONSTANTS ByteBits, \* bits of a byte
          Bytes     \* bytes of an address

ASSUME CidrAssumption == ByteBits \in Nat \ {0} /\ Bytes \in Nat \ {0}

VARIABLES
  family,  \* of the addresses: "ipv4" or another
  address, \* an address and its prefix length, or none
  operand, \* the other operand
  outcome  \* what an operation returned

cidrVars == <<family, address, operand, outcome>>

AfBits == ByteBits * Bytes
Highest == 2 ^ AfBits - 1
OneByte == 2 ^ ByteBits

\* Addresses are byte sequences; "ipv4" reads them as a word.
Addresses == [1..Bytes -> 0..(OneByte - 1)]
Number(a) == FoldLeft(LAMBDA n, b : n * OneByte + b, 0, a)
Bytewise(n) == [i \in 1..Bytes |-> (n \div OneByte ^ (Bytes - i)) % OneByte]

-----------------------------------------------------------------------------
(* _cidr_add_sub() *)

WordSum(a, b, add) ==
  IF add /\ Highest - a < b THEN [ok |-> FALSE, addr |-> Bytewise(Highest)]
  ELSE IF ~add /\ a < b THEN [ok |-> FALSE, addr |-> Bytewise(0)]
  ELSE [ok |-> TRUE, addr |-> Bytewise(IF add THEN a + b ELSE a - b)]

\* The carry into byte i from the right, or the borrow.
BorrowIgnored(carry, x, y) == IF x < y THEN 1 ELSE 0 \* mutant
BorrowOf(carry, x, y) == IF x < y + carry THEN 1 ELSE 0

ByteSum(a, b, add) ==
  LET carry[i \in 0..Bytes] == \* out of the last i bytes
        IF i = 0 THEN 0
        ELSE LET x == a[Bytes + 1 - i]  y == b[Bytes + 1 - i]
             IN IF add THEN (x + y + carry[i - 1]) \div OneByte ELSE BorrowOf(carry[i - 1], x, y)
      digit(k) == LET c == carry[Bytes - k] IN
        (IF add THEN a[k] + b[k] + c ELSE a[k] - b[k] - c) % OneByte
  IN IF carry[Bytes] > 0 THEN [ok |-> FALSE, addr |-> Bytewise(IF add THEN Highest ELSE 0)]
     ELSE [ok |-> TRUE, addr |-> [k \in 1..Bytes |-> digit(k)]]

AddSub(a, b, add) ==
  IF family = "ipv4" THEN WordSum(Number(a), Number(b), add) ELSE ByteSum(a, b, add)

-----------------------------------------------------------------------------
(* _apply_mask(): the bits behind the prefix, all zeros or (inv) all ones *)

Behind(n, bits, inv) == (n - (n % 2 ^ bits)) + (IF inv THEN 2 ^ bits - 1 ELSE 0)

NoneLeft(bits, i) == IF bits < ByteBits * i THEN 0 ELSE ByteBits \* mutant
\* The bits of the prefix in byte i.
PrefixBits(bits, i) ==
  LET left == bits - ByteBits * (i - 1) IN
  IF left > ByteBits THEN ByteBits ELSE IF left < 0 THEN 0 ELSE left

ApplyMask(a, bits, inv) ==
  IF bits <= 0 THEN Bytewise(IF inv THEN Highest ELSE 0)
  ELSE IF family = "ipv4" THEN Bytewise(Behind(Number(a), AfBits - bits, inv))
  ELSE [i \in 1..Bytes |-> Behind(a[i], ByteBits - PrefixBits(bits, i), inv)]

\* cidr_contains()
CidrContains(c, d) == c.bits <= d.bits /\ ApplyMask(c.addr, c.bits, FALSE) = ApplyMask(d.addr, c.bits, FALSE)

\* cidr_minhost() and cidr_maxhost(); other than in IPv4 there is no broadcast.
One == Bytewise(1)
MinHost(c) ==
  LET net == ApplyMask(c.addr, c.bits, FALSE) IN
  IF c.bits = AfBits THEN net
  ELSE IF family = "ipv4" THEN Bytewise((Number(net) + 1) % (Highest + 1))
  ELSE AddSub(net, One, TRUE).addr
MaxHost(c) ==
  LET last == ApplyMask(c.addr, c.bits, TRUE) IN
  IF family = "ipv4" /\ c.bits < AfBits THEN Bytewise((Number(last) - 1) % (Highest + 1)) ELSE last

-----------------------------------------------------------------------------
(* Calls *)

Cidrs == [addr : Addresses, bits : 0..AfBits]
NoOutcome == [of |-> "none"]

CidrInit ==
  /\ family \in {"ipv4", "other"}
  /\ address \in Cidrs
  /\ operand \in Cidrs
  /\ outcome = NoOutcome

Calls(result) ==
  /\ outcome = NoOutcome
  /\ outcome' = result
  /\ UNCHANGED <<family, address, operand>>

AddCall(add) ==
  LET sum == AddSub(address.addr, operand.addr, add) IN
  Calls([of |-> "sum", add |-> add, ok |-> sum.ok, number |-> Number(sum.addr)])

RangeCall ==
  Calls([of |-> "range",
         network |-> Number(ApplyMask(address.addr, address.bits, FALSE)),
         broadcast |-> Number(ApplyMask(address.addr, address.bits, TRUE)),
         minhost |-> Number(MinHost(address)), maxhost |-> Number(MaxHost(address)),
         contains |-> CidrContains(address, operand)])

CidrNext == RangeCall \/ \E add \in BOOLEAN : AddCall(add)
CidrSpec == CidrInit /\ [][CidrNext]_cidrVars

-----------------------------------------------------------------------------
(* Properties *)

\* Adding and subtracting give the exact result, or the highest or the lowest
\* address and the news that it did not fit, in every family.
AddedExactly ==
  outcome.of = "sum" =>
    LET exact == Number(address.addr) + IF outcome.add THEN Number(operand.addr) ELSE -Number(operand.addr)
        fits == exact \in 0..Highest
    IN /\ outcome.ok <=> fits
       /\ outcome.number = IF fits THEN exact ELSE IF outcome.add THEN Highest ELSE 0

\* The network, the broadcast address and what is contained agree: an operand
\* that is a range is contained if it lies between the two as a whole, and so are
\* the lowest and the highest host, in their order.  (An IPv4 range of two
\* addresses has none between network and broadcast; its hosts are the two, the
\* wrong way round.)
RangesAgree ==
  outcome.of = "range" =>
    LET size == 2 ^ (AfBits - operand.bits)
        first == (Number(operand.addr) \div size) * size
        inside == outcome.network <= first /\ first + size - 1 <= outcome.broadcast
    IN /\ outcome.network <= Number(address.addr) /\ Number(address.addr) <= outcome.broadcast
       /\ outcome.broadcast - outcome.network + 1 = 2 ^ (AfBits - address.bits)
       /\ outcome.contains <=> inside
       /\ {outcome.minhost, outcome.maxhost} \subseteq outcome.network..outcome.broadcast
       /\ (family = "ipv4" => address.bits # AfBits - 1) => outcome.minhost <= outcome.maxhost
=============================================================================
