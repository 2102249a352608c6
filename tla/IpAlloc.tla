------------------------------ MODULE IpAlloc ------------------------------
(***************************************************************************)
(* daemon/ipalloc: the search for a free address of a subnet.  An address  *)
(* is a number of Width bits (32 in the code), a prefix a pair of an       *)
(* address, not necessarily the first of its block, and a length.  One     *)
(* step is one turn of the loop of Allocate.  Parsing, and the errors for  *)
(* IPv6 and malformed text, are left out: they return before the loop.     *)
(***************************************************************************)
EXTENDS Integers

CONSTANTS
    Width,      \* bits of an address
    Prefixes    \* the subnets Allocate may be called with

ASSUME WidthIsNatural == Width \in Nat

Pow2[n \in 0 .. Width] == IF n = 0 THEN 1 ELSE 2 * Pow2[n - 1]

NoAddr == -1    \* netip's zero Addr, which Next returns past the last address
Addresses == 0 .. Pow2[Width] - 1
Prefix == [addr : Addresses, bits : 0 .. Width]

ASSUME PrefixesAreValid == Prefixes \subseteq Prefix

VARIABLES
    prefix, taken, reserved,  \* the arguments
    candidate,                \* the address under consideration
    state                     \* "searching", "found" or "exhausted"

vars == <<prefix, taken, reserved, candidate, state>>

TypeOK ==
    /\ prefix \in Prefixes
    /\ taken \subseteq Addresses
    /\ reserved \subseteq Addresses
    /\ candidate \in Addresses \cup {NoAddr}
    /\ state \in {"searching", "found", "exhausted"}

-----------------------------------------------------------------------------
(* Address arithmetic of netip *)

BlockSize(p) == Pow2[Width - p.bits]
Contains(p, a) == a \div BlockSize(p) = p.addr \div BlockSize(p)

\* prefix.Masked().Addr(): the host bits cleared
Network(p) == p.addr - (p.addr % BlockSize(p))

\* Mutant of LastAddr: the addresses counted instead of the bits set.
BlockEnd(p) == Network(p) + BlockSize(p)
\* lastAddr: the host bits set
LastAddr(p) == Network(p) + BlockSize(p) - 1

\* Mutant of NextAddr: a number, wherever the address space ends.
AddrPlusOne(a) == a + 1
\* Addr.Next
NextAddr(a) == IF a + 1 \in Addresses THEN a + 1 ELSE NoAddr

\* Addr.Less: the zero Addr sorts before every address, as NoAddr does.
Less(a, b) == a < b

-----------------------------------------------------------------------------
(* Allocate *)

Occupied == taken \cup reserved

Init ==
    /\ prefix \in Prefixes
    /\ taken \in SUBSET Addresses
    /\ reserved \in {{}} \cup {{a} : a \in Addresses}   \* the server's own address or none
    /\ candidate = NextAddr(Network(prefix))
    /\ state = "searching"

\* Mutant of Skip: a candidate that is reserved is refused and not passed over.
SkipInPlace ==
    /\ state = "searching" /\ Less(candidate, LastAddr(prefix))
    /\ candidate \in Occupied
    /\ candidate' = IF candidate \in taken THEN NextAddr(candidate) ELSE candidate
    /\ UNCHANGED <<prefix, taken, reserved, state>>

Skip ==
    /\ state = "searching" /\ Less(candidate, LastAddr(prefix))
    /\ candidate \in Occupied
    /\ candidate' = NextAddr(candidate)
    /\ UNCHANGED <<prefix, taken, reserved, state>>

Found ==
    /\ state = "searching" /\ Less(candidate, LastAddr(prefix))
    /\ candidate \notin Occupied
    /\ state' = "found"
    /\ UNCHANGED <<prefix, taken, reserved, candidate>>

\* ErrSubnetExhausted
Exhausted ==
    /\ state = "searching" /\ ~Less(candidate, LastAddr(prefix))
    /\ state' = "exhausted"
    /\ UNCHANGED <<prefix, taken, reserved, candidate>>

Next == Skip \/ Found \/ Exhausted

\* The loop runs in the handler's goroutine and waits for nobody.
Spec == Init /\ [][Next]_vars /\ WF_vars(Next)

-----------------------------------------------------------------------------
(* What the caller counts on *)

\* The host addresses of a prefix: those it contains whose host bits are
\* neither all clear nor all set.
Hosts(p) ==
    {a \in Addresses : /\ Contains(p, a)
                       /\ a % BlockSize(p) \notin {0, BlockSize(p) - 1}}

\* 255.255.255.255/32 is the one subnet whose network address has no successor:
\* there Next gives the zero Addr, which is below the broadcast address and free,
\* and Allocate returns it as found.
HasSuccessor(p) == p.bits < Width \/ p.addr + 1 \in Addresses

\* Allocate returns the lowest free host address of the subnet, and says that
\* the subnet is exhausted only when it has none (TestAllocateTable), wherever
\* in its block the configured address lies and whatever else is taken.
LowestFreeOrNone ==
    HasSuccessor(prefix) =>
        /\ state = "found" =>
              /\ candidate \in Hosts(prefix) \ Occupied
              /\ \A a \in Hosts(prefix) \ Occupied : candidate <= a
        /\ state = "exhausted" => Hosts(prefix) \subseteq Occupied

\* The search of every subnet ends, one that is full and one that ends with the
\* address space included.
SearchEnds == <>(state # "searching")
=============================================================================
