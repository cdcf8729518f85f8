--------------------------- MODULE OfficeNetworks ---------------------------
(***************************************************************************)
(* Whether an address lies in a network (OfficeLocationsService): 32-bit   *)
(* masks and shifts, here of any width.  Reading an address from its text  *)
(* is left out; None stands for one that is not IPv4.                      *)
(***************************************************************************)
EXTENDS Integers

CONSTANTS
    Width,   \* 32 in the code
    None

ASSUME WidthAssumption == Width \in Nat \ {0}

Bits == 0 .. Width - 1
Word == [Bits -> {0, 1}]    \* bit 0 counts for one

ASSUME NoneAssumption == None \notin Word

\* A network of a branch: one address, or a block of them.
Cidr == [range : Word \cup {None}, prefixLength : Int]

Ones == [i \in Bits |-> 1]
Zero == [i \in Bits |-> 0]
And(x, y) == [i \in Bits |-> IF x[i] = 1 THEN y[i] ELSE 0]

\* The operator << of JavaScript uses the low five bits of the count only.
ShiftLeft(x, count) ==
    LET n == count % Width
    IN  [i \in Bits |-> IF i < n THEN 0 ELSE x[i - n]]

\* Wrong on purpose (see the README on mutants): a count of 32 is taken for granted.
ShiftedMask(prefixLength) == ShiftLeft(Ones, Width - prefixLength)

Mask(prefixLength) ==
    IF prefixLength = 0 THEN Zero ELSE ShiftLeft(Ones, Width - prefixLength)

IsIpv4InsideCidr(ip, cidr) ==
    /\ ip # None /\ cidr.range # None
    /\ 0 <= cidr.prefixLength /\ cidr.prefixLength <= Width
    /\ And(ip, Mask(cidr.prefixLength)) = And(cidr.range, Mask(cidr.prefixLength))

-----------------------------------------------------------------------------
SameStart(ip, range, prefixLength) == \A i \in Bits : i >= Width - prefixLength => ip[i] = range[i]

\* An address lies in a block just when their first prefixLength bits are the same, the
\* block of all addresses and that of a single one included (findMatchingBranchNetwork).
CidrIsAPrefix ==
    \A ip \in Word, range \in Word, prefixLength \in 0 .. Width :
        IsIpv4InsideCidr(ip, [range |-> range, prefixLength |-> prefixLength])
            <=> SameStart(ip, range, prefixLength)
=============================================================================
