------------------------------- MODULE NodeID -------------------------------
(***************************************************************************)
(* Node identifiers and the XOR metric of dht/routing.go.                  *)
(*                                                                         *)
(* The source keeps an identifier as 32 bytes and compares distances byte  *)
(* by byte, most significant first.  Comparing bytes in that order is      *)
(* comparing bits in that order, so an identifier is here a function from  *)
(* bit positions to bits, bit 1 being the top bit of byte 0.               *)
(***************************************************************************)
EXTENDS Integers

CONSTANT NumBits        \* 256 in the source

ASSUME NumBitsAssumption == NumBits \in Nat \ {0}

Bits == 1..NumBits

NodeIDs == [Bits -> {0, 1}]

XOR(id, other) == [b \in Bits |-> IF id[b] = other[b] THEN 0 ELSE 1]

\* id is strictly closer to target than other: the distances agree on every
\* bit above b and id's distance has the smaller bit b.
Less(id, other, target) ==
    LET distA == XOR(id, target)
        distB == XOR(other, target)
    IN  \E b \in Bits : /\ distA[b] < distB[b]
                        /\ \A c \in 1..(b - 1) : distA[c] = distB[c]

\* Bucket of other in the table of id: the number of leading bits they share,
\* and -1 when they are equal.  The variant numbers the bits from the wrong end
\* of the byte.
bucketIndex_LowBitFirst(id, other) ==
    LET xor == XOR(id, other)
    IN  IF \E b \in Bits : xor[b] # 0
        THEN CHOOSE i \in 0..(NumBits - 1) :
                /\ xor[NumBits - i] # 0
                /\ \A b \in (NumBits - i + 1)..NumBits : xor[b] = 0
        ELSE -1

bucketIndex(id, other) ==
    LET xor == XOR(id, other)
    IN  IF \E b \in Bits : xor[b] # 0
        THEN CHOOSE i \in 0..(NumBits - 1) :
                /\ xor[i + 1] # 0
                /\ \A b \in 1..i : xor[b] = 0
        ELSE -1
=============================================================================
