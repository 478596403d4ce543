------------------------------ MODULE BsdPhys ------------------------------
(***************************************************************************)
(* decode_phys_addr of the 2.11BSD clock code: the physical address it     *)
(* shows for a virtual pc, from the processor status word and a bank of    *)
(* 16 registers of the memory management unit.                             *)
(***************************************************************************)
EXTENDS Integers

-----------------------------------------------------------------------------
(* The operators & and | of C, for numbers of up to 22 bits.               *)
Address == {n \in Nat : n < 4194304}

And[x \in Address] ==
  [y \in Address |->
     IF x = 0 \/ y = 0 THEN 0
     ELSE 2 * And[x \div 2][y \div 2] + (x % 2) * (y % 2)]

Or(x, y) == x + y - And[x][y]

-----------------------------------------------------------------------------
mode(ps) == (ps \div 16384) % 4      \* bits 14 and 15
segnum(pc) == (pc \div 8192) % 8     \* bits 13 to 15

(* Kernel mode has the first eight registers, supervisor and user mode     *)
(* share the others; mode 2 has none.                                      *)
AprIndex(pc, ps) == IF mode(ps) = 0 THEN segnum(pc) ELSE segnum(pc) + 8

OffsetMask(pc) == pc % 4096          \* & 07777
AprMask(base) == base % 32768        \* & 077777
PhysMask(addr) == addr % 2097152     \* & 07777777

(* Mutant: whatever the mode, the registers are the kernel's.              *)
decode_in_kernel(pc, ps, apr) ==
  IF mode(ps) = 2 THEN 0
  ELSE PhysMask(Or(AprMask(apr[segnum(pc)]) * 64, OffsetMask(pc)))

decode_phys_addr(pc, ps, apr) ==
  IF mode(ps) = 2 THEN 0
  ELSE PhysMask(Or(AprMask(apr[AprIndex(pc, ps)]) * 64, OffsetMask(pc)))

-----------------------------------------------------------------------------
(* What the comment on the function promises, and the hardware does: the   *)
(* page's base in units of 64 bytes plus the 13 bits of offset, 22 bits.   *)
Mmu(pc, base) == (base * 64 + (pc % 8192)) % 4194304

(* A base below 2 megabytes, and a pc in the lower half of its page whose  *)
(* offset shares no bit with the base: no mask and no or loses anything.   *)
AddressRight(pc, base) ==
  /\ base < 32768
  /\ pc % 8192 < 4096
  /\ And[base % 64][(pc % 4096) \div 64] = 0
=============================================================================
