------------------------------ MODULE VMShares ------------------------------
(***************************************************************************)
(* The shares of a libvirt virtual machine (libvirt/detail/utility.hpp):   *)
(* a CPU share is set as a cap in hundredths of a virtual CPU, a memory    *)
(* share as a number of KiB, and both are read back from there.            *)
(*                                                                         *)
(* A share is a real number in the code.  Here it is counted in quarters   *)
(* of what it is rounded to (of a hundredth of a CPU, or of a KiB), and    *)
(* the product that is rounded may be off by an eighth to either side, as  *)
(* the products of floating-point numbers are.                             *)
(***************************************************************************)
EXTENDS Integers

CONSTANTS
  FullCap,  \* 100 times the number of virtual CPUs
  MaxMem    \* the memory of the domain's configuration, in KiB

ASSUME SharesAssumption == FullCap \in Nat \ {0} /\ MaxMem \in Nat \ {0}

Smaller(a, b) == IF a <= b THEN a ELSE b

\* share * max rounded to the nearest, for every error of the product
BugRounded(share) == {(2 * share + error) \div 8 : error \in {-1, 0, 1}} \cap Nat
Rounded(share) == {(2 * share + error + 4) \div 8 : error \in {-1, 0, 1}}

\* The cap that the scheduler of the hypervisor gets; 0 stands for no cap.
SetCpuCap(cap) == IF cap > FullCap THEN 0 ELSE cap
CpuCap(cap) == IF cap = 0 THEN FullCap ELSE cap

SetCpuShare(share) ==
  {SetCpuCap(cap) : cap \in IF share < 4 * FullCap THEN Rounded(share) ELSE {0}}

CpuShare(cap) == 4 * CpuCap(cap)

SetMemoryShare(share) == {Smaller(mem, MaxMem) : mem \in Rounded(share)}

MemoryShare(mem) == 4 * mem
=============================================================================
