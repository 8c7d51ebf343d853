---------------------------- MODULE Descriptors ----------------------------
(***************************************************************************)
(* set_global_descriptor of src/descriptor_tables.c, which the loader and  *)
(* the kernel fill their descriptor tables with, and how the processor     *)
(* reads what it wrote.  The digits of a base and of a limit go to fields  *)
(* of their own.                                                           *)
(***************************************************************************)
EXTENDS Words

CONSTANTS
  LOW,                  \* 2^16, the values of base_low and limit_low
  MIDDLE,               \* 2^8, the values of base_middle and base_high
  NIBBLE                \* 2^4, the values of the limit's upper bits

ASSUME FieldsAssumption ==
  /\ LOW \in Nat \ {0} /\ MIDDLE \in Nat \ {0} /\ NIBBLE \in Nat \ {0}
  /\ LOW * MIDDLE * MIDDLE = MODULUS
  /\ LOW * NIBBLE * PAGE_SIZE = MODULUS

(* Mutant of set_global_descriptor: the middle of the base goes twice.     *)
set_global_descriptor_middle_twice(base, limit, access, gran) ==
  [base_low    |-> base % LOW,
   base_middle |-> (base \div LOW) % MIDDLE,
   base_high   |-> (base \div LOW) % MIDDLE,
   limit_low   |-> limit % LOW,
   limit_high  |-> (limit \div LOW) % NIBBLE,
   access      |-> access, gran |-> gran]

set_global_descriptor(base, limit, access, gran) ==
  [base_low    |-> base % LOW,
   base_middle |-> (base \div LOW) % MIDDLE,
   base_high   |-> (base \div (LOW * MIDDLE)) % MIDDLE,
   limit_low   |-> limit % LOW,
   limit_high  |-> (limit \div LOW) % NIBBLE,
   access      |-> access, gran |-> gran]

(* What the processor takes for the base of a segment, and how many bytes  *)
(* it lets a program reach: the limit is the last unit, a page or a byte.  *)
BaseOf(d) == d.base_low + LOW * (d.base_middle + MIDDLE * d.base_high)

Reach(d) ==
  LET limit == d.limit_low + LOW * d.limit_high
  IN  (limit + 1) * (IF d.gran = "pages" THEN PAGE_SIZE ELSE 1)

(* The access bytes 0x9A, 0x92, 0xFA, 0xF2 and 0xE9.                       *)
KernelCode == "kernel code"
KernelData == "kernel data"
UserCode   == "user code"
UserData   == "user data"
TaskState  == "task state"

Null == set_global_descriptor(0, 0, "none", "bytes")

=============================================================================
