---------------------------- MODULE ModuleHeader ----------------------------
(***************************************************************************)
(* init_module of src/module.c: what it admits, in 32-bit arithmetic, and  *)
(* where load_module_code_and_data of src/module_loader.c puts a module    *)
(* that was admitted.  h is the header the module begins with.             *)
(***************************************************************************)
EXTENDS Words

MODULE_CODE_LOAD_ADDR == TableSpan
MODULE_DATA_LOAD_ADDR == 3 * TableSpan

CodeMax(h) == Add(h.code_offset, h.code_size)
DataMax(h) == Add(h.data_offset, h.data_size)
EntryOffset(h) == Sub(h.entry_point, MODULE_CODE_LOAD_ADDR)

FreeDataSpace(data_len) == Sub(Sub(data_len, MODULE_DATA_LOAD_ADDR), PAGE_SIZE)
FreeCodeSpace(code_len) == Sub(code_len, MODULE_CODE_LOAD_ADDR)

(* Mutant of Admitted: where the entry point lies is not checked from      *)
(* below, so that the end of the code may wrap.                            *)
Admitted_without_lower_bound(h, code_len, data_len, module_len) ==
  /\ h.magic /\ h.code_size > 0
  /\ CodeMax(h) < module_len /\ DataMax(h) < module_len
  /\ data_len > MODULE_DATA_LOAD_ADDR + PAGE_SIZE /\ code_len > MODULE_CODE_LOAD_ADDR
  /\ h.code_size < FreeCodeSpace(code_len) /\ h.data_size < FreeDataSpace(data_len)

Admitted(h, code_len, data_len, module_len) ==
  /\ h.magic
  /\ h.code_size > 0
  /\ CodeMax(h) < module_len
  /\ DataMax(h) < module_len
  /\ h.entry_point > MODULE_CODE_LOAD_ADDR
  /\ EntryOffset(h) < CodeMax(h)
  /\ EntryOffset(h) >= h.code_offset
  /\ data_len > MODULE_DATA_LOAD_ADDR + PAGE_SIZE
  /\ code_len > MODULE_CODE_LOAD_ADDR
  /\ h.code_size < FreeCodeSpace(code_len)
  /\ h.data_size < FreeDataSpace(data_len)

PageCount(size) == IF size % PAGE_SIZE # 0 THEN size \div PAGE_SIZE + 1 ELSE size \div PAGE_SIZE

(* The offsets of the module that the loops of the loader copy: the bound  *)
(* of a loop may have wrapped.                                             *)
CopiedCode(h) == {h.code_offset + i : i \in {j \in 0 .. h.code_size - 1 :
                                               h.code_offset + j < CodeMax(h)}}
CopiedData(h) == {h.data_offset + i : i \in {j \in 0 .. h.data_size - 1 :
                                               h.data_offset + j < DataMax(h)}}

CodeEnd(h) == MODULE_CODE_LOAD_ADDR + PageCount(h.code_size) * PAGE_SIZE
DataEnd(h) == MODULE_DATA_LOAD_ADDR + PageCount(h.data_size) * PAGE_SIZE

=============================================================================
