----------------------------- MODULE WasmBinary -----------------------------
(***************************************************************************)
(* What wasm/wasm_binary_parser.c reads from a Wasm binary before it is    *)
(* given to a runtime.  A binary is the sequence of its sections, a        *)
(* section its number and the sequence of its entries; the byte cursor and *)
(* the LEB128 numbers are abstracted.  An entry of the import section is   *)
(* [kind, type], of the memory section a memory type, of the global        *)
(* section [init], of the data section "active" or "passive".              *)
(***************************************************************************)
EXTENDS Naturals, Sequences

ImportSection == 2
MemorySection == 5
GlobalSection == 6
DataSection   == 11

(* The least element of a nonempty set of positions.                       *)
Earliest(S) == CHOOSE i \in S : \A j \in S : i <= j

(* wasmbin_jump_to_section: the entries of the first section of a kind; an *)
(* absent section reads like an empty one.                                 *)
Section(binary, id) ==
    LET at == {i \in DOMAIN binary : binary[i].id = id}
    IN  IF at = {} THEN <<>> ELSE binary[Earliest(at)].entries

NoMemoryInfo == [found |-> FALSE, imported |-> FALSE, shared |-> FALSE,
                 maximum_present |-> FALSE, memory64 |-> FALSE,
                 base_pages |-> 0, max_pages |-> 0]

(* wasmbin_read_memory_type.                                               *)
MemoryInfo(type, imported) ==
    [found |-> TRUE, imported |-> imported, shared |-> type.shared,
     maximum_present |-> type.maximum_present, memory64 |-> type.memory64,
     base_pages |-> type.base_pages,
     max_pages |-> IF type.maximum_present THEN type.max_pages ELSE 0]

(* The import kinds the parser knows how to skip.                          *)
SkippedImports == {"function", "table", "global", "tag"}

(* wasmbin_read_memory_info: an imported memory first, then the first one  *)
(* the module defines; an import of an unknown kind ends the search.       *)
ReadMemoryInfo(binary) ==
    LET imports == Section(binary, ImportSection)
        defined == Section(binary, MemorySection)
        stops   == {i \in DOMAIN imports : imports[i].kind \notin SkippedImports}
    IN  CASE stops # {} /\ imports[Earliest(stops)].kind = "memory"
                -> MemoryInfo(imports[Earliest(stops)].type, TRUE)
          [] stops = {} /\ defined # <<>> -> MemoryInfo(Head(defined), FALSE)
          [] OTHER -> NoMemoryInfo

(* wasmbin_has_only_passive_data: no segment would be written again by     *)
(* another instance of the module.                                         *)
OnlyPassiveData(binary) ==
    LET segments == Section(binary, DataSection)
    IN  \A i \in DOMAIN segments : segments[i] = "passive"

(* wasmbin_read_stack_pointer: the initial value of the first global,      *)
(* whatever that global is.                                                *)
ReadStackPointer(binary) ==
    LET globals == Section(binary, GlobalSection)
    IN  IF globals = <<>> THEN 0 ELSE Head(globals).init
=============================================================================
