--------------------------- MODULE MCGroupLoading ---------------------------
(***************************************************************************)
(* Small hosts, module files and group files for GroupLoading.             *)
(***************************************************************************)
EXTENDS GroupLoading

CONSTANT Hidden     \* whether one module is data-first and hides its layout

Memory(shared, bits64, base, max) ==
    [shared |-> shared, memory64 |-> bits64, maximum_present |-> max > 0,
     base_pages |-> base, max_pages |-> max]
Import(type)  == [id |-> 2, entries |-> <<[kind |-> "function"],
                                          [kind |-> "memory", type |-> type]>>]
Memories(s)   == [id |-> 5, entries |-> s]
Globals(init) == [id |-> 6, entries |-> <<[init |-> init]>>]
Data(s)       == [id |-> 11, entries |-> s]

AllExports == {"__stack_pointer", "__data_end", "__tls_size", "__tls_align",
               "__wasm_init_tls"}

(* A stack-first module: stack, data, heap.                                *)
Module(binary, stack) ==
    [wasm |-> TRUE, library |-> FALSE, translatable |-> TRUE, binary |-> binary,
     stack_bottom |-> 0, stack_top |-> stack, data |-> Region(stack, stack + 40),
     heap_base |-> stack + 48, memory_size |-> 256, exports |-> AllExports,
     tls_size |-> 24, tls_align |-> 16]

Plain  == Module(<<Memories(<<Memory(FALSE, FALSE, 1, 1)>>), Globals(64),
                   Data(<<"active">>)>>, 64)
Wide   == Module(<<Memories(<<Memory(FALSE, TRUE, 1, 1)>>), Globals(64)>>, 64)
Shared == Module(<<Import(Memory(TRUE, FALSE, 1, 4)), Globals(64),
                   Data(<<"passive", "passive">>)>>, 64)

(* A data-first module: data, stack, heap.                                 *)
DataFirst == [Plain EXCEPT !.data = Region(16, 48), !.stack_bottom = 48,
                           !.stack_top = 112, !.heap_base = 112,
                           !.binary[2] = Globals(112)]

Images ==
    [plain   |-> Plain,
     growing |-> [Plain EXCEPT !.binary[1] = Memories(<<Memory(FALSE, FALSE, 1, 0)>>),
                               !.translatable = FALSE],
     wide    |-> Wide,
     shared  |-> Shared,
     active  |-> [Shared EXCEPT !.binary[3] = Data(<<"passive", "active">>)],
     uneven  |-> [Shared EXCEPT !.stack_top = 48, !.binary[2] = Globals(48)],
     unnamed |-> [Shared EXCEPT !.exports = @ \ {"__stack_pointer"}],
    cramped |-> [Plain EXCEPT !.memory_size = 32],
    notls   |-> [Shared EXCEPT !.exports = @ \ {"__wasm_init_tls"}],
     legacy  |-> [Plain EXCEPT !.exports = {}, !.data = Region(64, 104)],
     low     |-> [DataFirst EXCEPT !.exports = IF Hidden THEN {"__stack_pointer"}
                                               ELSE AllExports],
     empty   |-> [Plain EXCEPT !.binary = <<Globals(64)>>],
     library |-> [Plain EXCEPT !.wasm = FALSE, !.library = TRUE, !.binary = <<>>],
     missing |-> [Plain EXCEPT !.wasm = FALSE, !.binary = <<>>]]

Symbol == {"A", "B", "C", "w", "x", "y", "z", "chain_input_msg"}

Line(name, path, runners, backend) ==
    [kind |-> "module", name |-> name, path |-> path, runners |-> runners,
     backend |-> backend, options_valid |-> TRUE]
BadOptions == [Line("A", "plain", 1, "default") EXCEPT !.options_valid = FALSE]
Send(m)    == [kind |-> "send", module |-> m]
Chain      == [kind |-> "chain"]
Order(name, m, r)  == [kind |-> "order", name |-> name, module |-> m, runner |-> r]
Connection(s, d)   == [kind |-> "connection", src |-> s, dst |-> d]
Processor(m, o)    == [kind |-> "processor", module |-> m, order |-> o]

(* One module, on every backend it may be asked to run on.                 *)
Single == {<< <<Line("A", p, n, b)>> >> :
             p \in DOMAIN Images, n \in {1, 2}, b \in Backends}
          \cup {<< <<Line("A", p, 3, "default")>> >> : p \in {"shared", "uneven"}}

(* Files that extend each other, with the errors the parser reports.       *)
Default == Order("z", "A", 0)
First   == <<Line("A", "shared", 2, "default"), Default, Chain,
             Order("x", "A", 1), Connection("chain_input_msg", "x")>>
Second  == <<Line("B", "plain", 1, "default"), Send("A"), Chain,
             Order("x", "B", 0), Order("y", "A", 1),
             Processor("B", "y"), Connection("x", "y")>>
Groups  == {<<First, Second>>,
            <<First, <<BadOptions, Send("B")>> >>,
            <<First, <<Line("A", "library", 1, "default")>>, Second>>,
            <<First, <<Chain, Order("x", "A", 2), Order("x", "A", 0),
                       Connection("x", "w"), Processor("A", "w")>>, Second>>,
            <<First, <<Chain, Order("x", "C", 0), Processor("C", "x")>> >>}

Host(runtime, env, files) ==
    [runtime |-> runtime, wasm2native |-> TRUE, translator |-> "whole",
     env |-> env, files |-> files]

AllScenarios ==
    {Host(r, e, f) : r \in {"wasmtime", "wamr", "none"},
                     e \in Modes \cup {"unset"}, f \in Single}
    \cup {Host(r, e, f) : r \in {"wasmtime", "wamr"}, e \in {"off", "auto"},
                          f \in Groups}
    \cup {[Host("wasmtime", "auto", f) EXCEPT !.translator = t] :
             t \in {"lacking", "missing"}, f \in Single}
    \cup {[Host("wasmtime", "auto", f) EXCEPT !.wasm2native = FALSE] :
             f \in Single}

ASSUME LayoutsAssumption == ~Hidden => LayoutsTold
=============================================================================
