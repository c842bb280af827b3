---------------------------- MODULE GroupLoading ----------------------------
(***************************************************************************)
(* A host loads .wahe files into a group and initialises it                *)
(* (wahe_parser.c).  A file is a sequence of lines; one line is parsed at  *)
(* a time, and a Module line initialises its module before the next line.  *)
(* A second file extends the group.  The process may end at any time and   *)
(* be started again; what remains is the cache of translations.            *)
(***************************************************************************)
EXTENDS ModuleInit

CONSTANTS
    Scenarios,      \* the hosts and the files they load
    Names,          \* the symbols in these files
    ReserveCount,   \* WAHE_MODULE_RESERVE_COUNT
    MaxLaunches     \* bound: how often the process is started

Lines ==
    [kind : {"module"}, name : Names, path : DOMAIN Image, runners : Nat,
     backend : Backends, options_valid : BOOLEAN]
    \cup [kind : {"send"}, module : Names]
    \cup [kind : {"chain"}]
    \cup [kind : {"order"}, name : Names, module : Names, runner : Nat]
    \cup [kind : {"connection"}, src : Names, dst : Names]
    \cup [kind : {"processor"}, module : Names, order : Names]

Hosts == [runtime : {"wasmtime", "wamr", "none"}, wasm2native : BOOLEAN,
          translator : {"whole", "lacking", "missing"},
          env : Modes \cup {"unset"}, files : Seq(Seq(Lines))]

ASSUME ScenariosAssumption ==
    /\ Scenarios \subseteq Hosts /\ "chain_input_msg" \in Names
    /\ ReserveCount \in Nat /\ MaxLaunches \in Nat \ {0}

(* Only in the first file may orders precede the first Chain line: those   *)
(* of a later file would replace orders of the default chain.              *)
ASSUME FilesAssumption ==
    \A s \in Scenarios : \A f \in 2 .. Len(s.files) :
        \A l \in DOMAIN s.files[f] :
            s.files[f][l].kind \in {"order", "connection", "processor"} =>
                \E k \in 1 .. l - 1 : s.files[f][k].kind = "chain"

VARIABLES
    group,      \* the module reservation, the chains and the CITA index
    parse,      \* the locals of wahe_file_parse; il = 0 outside it
    proc,       \* "up" or "dead"
    launch

groupVars == <<group, parse, proc, launch>>
vars == <<translationVars, initVars, groupVars>>

NoGroup == [reserved |-> 0, module_as |-> 0, chains |-> <<>>, cita_index |-> {}]
NoParse == [file |-> 0, il |-> 0, symb_module |-> <<>>, symb_order |-> <<>>,
            errors |-> FALSE]
NewChain == [exec_order |-> <<>>, connection |-> <<>>]

Init ==
    /\ host \in Scenarios
    /\ settings = Unset /\ lib = "untried" /\ cache = {} /\ jobs = {}
    /\ ctx = <<>> /\ load = Idle /\ held = {}
    /\ group = NoGroup /\ parse = NoParse
    /\ proc = "up" /\ launch = 1

line == host.files[parse.file][parse.il]
Parsing(kind) == /\ At("idle") /\ parse.il > 0
                 /\ parse.il \in 1 .. Len(host.files[parse.file])
                 /\ line.kind = kind

(* wahe_find_symbol_in_table: the first of a name; 0 stands for -1.        *)
Find(table, name) ==
    LET at == {i \in DOMAIN table : table[i] = name}
    IN  IF at = {} THEN 0 ELSE Earliest(at)

Advance(p)      == parse' = [p EXCEPT !.il = @ + 1]
Complain(p, if) == [p EXCEPT !.errors = @ \/ if]
(* The jump to the end after an error the parser does not continue from.   *)
GiveUp(p) == parse' = [Complain(p, TRUE) EXCEPT !.il = Len(host.files[p.file]) + 1]

-----------------------------------------------------------------------------
(* Files and modules                                                       *)

OpenFile ==
    /\ parse.il = 0 /\ parse.file < Len(host.files)
    /\ parse' = [parse EXCEPT !.file = @ + 1, !.il = 1,
                   !.symb_module = [m \in DOMAIN ctx |-> ctx[m].name],
                   !.symb_order = <<>>]
    /\ group' = [group EXCEPT !.chains = IF @ = <<>> THEN <<NewChain>> ELSE @]
    /\ UNCHANGED <<translationVars, initVars>>

EndFile ==
    /\ At("idle")
    /\ parse.il > 0 /\ parse.il > Len(host.files[parse.file])
    /\ parse' = [parse EXCEPT !.il = 0, !.symb_module = <<>>, !.symb_order = <<>>]
    /\ UNCHANGED <<translationVars, initVars, group>>

(* wahe_alloc_stable_module_slots: the size a reservation is committed to. *)
CommitCount(needed) ==
    LET wanted == needed + needed \div 2 + 1
    IN  IF wanted < ReserveCount THEN wanted ELSE ReserveCount

(* Mutants: the array moves when it grows, or never grows.                 *)
WithSlotsMoved(needed) ==
    IF needed > group.module_as
    THEN [group EXCEPT !.reserved = @ + 1, !.module_as = CommitCount(needed)]
    ELSE group
WithSlotsOnce(needed) ==
    IF group.reserved = 0
    THEN [group EXCEPT !.reserved = 1, !.module_as = CommitCount(needed)]
    ELSE group

(* The array is reserved once and then committed further, at one address.  *)
WithSlots(needed) ==
    IF group.reserved = 0
    THEN [group EXCEPT !.reserved = 1, !.module_as = CommitCount(needed)]
    ELSE IF needed > group.module_as
         THEN [group EXCEPT !.module_as = CommitCount(needed)]
         ELSE group

ModuleOptionsInvalid ==
    /\ Parsing("module") /\ ~line.options_valid
    /\ Advance(Complain(parse, TRUE))
    /\ UNCHANGED <<translationVars, initVars, group>>

(* A name in use is reported and the module loaded all the same.           *)
WithModule == [Complain(parse, Find(parse.symb_module, line.name) # 0)
                 EXCEPT !.symb_module = Append(@, line.name)]

ModuleLine ==
    /\ Parsing("module") /\ line.options_valid
    /\ LET needed == Len(parse.symb_module) + 1 IN
       \/ /\ needed <= ReserveCount
          /\ group' = WithSlots(needed)
          /\ Advance(WithModule)
          /\ Begin(line.path, line.runners, line.backend, line.name,
                   <<group'.reserved, needed>>)
       \/ /\ needed > ReserveCount \/ needed > group.module_as
          /\ GiveUp(WithModule)
          /\ UNCHANGED <<translationVars, initVars, group>>

SendLine ==
    /\ Parsing("send")
    /\ IF Find(parse.symb_module, line.module) = 0 THEN GiveUp(parse)
                                                   ELSE Advance(parse)
    /\ UNCHANGED <<translationVars, initVars, group>>

-----------------------------------------------------------------------------
(* Chains, orders, connections, command processors                         *)

chain == group.chains[Len(group.chains)]
SetChain(c) == group' = [group EXCEPT !.chains[Len(group.chains)] = c]

(* The first order of a named chain stands for the chain's input.          *)
InputOrder == [type |-> "chain_input_msg", module_id |-> 1, runner_id |-> 0,
               processors |-> <<>>, said |-> [module |-> NoName]]

ChainLine ==
    /\ Parsing("chain")
    /\ group' = [group EXCEPT !.chains =
                   Append(@, [NewChain EXCEPT !.exec_order = <<InputOrder>>])]
    /\ Advance([parse EXCEPT !.symb_order = <<"chain_input_msg">>])
    /\ UNCHANGED <<translationVars, initVars>>

(* An attribute that names nothing is reported and stored as -1; "said"    *)
(* remembers the name.                                                     *)
OrderLine ==
    /\ Parsing("order")
    /\ LET id    == Find(parse.symb_module, line.module)
           order == [type |-> "module_func", module_id |-> id,
                     runner_id |-> line.runner, processors |-> <<>>,
                     said |-> [module |-> line.module]]
           wrong == \/ id = 0
                    \/ Find(parse.symb_order, line.name) # 0
                    \/ id \in DOMAIN ctx /\ line.runner >= ctx[id].count
       IN  /\ SetChain([chain EXCEPT !.exec_order = Append(@, order)])
           /\ Advance([Complain(parse, wrong)
                         EXCEPT !.symb_order = Append(@, line.name)])
    /\ UNCHANGED <<translationVars, initVars>>

ConnectionLine ==
    /\ Parsing("connection")
    /\ LET src == Find(parse.symb_order, line.src)
           dst == Find(parse.symb_order, line.dst)
       IN  /\ SetChain([chain EXCEPT !.connection = Append(@, <<src, dst>>)])
           /\ Advance(Complain(parse, src = 0 \/ dst = 0))
    /\ UNCHANGED <<translationVars, initVars>>

ProcessorLine ==
    /\ Parsing("processor")
    /\ LET ie == Find(parse.symb_order, line.order)
           ip == Find(parse.symb_module, line.module)
       IN  IF ie = 0 THEN GiveUp(parse) /\ UNCHANGED group
           ELSE /\ SetChain([chain EXCEPT !.exec_order[ie].processors =
                               Append(@, [id |-> ip, said |-> line.module])])
                /\ IF ip = 0 THEN GiveUp(parse) ELSE Advance(parse)
    /\ UNCHANGED <<translationVars, initVars>>

-----------------------------------------------------------------------------
(* The host                                                                *)

(* wahe_group_init and wahe_group_create_cita_index: the index holds, for  *)
(* each module with a linear memory, addresses inside its record.          *)
GroupInit ==
    /\ parse.il = 0 /\ parse.file > 0
    /\ \A m \in DOMAIN ctx : ctx[m].valid
    /\ group' = [group EXCEPT !.cita_index =
                   {ctx[m].self : m \in {k \in DOMAIN ctx : ctx[k].type # "native"}}]
    /\ UNCHANGED <<translationVars, initVars, parse>>

HostSetsMode ==
    /\ parse.il = 0 /\ parse.file < Len(host.files)
    /\ \E mode \in Modes, dir \in Dirs : SetMode(mode, dir)
    /\ UNCHANGED <<initVars, group, parse>>

(* The process ends, because a module could not be initialised, by the     *)
(* user or by a crash, and is started again.                               *)
Restart ==
    /\ RestartTranslation
    /\ ctx' = <<>> /\ load' = Idle /\ held' = {}
    /\ group' = NoGroup /\ parse' = NoParse
    /\ IF launch < MaxLaunches THEN launch' = launch + 1 /\ proc' = "up"
                               ELSE launch' = launch /\ proc' = "dead"

HostStep ==
    \/ OpenFile \/ EndFile \/ ModuleOptionsInvalid \/ ModuleLine \/ SendLine
    \/ ChainLine \/ OrderLine \/ ConnectionLine \/ ProcessorLine
    \/ GroupInit \/ HostSetsMode
    \/ InitStep /\ UNCHANGED <<group, parse>>

Background ==
    /\ \E job \in jobs : BackgroundBuildEnds(job)
    /\ UNCHANGED <<initVars, group, parse>>

Ended == proc = "dead" /\ UNCHANGED vars

Next ==
    \/ proc = "up" /\ HostStep /\ UNCHANGED <<proc, launch>>
    \/ proc = "up" /\ Background /\ UNCHANGED <<proc, launch>>
    \/ proc = "up" /\ Restart
    \/ Ended

Spec == Init /\ [][Next]_vars

-----------------------------------------------------------------------------
(* Properties                                                              *)

Regions == [lo : Nat, hi : Nat]
Symbols == Names \cup {NoName}
Types   == {"none", "wasmtime", "wamr", "translated", "native"}
Stages  == {"idle", "resolve", "build", "image", "compile", "runner", "symbols",
            "load", "instantiate", "objects", "environment", "library",
            "native_symbols", "divide", "slices", "memory", "tls", "blank",
            "register", "undo_children", "undo_main", "undo_runners",
            "undo_module", "undo_image", "failed"}
Kinds   == {"image", "module", "instance", "runners", "environment", "library"}

ModuleRecord ==
    [image : DOMAIN Image, name : Symbols, self : Nat \X Nat, type : Types,
     valid : BOOLEAN, count : Nat \ {0}, translated : BOOLEAN,
     stack_base : Nat, data_end : Nat, memory_safe : BOOLEAN,
     stacks : Seq(Regions), tls : Seq(Regions), heap : Nat,
     blanked : SUBSET Regions, writes : Nat, shares : BOOLEAN,
     mode : Modes, waited : BOOLEAN, backend : Backends, wide : Modes]
ExecOrder == [type : {"module_func", "chain_input_msg"}, module_id : Nat,
              runner_id : Nat, processors : Seq([id : Nat, said : Names]),
              said : [module : Symbols]]
Chains == [exec_order : Seq(ExecOrder), connection : Seq(Nat \X Nat)]

Loads == [stage : Stages, name : Symbols, backend : Backends, runners : Nat, i : Nat]

VariablesTyped ==
    /\ settings \in [mode_set : BOOLEAN, mode : Modes, cache_dir : Dirs \cup {DefaultDir}]
    /\ lib \in {"untried", "loaded", "absent"}
    /\ cache \cup jobs \subseteq (Dirs \cup {DefaultDir}) \X DOMAIN Image
    /\ ctx \in Seq(ModuleRecord) /\ load \in Loads
    /\ held \subseteq [kind : Kinds, i : Nat]
    /\ group \in [reserved : Nat, module_as : 0 .. ReserveCount, chains : Seq(Chains),
                  cita_index : SUBSET (Nat \X Nat)]
    /\ parse \in [file : 0 .. Len(host.files), il : Nat, symb_module : Seq(Symbols),
                  symb_order : Seq(Names), errors : BOOLEAN]
    /\ proc \in {"up", "dead"} /\ launch \in 1 .. MaxLaunches

(* The types of the variables, with the bounds of the loops and of the     *)
(* module table: every module has a committed slot in the reservation, and *)
(* the table of symbols is no shorter.                                     *)
TypeOK ==
    /\ VariablesTyped
    /\ \A m \in DOMAIN ctx : /\ Len(ctx[m].stacks) <= ctx[m].count
                             /\ Len(ctx[m].tls) < ctx[m].count
    /\ load # Idle => ctx # <<>> /\ load.i < cur.count
    /\ Len(ctx) <= group.module_as
    /\ parse.il > 0 => /\ parse.file > 0
                       /\ Len(parse.symb_module) >= Len(ctx)

(* The static data of a module is written once, although every instance on *)
(* a shared memory could write it again, and nothing that is blanked is    *)
(* anything but stack: not the data, not a TLS block, not what WAMR keeps  *)
(* around the stacks it gives (wahe_core.c:606, wahe_wamr.c:409).          *)
StaticDataIntact ==
    \A m \in DOMAIN ctx :
        LET c == ctx[m]
            im == Image[c.image]
            linked == Region(im.stack_bottom, im.stack_top)
            areas == {linked} \cup {c.stacks[i] : i \in DOMAIN c.stacks}
        IN  /\ c.writes <= 1
            /\ \A b \in c.blanked :
                 /\ Apart(b, im.data)
                 /\ \A k \in DOMAIN c.tls : Apart(b, c.tls[k])
                 /\ \E a \in areas : Inside(b, a)

(* The runners of a module, whichever backend runs it, have stacks and TLS *)
(* blocks that are apart from each other and from the static data, inside  *)
(* what was linked or allocated for them, with aligned stacks.             *)
StacksDisjoint ==
    \A m \in DOMAIN ctx :
        LET c == ctx[m]
            im == Image[c.image]
            stack == c.stacks
        IN  /\ \A i, j \in DOMAIN stack : i # j => Apart(stack[i], stack[j])
            /\ \A i \in DOMAIN stack :
                 /\ Apart(stack[i], im.data)
                 /\ stack[i].lo < stack[i].hi /\ stack[i].hi % 16 = 0
                 /\ c.type # "wamr" \/ i = 1 =>
                        Inside(stack[i], Region(im.stack_bottom, im.stack_top))
                 /\ \A k \in DOMAIN c.tls : Apart(stack[i], c.tls[k])
            /\ \A k, l \in DOMAIN c.tls : k # l => Apart(c.tls[k], c.tls[l])
            /\ \A k \in DOMAIN c.tls :
                 Inside(c.tls[k], Region(im.heap_base, c.heap))

(* Whatever step of an initialisation fails, WAMR's objects are released   *)
(* before those they depend on, the image last; a failed call of           *)
(* wahe_wamr_init_module or wahe_init_translated_runners leaves none of    *)
(* its objects; and no module that failed is left in a group that goes on. *)
CleanedUp ==
    /\ \A h \in held :
         /\ h.kind = "environment" =>
              {R("instance", 0), R("runners", 0), R("environment", 0)} \subseteq held
         /\ h.kind = "instance" /\ cur.type = "wamr" => R("module", 0) \in held
         /\ h.kind = "module" => R("image", 0) \in held
         /\ h.kind = "instance" /\ cur.type = "translated" =>
              {R("library", 0), R("instance", 0)} \subseteq held
    /\ load.stage \in {"failed", "register"} /\ cur.type = "wamr" =>
         held = {} \/ Cardinality({h \in held : h.kind = "environment"}) = cur.count
    /\ load.stage \in {"failed", "register"} /\ cur.type = "translated" =>
         \/ held \subseteq {R("library", 0), R("instance", 0)}
         \/ Cardinality({h \in held : h.kind = "instance"}) = cur.count
    /\ \A m \in DOMAIN ctx : ctx[m].valid \/ (m = Len(ctx) /\ load # Idle)

(* While files extend a group, what refers to a module by position or      *)
(* address goes on meaning it: in files without errors every order,        *)
(* command processor and connection means what its line names, the runner  *)
(* of an order exists, and addresses taken before (by the CITA index and   *)
(* the runners) are those of the records now.                              *)
ReferencesHold ==
    /\ \A m \in DOMAIN ctx : ctx[m].self = <<group.reserved, m>>
    /\ \A e \in group.cita_index : \E m \in DOMAIN ctx : ctx[m].self = e
    /\ ~parse.errors =>
         \A c \in DOMAIN group.chains : LET ch == group.chains[c] IN
           /\ \A o \in DOMAIN ch.exec_order : LET order == ch.exec_order[o] IN
                /\ order.type = "module_func" =>
                     /\ order.module_id \in DOMAIN ctx
                     /\ ctx[order.module_id].name = order.said.module
                     /\ order.runner_id < Len(ctx[order.module_id].stacks)
                        \/ ctx[order.module_id].type = "native"
                /\ \A k \in DOMAIN order.processors :
                     /\ order.processors[k].id \in DOMAIN ctx
                     /\ ctx[order.processors[k].id].name = order.processors[k].said
           /\ \A k \in DOMAIN ch.connection :
                {ch.connection[k][1], ch.connection[k][2]} \subseteq DOMAIN ch.exec_order

(* A module runs where README.adoc:104-111 says it does, in every launch,  *)
(* with whatever an earlier launch or a build in the background has left   *)
(* in the cache: a sandboxed module, and a 64-bit one that has not asked   *)
(* for it, are never translated on a host with a runtime; only a module    *)
(* that has to be translated waits for a build; one that has to be and can *)
(* be is.                                                                  *)
TranslationAsAsked ==
    \A m \in DOMAIN ctx :
        LET c == ctx[m]
            im == Image[c.image]
            settled == m < Len(ctx) \/ load.stage \notin {"resolve", "build"}
            wants == \/ c.backend = "native"
                     \/ c.backend = "default" /\ c.wide = "always"
                     \/ c.backend = "default" /\ ~has_runtime /\ c.wide # "off"
            kept == /\ c.backend # "native" /\ has_runtime
                    /\ IsMemory64(c.image)
        IN  im.wasm /\ settled =>
              /\ c.translated => /\ c.backend # "sandboxed" /\ ~kept
                                 /\ c.backend = "native" \/ c.wide # "off"
              /\ c.waited => wants
              /\ wants /\ ~kept /\ host.wasm2native /\ host.translator = "whole"
                   /\ im.translatable => c.translated

-----------------------------------------------------------------------------
(* What makes these invariants inductive                                   *)

HostGiven == host \in Scenarios

(* A module whose initialisation has been completed, or given up.          *)
Loaded(m) == m < Len(ctx) \/ load = Idle

(* What is true of the record of a module at every step: where its stacks  *)
(* are, ...                                                                *)
DataEndOf(im) == IF "__data_end" \in im.exports THEN im.data.hi ELSE 0
LinkedStackOf(im) == Region(im.stack_bottom, im.stack_top)
AuxStackOf(im, i) ==
    LET size == im.stack_top - im.stack_bottom
        top  == im.memory_size + i * (size + 16)
    IN  Region(top - size, top)
StackAt(c, im, k) ==
    IF c.count = 1 \/ (c.type = "wamr" /\ k = 1) THEN LinkedStackOf(im)
    ELSE IF c.type = "wamr" THEN AuxStackOf(im, k - 1)
                            ELSE Slice(im.stack_top, c.count, k - 1)

StacksGiven(c, im) ==
    /\ Len(c.stacks) <= c.count
    /\ \A k \in 1 .. Len(c.stacks) : c.stacks[k] = StackAt(c, im, k)
    /\ c.count > 1 /\ Len(c.stacks) > 0 =>
         IF c.type = "wamr" THEN ReadMemoryInfo(im.binary).shared
                            ELSE Divisible(im.stack_top, DataEndOf(im), c.count)

(* ... where the TLS blocks that the module has allocated are, ...         *)
TlsGiven(c, im) ==
    /\ Len(c.tls) < c.count
    /\ im.heap_base <= c.heap
    /\ \A k \in 1 .. Len(c.tls) :
         /\ im.heap_base <= c.tls[k].lo
         /\ c.tls[k].hi <= c.heap /\ c.tls[k].hi <= im.memory_size
    /\ \A k, l \in 1 .. Len(c.tls) : k < l => c.tls[k].hi <= c.tls[l].lo

(* ... and what has been blanked: the linked stack, as the first global or *)
(* the export tell where it ends, or as much below the top of another one. *)
BlankedOnly(c, im) ==
    LET pointer == ReadStackPointer(im.binary) IN
    \A b \in c.blanked :
      \/ \E top \in {im.stack_top, pointer} :
           top # 0 /\ b = BlankedRegion(top, DataEndOf(im))
      \/ /\ c.type = "wamr" /\ pointer # 0
         /\ \E k \in 2 .. Len(c.stacks) :
              /\ pointer <= c.stacks[k].hi
              /\ b = Region(c.stacks[k].hi - pointer, c.stacks[k].hi)

RecordSound(c, im) ==
    StacksGiven(c, im) /\ TlsGiven(c, im) /\ BlankedOnly(c, im) /\ c.writes <= 1
RecordsSound == \A m \in 1 .. Len(ctx) : RecordSound(ctx[m], Image[ctx[m].image])

(* What a backend requires of the modules it has accepted.                 *)
Suited(c, im) ==
    /\ c.type = "wasmtime" =>
         /\ c.count > 1 => OnlyPassiveData(im.binary)
         /\ c.stack_base \in {ReadStackPointer(im.binary), im.stack_top}
    /\ c.type = "wamr" =>
         /\ c.count > 1 => ReadMemoryInfo(im.binary).shared
         /\ c.stack_base = ReadStackPointer(im.binary)
    /\ c.type = "translated" => c.stack_base \in {0, im.stack_top}
    /\ c.type = "native" => c.count = 1

Untouched(c) == /\ c.type = "none" /\ ~c.valid /\ c.stack_base = 0
                /\ c.stacks = <<>> /\ c.tls = <<>> /\ c.blanked = {} /\ c.writes = 0
AllStacks(c) == c.type = "native" \/ Len(c.stacks) = c.count
Ready(c)     == c.valid /\ c.type # "none" /\ AllStacks(c)

(* How far the initialisation of a record c is in each stage, in the i-th  *)
(* turn of a loop.                                                         *)
Progress(c, im, stage, i) ==
    /\ stage \in {"resolve", "build", "image", "library"} => Untouched(c)
    /\ stage \in {"compile", "runner"} => c.type = "wasmtime"
    /\ stage \in {"load", "instantiate", "objects", "environment", "undo_children",
                  "undo_main", "undo_module", "undo_image"} => c.type = "wamr"
    /\ stage = "undo_runners" => c.type \in {"wamr", "translated"}
    /\ stage = "symbols" => c.type \in {"wasmtime", "wamr"}
    /\ stage = "native_symbols" => c.type \in {"native", "translated"}
    /\ stage \in {"divide", "slices"} => c.type = "translated" /\ c.valid
    /\ stage \in {"compile", "load", "instantiate", "native_symbols"} => c.writes = 0
    /\ stage = "runner" => c.writes = IF i = 0 THEN 0 ELSE 1
    /\ stage \in {"compile", "load", "instantiate", "objects", "native_symbols",
                  "divide"} => c.stacks = <<>>
    /\ stage \in {"runner", "environment", "slices"} => Len(c.stacks) = i
    /\ stage = "runner" /\ i > 0 /\ c.count > 1 => c.stack_base = im.stack_top
    /\ stage = "slices" /\ c.count > 1 =>
         Divisible(c.stack_base, DataEndOf(im), c.count)
    /\ stage = "symbols" => Len(c.stacks) = c.count
    /\ stage \in {"memory", "tls", "blank", "register"} => Ready(c)
    /\ stage \in {"divide", "slices", "memory", "tls", "blank"} /\ c.type # "native" =>
         c.data_end = DataEndOf(im)
    /\ stage \in {"compile", "runner", "load", "instantiate", "objects", "environment",
                  "symbols", "native_symbols", "divide", "slices"}
       \/ (stage = "memory" /\ c.type # "translated") => c.tls = <<>>
    /\ stage = "tls" => c.type # "native" /\ Len(c.tls) < i

LoadInStage ==
    /\ load.stage = "idle" => load = Idle
    /\ load # Idle => /\ ctx # <<>> /\ parse.il > 0 /\ load.i < cur.count
                      /\ load.stage # "failed" => Suited(cur, img)
                      /\ Progress(cur, img, load.stage, load.i)
    /\ \A m \in 1 .. Len(ctx) : Loaded(m) => Ready(ctx[m])

(* What is held in each stage.                                             *)
Environments(n) == {R("environment", i) : i \in 0 .. n - 1}
Instances(n)    == {R("instance", i) : i \in 0 .. n - 1}
Opened          == {R("image", 0), R("module", 0)}
Running         == Opened \cup {R("instance", 0)}
WamrBase        == Running \cup {R("runners", 0)}
Translation     == {R("library", 0), R("instance", 0)}
TranslatedBase  == Translation \cup {R("runners", 0)}

WamrHeld(objects, stage, i, n) ==
    /\ stage \in {"load", "undo_image"} => objects = {R("image", 0)}
    /\ stage \in {"instantiate", "undo_module"} => objects = Opened
    /\ stage = "objects" => objects = Running
    /\ stage = "environment" => objects = WamrBase \cup Environments(i)
    /\ stage \in {"symbols", "memory", "tls", "blank", "register"} =>
         objects = WamrBase \cup Environments(n)
    /\ stage = "undo_children" =>
         \/ objects \in {Opened, Running}
         \/ \E k \in 0 .. n : objects = WamrBase \cup Environments(k)
    /\ stage = "undo_main" =>
         objects \in {Opened, Running, WamrBase, WamrBase \cup {R("environment", 0)}}
    /\ stage = "undo_runners" => objects \in {Opened, Opened \cup {R("runners", 0)}}
    /\ stage \in {"failed", "idle"} =>
         objects = {} \/ objects = WamrBase \cup Environments(n)

TranslatedHeld(objects, stage, i, n) ==
    /\ stage = "native_symbols" => objects = {R("library", 0)}
    /\ stage = "divide" => objects = Translation
    /\ stage = "slices" => objects = TranslatedBase \cup Instances(i)
    /\ stage \in {"memory", "tls", "blank", "register", "idle"} =>
         objects = TranslatedBase \cup Instances(n)
    /\ stage = "undo_runners" =>
         \E k \in 0 .. n : objects = TranslatedBase \cup Instances(k)
    /\ stage = "failed" => \/ objects \in {{R("library", 0)}, Translation}
                           \/ objects = TranslatedBase \cup Instances(n)

HeldInOrder ==
    /\ ctx = <<>> => held = {}
    /\ ctx # <<>> =>
         /\ cur.type \in {"none", "wasmtime"} => held = {}
         /\ cur.type = "native" => held = {R("library", 0)}
         /\ cur.type = "wamr" => WamrHeld(held, load.stage, load.i, cur.count)
         /\ cur.type = "translated" =>
              TranslatedHeld(held, load.stage, load.i, cur.count)

(* What the choice of a backend has found out so far.                      *)
ChoiceKept ==
    /\ lib = "absent" => host.translator # "whole"
    /\ load.stage \in {"resolve", "build"} =>
         /\ cur.backend = load.backend /\ cur.wide = CurrentMode
         /\ ~cur.translated /\ ~cur.waited
    /\ load.stage = "build" =>
         /\ img.wasm /\ ~StaysInRuntime(cur.image, load.backend)
         /\ cur.mode = ModeFor(load.backend) /\ cur.mode # "cached"

(* The names of the file in progress are those of the modules, also of the *)
(* one that is being loaded, and its orders those of the last chain.       *)
FilesFollowed ==
    /\ load # Idle => parse.il > 0
    /\ group.reserved = 0 => ctx = <<>>
    /\ Len(ctx) <= group.module_as
    /\ parse.il > 0 =>
         /\ parse.file > 0 /\ Len(parse.symb_module) >= Len(ctx)
         /\ parse.il <= Len(host.files[parse.file]) =>
              Len(parse.symb_module) = Len(ctx)
         /\ \A m \in 1 .. Len(ctx) :
              parse.symb_module[m] = IF Loaded(m) THEN ctx[m].name ELSE load.name
         /\ group.chains # <<>> /\ Len(parse.symb_order) <= Len(chain.exec_order)

ModuleNamed(id, name) ==
    id \in DOMAIN ctx /\ Loaded(id) /\ ctx[id].name = name
LinksFollowed ==
    ~parse.errors =>
      \A c \in 1 .. Len(group.chains) : LET ch == group.chains[c] IN
        /\ \A o \in 1 .. Len(ch.exec_order) : LET order == ch.exec_order[o] IN
             /\ order.type = "module_func" =>
                  /\ ModuleNamed(order.module_id, order.said.module)
                  /\ order.runner_id < ctx[order.module_id].count
             /\ \A k \in 1 .. Len(order.processors) :
                  ModuleNamed(order.processors[k].id, order.processors[k].said)
        /\ \A k \in 1 .. Len(ch.connection) :
             {ch.connection[k][1], ch.connection[k][2]} \subseteq 1 .. Len(ch.exec_order)

(* What blanking a stack takes for granted of the modules: the first       *)
(* global, if it is read at all, points into the linked stack; a module    *)
(* with data below its stack tells where they end, and its memory is not   *)
(* shared.                                                                 *)
LayoutTold(im) ==
    LET pointer == ReadStackPointer(im.binary)
    IN  /\ pointer # 0 => im.stack_bottom < pointer /\ pointer <= im.stack_top
        /\ im.stack_bottom # 0 => /\ "__data_end" \in im.exports
                                  /\ ~ReadMemoryInfo(im.binary).shared
LayoutsTold == \A path \in DOMAIN Image : LayoutTold(Image[path])
=============================================================================
