------------------------- MODULE GroupLoadingProofs -------------------------
(***************************************************************************)
(* The safety properties of GroupLoading, for any modules, files, hosts,   *)
(* directories and number of launches.                                     *)
(***************************************************************************)
EXTENDS GroupLoading, RunnerStacksProofs, SequenceTheorems, FiniteSetTheorems,
        WellFoundedInduction

(* The elements of a list, and a list whose last element is replaced or    *)
(* that gets another one.                                                  *)
LEMMA ListFields ==
  ASSUME NEW S, NEW s \in Seq(S)
  PROVE  /\ Len(s) \in Nat /\ DOMAIN s = 1 .. Len(s)
         /\ \A k \in 1 .. Len(s) : s[k] \in S
         /\ s # <<>> => Len(s) > 0 /\ s[Len(s)] \in S
<1>1. Len(s) \in Nat /\ DOMAIN s = 1 .. Len(s)
  BY LenProperties
<1>2. \A k \in 1 .. Len(s) : s[k] \in S
  BY ElementOfSeq
<1>3. s # <<>> => Len(s) # 0
  BY EmptySeq
<1>4. QED
  BY <1>1, <1>2, <1>3

LEMMA ListLast ==
  ASSUME NEW S, NEW s \in Seq(S), s # <<>>, NEW e \in S
  PROVE  LET t == [s EXCEPT ![Len(s)] = e] IN
         /\ t \in Seq(S) /\ Len(t) = Len(s) /\ t # <<>>
         /\ t[Len(s)] = e
         /\ \A k \in 1 .. Len(s) - 1 : t[k] = s[k]
<1> DEFINE t == [s EXCEPT ![Len(s)] = e]
<1>1. Len(s) \in Nat /\ DOMAIN s = 1 .. Len(s) /\ Len(s) > 0
  BY ListFields
<1>2. t \in Seq(S) /\ Len(t) = Len(s)
  BY <1>1, ExceptSeq
<1>3. t # <<>>
  BY <1>1, <1>2, EmptySeq
<1>4. t[Len(s)] = e
  BY <1>1
<1>5. ASSUME NEW k \in 1 .. Len(s) - 1
      PROVE  t[k] = s[k]
  <2>1. \A n \in Nat : k \in 1 .. n - 1 => k \in 1 .. n /\ k # n
    OBVIOUS
  <2>2. k \in 1 .. Len(s) /\ k # Len(s)
    BY <1>1, <2>1
  <2>3. QED
    BY <1>1, <2>2
<1>6. QED
  BY <1>2, <1>3, <1>4, <1>5

LEMMA ListExtended ==
  ASSUME NEW S, NEW s \in Seq(S), NEW e \in S
  PROVE  LET t == Append(s, e) IN
         /\ t \in Seq(S) /\ Len(t) = Len(s) + 1 /\ t # <<>>
         /\ t[Len(s) + 1] = e
         /\ \A k \in 1 .. Len(s) : t[k] = s[k]
  BY AppendProperties, LenProperties, EmptySeq

-----------------------------------------------------------------------------
(* What is assumed of the module files.                                    *)

LEMMA ImageFields ==
  ASSUME NEW path \in DOMAIN Image
  PROVE  LET im == Image[path] IN
         /\ im.stack_bottom \in Nat /\ im.stack_top \in Nat /\ im.heap_base \in Nat
         /\ im.memory_size \in Nat /\ im.tls_size \in Nat /\ im.tls_align \in Nat \ {0}
         /\ ReadStackPointer(im.binary) \in Nat
         /\ im.data \in Regions /\ im.data.lo \in Nat /\ im.data.hi \in Nat
         /\ im.wasm \in BOOLEAN /\ im.library \in BOOLEAN /\ im.translatable \in BOOLEAN
         /\ ReadMemoryInfo(im.binary).shared \in BOOLEAN
         /\ LaidOut(im)
  BY ImagesAssumption DEF Regions

(* The fields of a record, and that replacing some of them keeps its type. *)
LEMMA RecordFields ==
  ASSUME NEW c \in ModuleRecord
  PROVE  /\ c.image \in DOMAIN Image /\ c.name \in Symbols /\ c.self \in Nat \X Nat
         /\ c.type \in Types /\ c.valid \in BOOLEAN /\ c.count \in Nat \ {0}
         /\ c.translated \in BOOLEAN /\ c.stack_base \in Nat /\ c.data_end \in Nat
         /\ c.stacks \in Seq(Regions) /\ c.tls \in Seq(Regions) /\ c.heap \in Nat
         /\ c.blanked \subseteq Regions /\ c.writes \in Nat
         /\ c.mode \in Modes /\ c.waited \in BOOLEAN /\ c.backend \in Backends
         /\ c.wide \in Modes
  BY DEF ModuleRecord

LEMMA RecordChanged ==
  ASSUME NEW c \in ModuleRecord
  PROVE  /\ \A b \in BOOLEAN : [c EXCEPT !.valid = b] \in ModuleRecord
         /\ \A s \in Seq(Regions) : [c EXCEPT !.stacks = s] \in ModuleRecord
         /\ \A n \in Nat : [c EXCEPT !.writes = n] \in ModuleRecord
  BY DEF ModuleRecord

-----------------------------------------------------------------------------
(* The record of the module that is being initialised.                     *)

LEMMA CurrentFields ==
  ASSUME VariablesTyped
  PROVE  /\ Len(ctx) \in Nat /\ DOMAIN ctx = 1 .. Len(ctx)
         /\ \A m \in 1 .. Len(ctx) : ctx[m] \in ModuleRecord
         /\ ctx # <<>> => /\ Len(ctx) > 0 /\ Len(ctx) \in 1 .. Len(ctx)
                          /\ cur \in ModuleRecord /\ img = Image[cur.image]
  BY ListFields DEF VariablesTyped, cur, img

LEMMA CurrentSet ==
  ASSUME VariablesTyped, ctx # <<>>, NEW r \in ModuleRecord, SetCtx(r)
  PROVE  /\ ctx' \in Seq(ModuleRecord) /\ Len(ctx') = Len(ctx) /\ ctx' # <<>>
         /\ cur' = r
         /\ \A m \in 1 .. Len(ctx) - 1 : ctx'[m] = ctx[m]
  BY ListLast DEF VariablesTyped, SetCtx, cur

LEMMA CurrentSame ==
  ASSUME VariablesTyped, ctx # <<>>, ctx' = ctx
  PROVE  cur \in ModuleRecord /\ SetCtx(cur)
<1>1. cur \in ModuleRecord /\ Len(ctx) \in DOMAIN ctx /\ DOMAIN ctx = 1 .. Len(ctx)
  BY CurrentFields
<1>2. ctx = [m \in 1 .. Len(ctx) |-> ctx[m]]
  BY SeqDef, <1>1 DEF VariablesTyped
<1>3. QED
  BY <1>1, <1>2 DEF SetCtx, cur

-----------------------------------------------------------------------------
(* What is true of a record stays true if ...                              *)

(* ... its stacks, TLS blocks and what is blanked stay as they are, ...    *)
LEMMA SoundKept ==
  ASSUME NEW im, NEW c \in ModuleRecord, NEW d \in ModuleRecord, RecordSound(c, im),
         d.stacks = c.stacks, d.tls = c.tls, d.heap = c.heap, d.blanked = c.blanked,
         d.count = c.count, d.writes <= 1,
         d.type = c.type \/ (c.stacks = <<>> /\ c.blanked = {})
  PROVE  RecordSound(d, im)
<1>1. StacksGiven(d, im)
  <2>1. CASE d.type = c.type
    BY <2>1 DEF RecordSound, StacksGiven, StackAt
  <2>2. CASE c.stacks = <<>>
    <3>1. Len(d.stacks) = 0 /\ d.count \in Nat /\ 1 .. 0 = {}
      BY <2>2, RecordFields
    <3>2. QED
      BY <3>1 DEF StacksGiven
  <2>3. QED
    BY <2>1, <2>2
<1>2. TlsGiven(d, im)
  BY DEF RecordSound, TlsGiven
<1>3. BlankedOnly(d, im)
  BY DEF RecordSound, BlankedOnly
<1>4. QED
  BY <1>1, <1>2, <1>3 DEF RecordSound

(* ... it gets the next of its stacks, ...                                 *)
LEMMA StackAdded ==
  ASSUME NEW im, NEW c \in ModuleRecord, NEW d \in ModuleRecord, RecordSound(c, im),
         NEW st \in Regions, d.stacks = Append(c.stacks, st),
         d.tls = c.tls, d.heap = c.heap, d.blanked = c.blanked,
         d.count = c.count, d.writes <= 1, d.type = c.type,
         Len(c.stacks) < c.count, st = StackAt(c, im, Len(c.stacks) + 1),
         c.count > 1 => IF c.type = "wamr" THEN ReadMemoryInfo(im.binary).shared
                        ELSE Divisible(im.stack_top, DataEndOf(im), c.count)
  PROVE  RecordSound(d, im)
<1> DEFINE n == Len(c.stacks)
<1>1. /\ n \in Nat /\ Len(d.stacks) = n + 1
      /\ d.stacks[n + 1] = st /\ \A k \in 1 .. n : d.stacks[k] = c.stacks[k]
      /\ c.count \in Nat
  BY ListExtended, ListFields, RecordFields
<1>2. ASSUME NEW k \in 1 .. Len(d.stacks)
      PROVE  d.stacks[k] = StackAt(d, im, k)
  <2>1. StackAt(d, im, k) = StackAt(c, im, k)
    BY DEF StackAt
  <2>2. CASE k = n + 1
    BY <1>1, <2>1, <2>2
  <2>3. CASE k # n + 1
    <3>1. k \in 1 .. n
      <4> HIDE DEF n
      <4>1. QED
        BY <1>1, <2>3
    <3>2. c.stacks[k] = StackAt(c, im, k)
      BY <3>1 DEF RecordSound, StacksGiven
    <3>3. QED
      BY <1>1, <2>1, <3>1, <3>2
  <2>4. QED
    BY <2>2, <2>3
<1>3. StacksGiven(d, im)
  <2>1. Len(d.stacks) <= d.count
    <3> HIDE DEF n
    <3>1. n < c.count
      BY DEF n
    <3>2. QED
      BY <1>1, <3>1
  <2>2. QED
    BY <1>2, <2>1 DEF StacksGiven
<1>4. TlsGiven(d, im)
  BY DEF RecordSound, TlsGiven
<1>5. BlankedOnly(d, im)
  <2>1. ASSUME NEW k \in 2 .. n
        PROVE  k \in 2 .. Len(d.stacks) /\ d.stacks[k] = c.stacks[k]
    <3> HIDE DEF n
    <3>1. QED
      BY <1>1
  <2>3. QED
    BY <2>1 DEF RecordSound, BlankedOnly
<1>6. QED
  BY <1>3, <1>4, <1>5 DEF RecordSound

(* ... it gets another TLS block above the others, ...                     *)
LEMMA BlockAdded ==
  ASSUME NEW im, NEW c \in ModuleRecord, NEW d \in ModuleRecord, RecordSound(c, im),
         NEW b \in Regions, d.tls = Append(c.tls, b),
         c.heap <= b.lo, b.lo <= b.hi, b.hi <= d.heap, b.hi <= im.memory_size,
         im.heap_base \in Nat, im.memory_size \in Nat,
         d.stacks = c.stacks, d.blanked = c.blanked, d.count = c.count,
         d.writes <= 1, d.type = c.type, Len(c.tls) + 1 < c.count
  PROVE  RecordSound(d, im)
<1> DEFINE n == Len(c.tls)
<1>1. /\ n \in Nat /\ Len(d.tls) = n + 1
      /\ d.tls[n + 1] = b /\ \A k \in 1 .. n : d.tls[k] = c.tls[k]
      /\ \A k \in 1 .. n : c.tls[k].lo \in Nat /\ c.tls[k].hi \in Nat
      /\ c.heap \in Nat /\ d.heap \in Nat /\ b.lo \in Nat /\ b.hi \in Nat
  <2>1. c.tls \in Seq(Regions)
    BY RecordFields
  <2>2. \A k \in 1 .. n : c.tls[k] \in Regions
    BY <2>1, ListFields
  <2>3. /\ n \in Nat /\ Len(d.tls) = n + 1
        /\ d.tls[n + 1] = b /\ \A k \in 1 .. n : d.tls[k] = c.tls[k]
    BY <2>1, ListExtended, ListFields
  <2>4. /\ \A k \in 1 .. n : c.tls[k].lo \in Nat /\ c.tls[k].hi \in Nat
        /\ b.lo \in Nat /\ b.hi \in Nat
    BY <2>2 DEF Regions
  <2>5. c.heap \in Nat /\ d.heap \in Nat
    BY RecordFields
  <2>6. QED
    BY <2>3, <2>4, <2>5
<1>2. /\ im.heap_base <= c.heap
      /\ \A k \in 1 .. n : /\ im.heap_base <= c.tls[k].lo
                           /\ c.tls[k].hi <= c.heap /\ c.tls[k].hi <= im.memory_size
      /\ \A k, l \in 1 .. n : k < l => c.tls[k].hi <= c.tls[l].lo
  BY DEF RecordSound, TlsGiven
<1>3. Len(d.tls) < d.count /\ c.heap <= d.heap
  BY <1>1
<1> HIDE DEF n
<1>4. ASSUME NEW k \in 1 .. n + 1
      PROVE  /\ im.heap_base <= d.tls[k].lo
             /\ d.tls[k].hi <= d.heap /\ d.tls[k].hi <= im.memory_size
  <2>1. CASE k = n + 1
    BY <1>1, <1>2, <2>1
  <2>2. CASE k # n + 1
    <3>1. k \in 1 .. n
      BY <1>1, <2>2
    <3>2. d.tls[k] = c.tls[k] /\ c.tls[k].hi \in Nat
      BY <1>1, <3>1
    <3>3. /\ im.heap_base <= c.tls[k].lo
          /\ c.tls[k].hi <= c.heap /\ c.tls[k].hi <= im.memory_size
      BY <1>2, <3>1
    <3>4. c.heap \in Nat /\ d.heap \in Nat
      BY <1>1
    <3>5. QED
      BY <1>3, <3>2, <3>3, <3>4
  <2>3. QED
    BY <2>1, <2>2
<1>5. ASSUME NEW k \in 1 .. n + 1, NEW l \in 1 .. n + 1, k < l
      PROVE  d.tls[k].hi <= d.tls[l].lo
  <2>1. k \in 1 .. n
    BY <1>1, <1>5
  <2>2. CASE l = n + 1
    BY <1>1, <1>2, <2>1, <2>2
  <2>3. CASE l # n + 1
    <3>1. l \in 1 .. n
      BY <1>1, <2>3
    <3>2. QED
      BY <1>1, <1>2, <1>5, <2>1, <3>1
  <2>4. QED
    BY <2>2, <2>3
<1>6. TlsGiven(d, im)
  <2>1. im.heap_base <= d.heap
    BY <1>1, <1>2
  <2>2. QED
    BY <1>1, <1>3, <1>4, <1>5, <2>1 DEF TlsGiven
<1>7. StacksGiven(d, im)
  BY DEF RecordSound, StacksGiven, StackAt
<1>8. BlankedOnly(d, im)
  BY DEF RecordSound, BlankedOnly
<1>9. QED
  BY <1>6, <1>7, <1>8 DEF RecordSound

(* ... or if one more of its stacks is blanked.                            *)
BlankedOne(c, im, b) ==
  LET pointer == ReadStackPointer(im.binary) IN
  \/ \E top \in {im.stack_top, pointer} :
       top # 0 /\ b = BlankedRegion(top, DataEndOf(im))
  \/ /\ c.type = "wamr" /\ pointer # 0
     /\ \E k \in 2 .. Len(c.stacks) :
          /\ pointer <= c.stacks[k].hi
          /\ b = Region(c.stacks[k].hi - pointer, c.stacks[k].hi)

LEMMA BlankAdded ==
  ASSUME NEW im, NEW c \in ModuleRecord, NEW d \in ModuleRecord, RecordSound(c, im),
         NEW B, d.blanked = c.blanked \cup B, \A b \in B : BlankedOne(c, im, b),
         d.stacks = c.stacks, d.tls = c.tls, d.heap = c.heap, d.count = c.count,
         d.writes <= 1, d.type = c.type
  PROVE  RecordSound(d, im)
<1>1. StacksGiven(d, im)
  BY DEF RecordSound, StacksGiven, StackAt
<1>2. TlsGiven(d, im)
  BY DEF RecordSound, TlsGiven
<1>3. \A b \in d.blanked : BlankedOne(c, im, b)
  BY DEF RecordSound, BlankedOnly, BlankedOne
<1>4. \A b \in d.blanked : BlankedOne(d, im, b)
  BY <1>3 DEF BlankedOne
<1>5. BlankedOnly(d, im)
  BY <1>4 DEF BlankedOnly, BlankedOne
<1>6. QED
  BY <1>1, <1>2, <1>5 DEF RecordSound

-----------------------------------------------------------------------------
(* A step of an initialisation changes the record of its module and how    *)
(* far it is; the base of the invariant says what both are then.           *)

Base == HostGiven /\ VariablesTyped /\ RecordsSound /\ LoadInStage /\ FilesFollowed

SameModule(r) ==
  /\ r.image = cur.image /\ r.name = cur.name /\ r.self = cur.self
  /\ r.count = cur.count /\ r.backend = cur.backend /\ r.wide = cur.wide

Moves(r, ld) ==
  /\ SetCtx(r) /\ load' = ld
  /\ r \in ModuleRecord /\ ld \in Loads /\ ld.stage # "idle"
  /\ SameModule(r)
  /\ ld.name = load.name /\ ld.backend = load.backend
  /\ RecordSound(r, img)
  /\ ld.i < r.count
  /\ ld.stage # "failed" => Suited(r, img)
  /\ Progress(r, img, ld.stage, ld.i)

LEMMA Loading ==
  ASSUME Base, load.stage # "idle"
  PROVE  /\ ctx # <<>> /\ load \in Loads
         /\ cur \in ModuleRecord /\ img = Image[cur.image] /\ cur.image \in DOMAIN Image
         /\ load.i \in Nat /\ cur.count \in Nat \ {0} /\ load.i < cur.count
         /\ load.stage # "failed" => Suited(cur, img)
         /\ Progress(cur, img, load.stage, load.i)
         /\ RecordSound(cur, img)
         /\ parse.il > 0
<1>1. load # Idle
  BY DEF Idle
<1>2. VariablesTyped /\ load \in Loads
  BY DEF Base, VariablesTyped
<1>3. ctx # <<>> /\ parse.il > 0 /\ load.i < cur.count
      /\ (load.stage # "failed" => Suited(cur, img))
      /\ Progress(cur, img, load.stage, load.i)
  BY <1>1 DEF Base, LoadInStage
<1>4. /\ cur \in ModuleRecord /\ img = Image[cur.image] /\ cur.image \in DOMAIN Image
      /\ cur.count \in Nat \ {0}
  BY <1>2, <1>3, CurrentFields, RecordFields
<1>5. RecordSound(cur, img)
  BY <1>2, <1>3, CurrentFields DEF Base, RecordsSound, cur, img
<1>6. QED
  BY <1>2, <1>3, <1>4, <1>5 DEF Loads

LEMMA ModeTyped ==
  ASSUME HostGiven, VariablesTyped
  PROVE  /\ CurrentMode \in Modes
         /\ \A backend \in Backends : ModeFor(backend) \in Modes
         /\ has_runtime \in BOOLEAN
         /\ host.runtime \in {"wasmtime", "wamr", "none"}
<1>1. host \in Hosts
  BY ScenariosAssumption DEF HostGiven
<1>2. CurrentMode \in Modes
  BY <1>1 DEF Hosts, VariablesTyped, CurrentMode, Modes
<1>3. QED
  BY <1>1, <1>2 DEF Hosts, ModeFor, Modes, has_runtime

LEMMA Proceeds ==
  ASSUME Base, load.stage # "idle",
         NEW r \in ModuleRecord, SetCtx(r), SameModule(r), RecordSound(r, img),
         NEW stage \in Stages \ {"idle"}, NEW i \in Nat,
         load' = [load EXCEPT !.stage = stage, !.i = i], i < cur.count,
         stage # "failed" => Suited(r, img), Progress(r, img, stage, i)
  PROVE  \E s, ld : Moves(s, ld)
<1> DEFINE ld == [load EXCEPT !.stage = stage, !.i = i]
<1>1. load \in Loads
  BY DEF Base, VariablesTyped
<1>2. /\ ld \in Loads /\ ld.stage = stage /\ ld.i = i
      /\ ld.name = load.name /\ ld.backend = load.backend
  BY <1>1 DEF Loads
<1>3. load' = ld
  OBVIOUS
<1> HIDE DEF ld
<1>4. i < r.count
  BY DEF SameModule
<1>5. Moves(r, ld)
  BY <1>2, <1>3, <1>4 DEF Moves
<1>6. QED
  BY <1>5

(* The step leaves the record as it is, ...                                *)
LEMMA Passes ==
  ASSUME Base, load.stage # "idle", ctx' = ctx,
         NEW stage \in Stages \ {"idle"}, Goto(stage),
         stage # "failed" => Suited(cur, img), Progress(cur, img, stage, 0)
  PROVE  \E s, ld : Moves(s, ld)
<1>1. /\ cur \in ModuleRecord /\ RecordSound(cur, img) /\ ctx # <<>>
      /\ cur.count \in Nat \ {0}
  BY Loading
<1>2. SetCtx(cur)
  BY <1>1, CurrentSame DEF Base
<1>3. SameModule(cur)
  BY DEF SameModule
<1>4. load' = [load EXCEPT !.stage = stage, !.i = 0] /\ 0 < cur.count
  BY <1>1 DEF Goto
<1>5. QED
  BY <1>1, <1>2, <1>3, <1>4, Proceeds

(* ... or changes it and ends a stage.                                     *)
LEMMA Ends ==
  ASSUME Base, load.stage # "idle",
         NEW r \in ModuleRecord, SetCtx(r), SameModule(r), RecordSound(r, img),
         NEW stage \in Stages \ {"idle"}, Goto(stage),
         stage # "failed" => Suited(r, img), Progress(r, img, stage, 0)
  PROVE  \E s, ld : Moves(s, ld)
<1>1. cur.count \in Nat \ {0}
  BY Loading
<1>2. load' = [load EXCEPT !.stage = stage, !.i = 0] /\ 0 < cur.count
  BY <1>1 DEF Goto
<1>3. QED
  BY <1>2, Proceeds

(* A turn of a loop.                                                       *)
LEMMA Repeats ==
  ASSUME Base, load.stage # "idle", Again, load.i + 1 < cur.count,
         NEW r \in ModuleRecord, SetCtx(r), SameModule(r), RecordSound(r, img),
         load.stage # "failed", Suited(r, img),
         Progress(r, img, load.stage, load.i + 1)
  PROVE  \E s, ld : Moves(s, ld)
<1>1. load \in Loads /\ load.i \in Nat
  BY Loading
<1>2. load' = [load EXCEPT !.stage = load.stage, !.i = load.i + 1]
  BY <1>1 DEF Again, Loads
<1>3. load.stage \in Stages \ {"idle"}
  BY <1>1 DEF Loads
<1>4. load.i + 1 \in Nat
  BY <1>1
<1>5. QED
  BY <1>2, <1>3, <1>4, Proceeds

-----------------------------------------------------------------------------
(* The choice of the backend.                                              *)

LEMMA UntouchedFails ==
  ASSUME NEW c, NEW im, Untouched(c)
  PROVE  \A stage \in {"resolve", "build", "image", "library", "failed"} :
           Progress(c, im, stage, 0) /\ Suited(c, im)
  BY DEF Progress, Suited, Untouched

LEMMA ResolveDeclinedMoves ==
  ASSUME Base, ResolveDeclined
  PROVE  \E r, ld : Moves(r, ld)
<1>1. load.stage = "resolve"
  BY DEF ResolveDeclined, At
<1>2. cur \in ModuleRecord /\ RecordSound(cur, img) /\ Untouched(cur)
  BY <1>1, Loading DEF Progress
<1> DEFINE mode == IF host.wasm2native THEN ModeFor(load.backend) ELSE "off"
           r == [cur EXCEPT !.mode = mode]
<1>3. mode \in Modes
  <2>1. load.backend \in Backends
    BY DEF Base, VariablesTyped, Loads
  <2>2. QED
    BY <2>1, ModeTyped DEF Modes, Base
<1>4. SetCtx(r) /\ Goto(OpeningStage(FALSE))
  BY DEF ResolveDeclined
<1> HIDE DEF mode
<1>5. r \in ModuleRecord /\ SameModule(r) /\ Untouched(r)
  BY <1>2, <1>3 DEF ModuleRecord, SameModule, Untouched
<1>6. RecordSound(r, img)
  <2>1. /\ r.stacks = cur.stacks /\ r.tls = cur.tls /\ r.heap = cur.heap
        /\ r.blanked = cur.blanked /\ r.count = cur.count /\ r.writes <= 1
        /\ r.type = cur.type
    BY <1>2 DEF ModuleRecord, Untouched
  <2>2. QED
    BY <1>2, <1>5, <2>1, SoundKept
<1> HIDE DEF r
<1>7. OpeningStage(FALSE) \in {"image", "library"}
  BY DEF OpeningStage
<1>8. QED
  BY <1>1, <1>4, <1>5, <1>6, <1>7, UntouchedFails, Ends DEF Stages

LEMMA ResolveCachedMoves ==
  ASSUME Base, ResolveCached
  PROVE  \E r, ld : Moves(r, ld)
<1>1. load.stage = "resolve"
  BY DEF ResolveCached, At
<1>2. cur \in ModuleRecord /\ RecordSound(cur, img) /\ Untouched(cur)
  BY <1>1, Loading DEF Progress
<1> DEFINE mode == ModeFor(load.backend)
           translated == Translated(cur.image)
           r == [cur EXCEPT !.translated = translated, !.mode = mode]
           stage == CASE translated -> OpeningStage(TRUE)
                      [] ~LibraryLoaded \/ mode = "cached" -> OpeningStage(FALSE)
                      [] OTHER -> "build"
<1>3. mode \in Modes /\ translated \in BOOLEAN
  <2>1. load.backend \in Backends
    BY DEF Base, VariablesTyped, Loads
  <2>2. QED
    BY <2>1, ModeTyped DEF Base, Translated
<1>4. SetCtx(r) /\ Goto(stage)
  BY DEF ResolveCached
<1>5. stage \in {"image", "library", "build"}
  <2>1. \A t : OpeningStage(t) \in {"image", "library"}
    BY DEF OpeningStage
  <2> HIDE DEF translated, mode
  <2>2. CASE translated
    BY <2>1, <2>2
  <2>3. CASE ~translated
    BY <2>1, <2>3
  <2>4. QED
    BY <2>2, <2>3
<1> HIDE DEF mode, translated, stage
<1>6. r \in ModuleRecord /\ SameModule(r) /\ Untouched(r)
  BY <1>2, <1>3 DEF ModuleRecord, SameModule, Untouched
<1>7. RecordSound(r, img)
  <2>1. /\ r.stacks = cur.stacks /\ r.tls = cur.tls /\ r.heap = cur.heap
        /\ r.blanked = cur.blanked /\ r.count = cur.count /\ r.writes <= 1
        /\ r.type = cur.type
    BY <1>2 DEF ModuleRecord, Untouched
  <2>2. QED
    BY <1>2, <1>6, <2>1, SoundKept
<1> HIDE DEF r
<1>8. QED
  BY <1>1, <1>4, <1>5, <1>6, <1>7, UntouchedFails, Ends DEF Stages

LEMMA ResolveBuildMoves ==
  ASSUME Base, ResolveBuild
  PROVE  \E r, ld : Moves(r, ld)
<1>1. load.stage = "build"
  BY DEF ResolveBuild, At
<1>2. cur \in ModuleRecord /\ RecordSound(cur, img) /\ Untouched(cur)
  BY <1>1, Loading DEF Progress
<1> DEFINE waited == cur.mode = "always"
           translated == waited /\ img.translatable
           r == [cur EXCEPT !.translated = translated, !.waited = waited]
           stage == OpeningStage(translated)
<1>3. translated \in BOOLEAN /\ waited \in BOOLEAN
  OBVIOUS
<1>4. SetCtx(r) /\ Goto(stage)
  BY DEF ResolveBuild
<1>5. stage \in {"image", "library"}
  BY DEF OpeningStage
<1> HIDE DEF waited, translated, stage
<1>6. r \in ModuleRecord /\ SameModule(r) /\ Untouched(r)
  BY <1>2, <1>3 DEF ModuleRecord, SameModule, Untouched
<1>7. RecordSound(r, img)
  <2>1. /\ r.stacks = cur.stacks /\ r.tls = cur.tls /\ r.heap = cur.heap
        /\ r.blanked = cur.blanked /\ r.count = cur.count /\ r.writes <= 1
        /\ r.type = cur.type
    BY <1>2 DEF ModuleRecord, Untouched
  <2>2. QED
    BY <1>2, <1>6, <2>1, SoundKept
<1> HIDE DEF r
<1>8. QED
  BY <1>1, <1>4, <1>5, <1>6, <1>7, UntouchedFails, Ends DEF Stages

-----------------------------------------------------------------------------
(* The runtimes.                                                           *)

LEMMA NoRuntimeMoves ==
  ASSUME Base, NoRuntime
  PROVE  \E r, ld : Moves(r, ld)
<1>1. load.stage = "image" /\ ctx' = ctx /\ Goto("failed")
  BY DEF NoRuntime, At
<1>2. Progress(cur, img, "failed", 0)
  BY DEF Progress
<1>3. QED
  BY <1>1, <1>2, Passes DEF Stages

LEMMA ReadImageMoves ==
  ASSUME Base, ReadImage
  PROVE  \E r, ld : Moves(r, ld)
<1>1. load.stage = "image" /\ has_runtime
  BY DEF ReadImage, At
<1>2. /\ cur \in ModuleRecord /\ RecordSound(cur, img) /\ Untouched(cur)
      /\ img = Image[cur.image] /\ cur.image \in DOMAIN Image
      /\ cur.count \in Nat \ {0}
  BY <1>1, Loading DEF Progress
<1> DEFINE type   == IF info.found THEN host.runtime ELSE "none"
           base   == ReadStackPointer(img.binary)
           shares == info.found /\ info.shared
           safe   == info.found /\ MemorySafe
           r == [cur EXCEPT !.type = type, !.stack_base = base,
                            !.shares = shares, !.memory_safe = safe]
           stage == IF MemoryAccepted
                    THEN (IF host.runtime = "wamr" THEN "load" ELSE "compile")
                    ELSE "failed"
<1>3. /\ host.runtime \in {"wasmtime", "wamr"}
      /\ type \in Types /\ base \in Nat /\ shares \in BOOLEAN /\ safe \in BOOLEAN
  BY <1>1, <1>2, ModeTyped, ImageFields DEF Base, has_runtime, Types
<1>4. SetCtx(r) /\ Goto(stage)
  BY DEF ReadImage
<1>5. ASSUME MemoryAccepted
      PROVE  /\ type = host.runtime
             /\ cur.count > 1 /\ type = "wasmtime" => OnlyPassiveData(img.binary)
             /\ cur.count > 1 /\ type = "wamr" => ReadMemoryInfo(img.binary).shared
  BY <1>5, <1>3 DEF MemoryAccepted, MemorySafe, info
<1>6. stage \in {"load", "compile", "failed"}
  OBVIOUS
<1>7. stage # "failed" => /\ MemoryAccepted
                          /\ stage = "load" => host.runtime = "wamr"
                          /\ stage = "compile" => host.runtime = "wasmtime"
  BY <1>3
<1> HIDE DEF type, base, shares, safe, stage
<1>8. /\ r \in ModuleRecord /\ SameModule(r) /\ r.type = type /\ r.count = cur.count
      /\ r.stack_base = base /\ r.stacks = <<>> /\ r.tls = <<>> /\ r.writes = 0
  BY <1>2, <1>3 DEF ModuleRecord, SameModule, Untouched
<1>9. RecordSound(r, img)
  <2>1. /\ r.stacks = cur.stacks /\ r.tls = cur.tls /\ r.heap = cur.heap
        /\ r.blanked = cur.blanked /\ r.writes <= 1
        /\ cur.stacks = <<>> /\ cur.blanked = {}
    BY <1>2, <1>8 DEF ModuleRecord, Untouched
  <2>2. QED
    BY <1>2, <1>8, <2>1, SoundKept
<1> HIDE DEF r
<1>10. stage # "failed" => Suited(r, img)
  BY <1>3, <1>5, <1>7, <1>8 DEF Suited, base
<1>11. Progress(r, img, stage, 0)
  <2>1. Len(r.stacks) = 0
    BY <1>8
  <2>2. QED
    BY <1>5, <1>6, <1>7, <1>8, <2>1 DEF Progress
<1>12. QED
  BY <1>1, <1>4, <1>6, <1>8, <1>9, <1>10, <1>11, Ends DEF Stages

LEMMA CompileMoves ==
  ASSUME Base, Compile
  PROVE  \E r, ld : Moves(r, ld)
<1>1. load.stage = "compile" /\ ctx' = ctx /\ Goto("runner")
  BY DEF Compile, At
<1>2. /\ Suited(cur, img) /\ cur.type = "wasmtime" /\ cur.writes = 0
      /\ cur.stacks = <<>> /\ cur.tls = <<>>
  BY <1>1, Loading DEF Progress
<1>3. Progress(cur, img, "runner", 0)
  <2>1. Len(cur.stacks) = 0
    BY <1>2
  <2>2. QED
    BY <1>2, <2>1 DEF Progress
<1>4. QED
  BY <1>1, <1>2, <1>3, Passes DEF Stages

(* The stacks a module can be given are regions.                           *)
LEMMA StacksTyped ==
  ASSUME NEW path \in DOMAIN Image
  PROVE  LET im == Image[path] IN
         /\ LinkedStackOf(im) \in Regions /\ DataEndOf(im) \in Nat
         /\ \A i \in Nat \ {0} : AuxStackOf(im, i) \in Regions
         /\ \A n \in Nat \ {0}, i \in Nat :
              i < n /\ Divisible(im.stack_top, DataEndOf(im), n) =>
                Slice(im.stack_top, n, i) \in Regions
<1> DEFINE im == Image[path]
           end == DataEndOf(im)
<1>1. /\ im.stack_bottom \in Nat /\ im.stack_top \in Nat /\ im.memory_size \in Nat
      /\ im.data.hi \in Nat /\ im.stack_bottom < im.stack_top
  BY ImageFields DEF LaidOut
<1> HIDE DEF im
<1>2. LinkedStackOf(im) \in Regions /\ end \in Nat
  BY <1>1 DEF LinkedStackOf, Region, Regions, DataEndOf
<1>3. ASSUME NEW i \in Nat \ {0}
      PROVE  AuxStackOf(im, i) \in Regions
  <2> DEFINE size == im.stack_top - im.stack_bottom
             lower == (i - 1) * (size + 16)
  <2>1. size \in Nat /\ i - 1 \in Nat /\ size + 16 \in Nat
    BY <1>1
  <2>2. lower \in Nat /\ i * (size + 16) = lower + (size + 16)
    <3> HIDE DEF size
    <3>1. \A a, b \in Nat : a * b \in Nat /\ (a + 1) * b = a * b + b
      BY SMTT(30)
    <3>2. (i - 1) + 1 = i
      OBVIOUS
    <3>3. QED
      BY <2>1, <3>1, <3>2
  <2>3. AuxStackOf(im, i) = Region((im.memory_size + i * (size + 16)) - size,
                                   im.memory_size + i * (size + 16))
    BY DEF AuxStackOf
  <2> HIDE DEF size, lower
  <2>4. QED
    BY <1>1, <2>1, <2>2, <2>3 DEF Region, Regions
<1>4. ASSUME NEW n \in Nat \ {0}, NEW i \in Nat, i < n, Divisible(im.stack_top, end, n)
      PROVE  Slice(im.stack_top, n, i) \in Regions
  <2>1. i \in 0 .. n - 1
    BY <1>4
  <2>2. /\ SliceSize(im.stack_top, n) \in Nat
        /\ SliceSize(im.stack_top, n) * i \in Nat
        /\ SliceSize(im.stack_top, n) * (i + 1)
             = SliceSize(im.stack_top, n) * i + SliceSize(im.stack_top, n)
        /\ Slice(im.stack_top, n, i) = Region(SliceSize(im.stack_top, n) * i,
                                              SliceSize(im.stack_top, n) * (i + 1))
    <3> HIDE DEF end
    <3> DEFINE base == im.stack_top
    <3>1. base \in Nat /\ end \in Nat /\ Divisible(base, end, n)
      BY <1>1, <1>2, <1>4
    <3> HIDE DEF base
    <3>2. SliceSize(base, n) \in Nat
      BY <3>1, SlicesFill
    <3>3. /\ SliceSize(base, n) * i \in Nat
          /\ SliceSize(base, n) * (i + 1)
               = SliceSize(base, n) * i + SliceSize(base, n)
          /\ Slice(base, n, i) = Region(SliceSize(base, n) * i,
                                       SliceSize(base, n) * (i + 1))
      BY <2>1, <3>1, SliceBounds, Zenon
    <3>4. QED
      BY <3>2, <3>3 DEF base
  <2>3. QED
    BY <2>2 DEF Region, Regions
<1>5. QED
  BY <1>2, <1>3, <1>4 DEF im

LEMMA WasmtimeStack ==
  ASSUME Base, load.stage = "runner", StackGiven(load.i)
  PROVE  /\ StackOf(StackBaseOf(load.i), load.i) \in Regions
         /\ StackOf(StackBaseOf(load.i), load.i) = StackAt(cur, img, load.i + 1)
         /\ cur.count > 1 => /\ Divisible(img.stack_top, DataEndOf(img), cur.count)
                             /\ StackBaseOf(load.i) = img.stack_top
<1>1. /\ cur \in ModuleRecord /\ img = Image[cur.image] /\ cur.image \in DOMAIN Image
      /\ load.i \in Nat /\ cur.count \in Nat \ {0} /\ load.i < cur.count
      /\ Progress(cur, img, load.stage, load.i)
  BY Loading
<1>2. cur.type = "wasmtime" /\ (load.i > 0 /\ cur.count > 1 => cur.stack_base = img.stack_top)
  BY <1>1 DEF Progress
<1>3. LinkedDataEnd = DataEndOf(img) /\ LinkedStack = LinkedStackOf(img)
  BY DEF LinkedDataEnd, DataEndOf, LinkedStack, LinkedStackOf
<1>4. CASE cur.count = 1
  BY <1>1, <1>3, <1>4, StacksTyped DEF StackOf, StackAt
<1>5. CASE cur.count # 1
  <2>1. /\ "__stack_pointer" \in img.exports
        /\ Divisible(StackBaseOf(load.i), DataEndOf(img), cur.count)
    BY <1>3, <1>5 DEF StackGiven
  <2>2. StackBaseOf(load.i) = img.stack_top
    BY <1>1, <1>2, <1>5, <2>1 DEF StackBaseOf
  <2>3. StackOf(StackBaseOf(load.i), load.i) = Slice(img.stack_top, cur.count, load.i)
    BY <1>5, <2>2 DEF StackOf
  <2>4. Slice(img.stack_top, cur.count, load.i) \in Regions
    BY <1>1, <2>1, <2>2, StacksTyped
  <2>5. StackAt(cur, img, load.i + 1) = Slice(img.stack_top, cur.count, load.i)
    <3>1. (load.i + 1) - 1 = load.i
      BY <1>1
    <3>2. QED
      BY <1>2, <1>5, <3>1 DEF StackAt
  <2>6. QED
    BY <2>1, <2>2, <2>3, <2>4, <2>5
<1>6. QED
  BY <1>4, <1>5

LEMMA InitWasmtimeRunnerMoves ==
  ASSUME Base, InitWasmtimeRunner
  PROVE  \E r, ld : Moves(r, ld)
<1>1. load.stage = "runner"
  BY DEF InitWasmtimeRunner, At
<1>2. /\ cur \in ModuleRecord /\ img = Image[cur.image] /\ cur.image \in DOMAIN Image
      /\ load.i \in Nat /\ cur.count \in Nat \ {0} /\ load.i < cur.count
      /\ Suited(cur, img) /\ RecordSound(cur, img)
      /\ Progress(cur, img, load.stage, load.i)
  BY <1>1, Loading
<1>3. /\ cur.type = "wasmtime" /\ cur.writes = (IF load.i = 0 THEN 0 ELSE 1)
      /\ Len(cur.stacks) = load.i /\ cur.tls = <<>>
  BY <1>1, <1>2 DEF Progress
<1> DEFINE base   == StackBaseOf(load.i)
           stack  == StackOf(base, load.i)
           writes == IF load.i = 0 \/ ~OnlyPassiveData(img.binary)
                     THEN cur.writes + 1 ELSE cur.writes
           r == [cur EXCEPT !.stack_base = base, !.stacks = Append(cur.stacks, stack),
                            !.writes = writes]
           d == [r EXCEPT !.stacks = cur.stacks]
<1>4. base \in Nat /\ base \in {ReadStackPointer(img.binary), img.stack_top}
  <2>1. img.stack_top \in Nat /\ cur.stack_base \in Nat
    BY <1>2, ImageFields, RecordFields
  <2>2. cur.stack_base \in {ReadStackPointer(img.binary), img.stack_top}
    BY <1>2, <1>3 DEF Suited
  <2>3. QED
    BY <2>1, <2>2 DEF StackBaseOf
<1>5. writes = 1
  <2>1. load.i > 0 => OnlyPassiveData(img.binary)
    BY <1>2, <1>3 DEF Suited
  <2>2. QED
    BY <1>2, <1>3, <2>1
<1>6. IF StackGiven(load.i)
      THEN /\ SetCtx(r)
           /\ IF load.i + 1 < cur.count THEN Again ELSE Goto("symbols")
      ELSE SetCtx(d) /\ Goto("failed")
  BY DEF InitWasmtimeRunner
<1>7. CASE ~StackGiven(load.i)
  <2>1. /\ d \in ModuleRecord /\ SameModule(d) /\ d.stacks = cur.stacks /\ d.tls = cur.tls
        /\ d.heap = cur.heap /\ d.blanked = cur.blanked /\ d.count = cur.count
        /\ d.writes <= 1 /\ d.type = cur.type
    <3> HIDE DEF base, stack, writes
    <3>1. d = [cur EXCEPT !.stack_base = base, !.stacks = cur.stacks, !.writes = writes]
      BY Zenon
    <3>2. cur.stacks \in Seq(Regions)
      BY <1>2, RecordFields
    <3> HIDE DEF d, r
    <3>3. cur \in ModuleRecord
      BY <1>2
    <3>4. d \in ModuleRecord
      BY <1>4, <1>5, <3>1, <3>2, <3>3 DEF ModuleRecord
    <3>5. QED
      BY <1>5, <3>1, <3>3, <3>4 DEF ModuleRecord, SameModule
  <2> HIDE DEF d
  <2>2. RecordSound(d, img)
    BY <1>2, <2>1, SoundKept
  <2>3. Progress(d, img, "failed", 0)
    BY DEF Progress
  <2>4. QED
    BY <1>1, <1>6, <1>7, <2>1, <2>2, <2>3, Ends DEF Stages
<1>8. CASE StackGiven(load.i)
  <2>1. /\ stack \in Regions /\ stack = StackAt(cur, img, load.i + 1)
        /\ cur.count > 1 => /\ Divisible(img.stack_top, DataEndOf(img), cur.count)
                            /\ base = img.stack_top
    BY <1>1, <1>8, WasmtimeStack
  <2> HIDE DEF base, stack, writes
  <2>2. cur.stacks \in Seq(Regions)
    BY <1>2, RecordFields
  <2>3. Append(cur.stacks, stack) \in Seq(Regions)
    BY <2>1, <2>2, ListExtended
  <2>3a. Len(Append(cur.stacks, stack)) = load.i + 1
    BY <1>3, <2>1, <2>2, ListExtended
  <2>4. /\ r \in ModuleRecord /\ SameModule(r) /\ r.stacks = Append(cur.stacks, stack)
        /\ r.tls = cur.tls /\ r.heap = cur.heap /\ r.blanked = cur.blanked
        /\ r.count = cur.count /\ r.writes = 1 /\ r.type = cur.type
        /\ r.stack_base = base
    BY <1>2, <1>4, <1>5, <2>3 DEF ModuleRecord, SameModule
  <2> HIDE DEF r
  <2>5. RecordSound(r, img)
    <3>1. Len(cur.stacks) < cur.count
      BY <1>2, <1>3
    <3>2. QED
      BY <1>2, <1>3, <2>1, <2>4, <3>1, StackAdded
  <2>6. Suited(r, img)
    BY <1>2, <1>3, <1>4, <2>4 DEF Suited
  <2>7. CASE load.i + 1 < cur.count
    <3>1. Progress(r, img, "runner", load.i + 1)
      BY <1>2, <1>3, <2>1, <2>3a, <2>4 DEF Progress
    <3>2. QED
      BY <1>1, <1>2, <1>6, <1>8, <2>4, <2>5, <2>6, <2>7, <3>1, Repeats
  <2>8. CASE ~(load.i + 1 < cur.count)
    <3>1. Len(r.stacks) = r.count
      BY <1>2, <2>3a, <2>4, <2>8
    <3>2. Progress(r, img, "symbols", 0)
      BY <1>2, <1>3, <2>4, <3>1 DEF Progress
    <3>3. QED
      BY <1>1, <1>6, <1>8, <2>4, <2>5, <2>6, <2>8, <3>2, Ends DEF Stages
  <2>9. QED
    BY <2>7, <2>8
<1>9. QED
  BY <1>7, <1>8

-----------------------------------------------------------------------------
(* WAMR.                                                                   *)

LEMMA LoadImageMoves ==
  ASSUME Base, LoadImage
  PROVE  \E r, ld : Moves(r, ld)
<1>1. /\ load.stage = "load" /\ ctx' = ctx
      /\ \E stage \in {"undo_children", "instantiate"} : Goto(stage)
  BY DEF LoadImage, At
<1>2. /\ Suited(cur, img) /\ cur.type = "wamr" /\ cur.writes = 0
      /\ cur.stacks = <<>> /\ cur.tls = <<>>
  BY <1>1, Loading DEF Progress
<1>3. ASSUME NEW stage \in {"undo_children", "instantiate"}
      PROVE  Progress(cur, img, stage, 0)
  BY <1>2 DEF Progress
<1>4. QED
  BY <1>1, <1>2, <1>3, Passes DEF Stages

LEMMA InstantiateMoves ==
  ASSUME Base, Instantiate
  PROVE  \E r, ld : Moves(r, ld)
<1>1. load.stage = "instantiate"
  BY DEF Instantiate, At
<1>2. /\ Suited(cur, img) /\ cur.type = "wamr" /\ cur.writes = 0
      /\ cur.stacks = <<>> /\ cur.tls = <<>>
      /\ cur \in ModuleRecord /\ RecordSound(cur, img)
  BY <1>1, Loading DEF Progress
<1> DEFINE r == [cur EXCEPT !.writes = cur.writes + 1]
<1>3. SetCtx(r) /\ Goto("objects")
  BY DEF Instantiate
<1>4. /\ r \in ModuleRecord /\ SameModule(r) /\ r.type = cur.type /\ r.count = cur.count
      /\ r.stack_base = cur.stack_base /\ r.stacks = <<>> /\ r.tls = <<>>
      /\ r.heap = cur.heap /\ r.blanked = cur.blanked /\ r.writes <= 1
  BY <1>2 DEF ModuleRecord, SameModule
<1> HIDE DEF r
<1>5. RecordSound(r, img)
  BY <1>2, <1>4, SoundKept
<1>6. Suited(r, img)
  BY <1>2, <1>4 DEF Suited
<1>7. Progress(r, img, "objects", 0)
  BY <1>2, <1>4 DEF Progress
<1>8. QED
  BY <1>1, <1>3, <1>4, <1>5, <1>6, <1>7, Ends DEF Stages

LEMMA AllocateRunnersMoves ==
  ASSUME Base, AllocateRunners
  PROVE  \E r, ld : Moves(r, ld)
<1>1. load.stage = "objects" /\ ctx' = ctx /\ Goto("environment")
  BY DEF AllocateRunners, At
<1>2. /\ Suited(cur, img) /\ cur.type = "wamr" /\ cur.stacks = <<>> /\ cur.tls = <<>>
  BY <1>1, Loading DEF Progress
<1>3. Progress(cur, img, "environment", 0)
  <2>1. Len(cur.stacks) = 0
    BY <1>2
  <2>2. QED
    BY <1>2, <2>1 DEF Progress
<1>4. QED
  BY <1>1, <1>2, <1>3, Passes DEF Stages

LEMMA CreateEnvironmentMoves ==
  ASSUME Base, CreateEnvironment
  PROVE  \E r, ld : Moves(r, ld)
<1>1. load.stage = "environment"
  BY DEF CreateEnvironment, At
<1>2. /\ cur \in ModuleRecord /\ img = Image[cur.image] /\ cur.image \in DOMAIN Image
      /\ load.i \in Nat /\ cur.count \in Nat \ {0} /\ load.i < cur.count
      /\ Suited(cur, img) /\ RecordSound(cur, img)
      /\ Progress(cur, img, load.stage, load.i)
  BY <1>1, Loading
<1>3. cur.type = "wamr" /\ Len(cur.stacks) = load.i /\ cur.tls = <<>>
  BY <1>1, <1>2 DEF Progress
<1> DEFINE stack == IF load.i = 0 THEN LinkedStack ELSE AuxStack(load.i)
           room  == /\ "__stack_pointer" \in img.exports
                    /\ AuxStack(load.i).hi <= img.memory_size + AppHeapSize
           r == [cur EXCEPT !.stacks = Append(cur.stacks, stack)]
<1>4. IF load.i = 0 \/ room
      THEN /\ SetCtx(r)
           /\ IF load.i + 1 < cur.count THEN Again ELSE Goto("symbols")
      ELSE Goto("undo_children") /\ ctx' = ctx
  BY DEF CreateEnvironment
<1>5. stack \in Regions /\ stack = StackAt(cur, img, load.i + 1)
  <2>1. LinkedStack = LinkedStackOf(img) /\ AuxStack(load.i) = AuxStackOf(img, load.i)
    BY DEF LinkedStack, LinkedStackOf, AuxStack, AuxStackOf, AuxSize
  <2>2. LinkedStackOf(img) \in Regions
        /\ \A i \in Nat \ {0} : AuxStackOf(img, i) \in Regions
    BY <1>2, StacksTyped
  <2>3. (load.i + 1) - 1 = load.i /\ (load.i + 1 = 1 <=> load.i = 0)
    BY <1>2
  <2>4. cur.count = 1 => load.i = 0
    BY <1>2
  <2>5. QED
    BY <1>2, <1>3, <2>1, <2>2, <2>3, <2>4 DEF StackAt
<1>6. CASE ~(load.i = 0 \/ room)
  <2>1. Progress(cur, img, "undo_children", 0)
    BY <1>3 DEF Progress
  <2>2. QED
    BY <1>1, <1>2, <1>4, <1>6, <2>1, Passes DEF Stages
<1>7. CASE load.i = 0 \/ room
  <2> HIDE DEF stack, room
  <2>1. cur.stacks \in Seq(Regions)
    BY <1>2, RecordFields
  <2>2. /\ Append(cur.stacks, stack) \in Seq(Regions)
        /\ Len(Append(cur.stacks, stack)) = load.i + 1
    BY <1>3, <1>5, <2>1, ListExtended
  <2>3. /\ r \in ModuleRecord /\ SameModule(r) /\ r.stacks = Append(cur.stacks, stack)
        /\ r.tls = cur.tls /\ r.heap = cur.heap /\ r.blanked = cur.blanked
        /\ r.count = cur.count /\ r.writes = cur.writes /\ r.type = cur.type
        /\ r.stack_base = cur.stack_base
    BY <1>2, <2>2 DEF ModuleRecord, SameModule
  <2> HIDE DEF r
  <2>4. RecordSound(r, img)
    <3>1. Len(cur.stacks) < cur.count /\ cur.writes <= 1
      BY <1>2, <1>3 DEF RecordSound
    <3>2. cur.count > 1 => ReadMemoryInfo(img.binary).shared
      BY <1>2, <1>3 DEF Suited
    <3>3. QED
      BY <1>2, <1>3, <1>5, <2>3, <3>1, <3>2, StackAdded
  <2>5. Suited(r, img)
    BY <1>2, <1>3, <2>3 DEF Suited
  <2>6. CASE load.i + 1 < cur.count
    <3>1. Progress(r, img, "environment", load.i + 1)
      BY <1>3, <2>2, <2>3 DEF Progress
    <3>2. QED
      BY <1>1, <1>2, <1>4, <1>7, <2>3, <2>4, <2>5, <2>6, <3>1, Repeats
  <2>7. CASE ~(load.i + 1 < cur.count)
    <3>1. Len(r.stacks) = r.count
      BY <1>2, <2>2, <2>3, <2>7
    <3>2. Progress(r, img, "symbols", 0)
      BY <1>3, <2>3, <3>1 DEF Progress
    <3>3. QED
      BY <1>1, <1>4, <1>7, <2>3, <2>4, <2>5, <2>7, <3>2, Ends DEF Stages
  <2>8. QED
    BY <2>6, <2>7
<1>8. QED
  BY <1>6, <1>7

(* The steps that undo an initialisation leave the record as it is.        *)
LEMMA UndoMoves ==
  ASSUME Base, \/ DestroyChildren \/ DestroyMain \/ ReleaseRunners
               \/ UnloadModule \/ FreeImage \/ ReleaseInstances
  PROVE  \E r, ld : Moves(r, ld)
<1> DEFINE Goal == \E r, ld : Moves(r, ld)
<1> SUFFICES Goal
  OBVIOUS
<1>1. ASSUME NEW stage \in {"undo_main", "undo_runners", "undo_module", "undo_image"},
             load.stage # "failed", load.stage # "idle",
             Suited(cur, img), cur.type = "wamr", ctx' = ctx, Goto(stage)
      PROVE  Goal
  <2>1. Progress(cur, img, stage, 0)
    BY <1>1 DEF Progress
  <2>2. QED
    BY <1>1, <2>1, Passes DEF Stages
<1>2. ASSUME load.stage # "idle", ctx' = ctx, Goto("failed")
      PROVE  Goal
  <2>1. Progress(cur, img, "failed", 0)
    BY DEF Progress
  <2>2. QED
    BY <1>2, <2>1, Passes DEF Stages
<1> HIDE DEF Goal
<1>3. CASE DestroyChildren
  <2>1. load.stage = "undo_children" /\ ctx' = ctx /\ Goto("undo_main")
    BY <1>3 DEF DestroyChildren, At
  <2>2. QED
    BY <1>1, <2>1, Loading DEF Progress
<1>4. CASE DestroyMain
  <2>1. /\ load.stage = "undo_main" /\ ctx' = ctx
        /\ load' = load \/ Goto("undo_runners")
    BY <1>4 DEF DestroyMain, At
  <2>2. cur.type = "wamr" /\ Suited(cur, img)
    BY <2>1, Loading DEF Progress
  <2>3. CASE Goto("undo_runners")
    BY <1>1, <2>1, <2>2, <2>3
  <2>4. CASE load' = load
    <3>1. /\ load \in Loads /\ load.i \in Nat /\ load.i < cur.count
          /\ cur \in ModuleRecord /\ RecordSound(cur, img) /\ ctx # <<>>
          /\ Progress(cur, img, "undo_main", load.i)
      BY <2>1, Loading
    <3>2. SetCtx(cur) /\ SameModule(cur)
      BY <2>1, <3>1, CurrentSame DEF Base, SameModule
    <3>3. Moves(cur, load)
      BY <2>1, <2>2, <2>4, <3>1, <3>2 DEF Moves
    <3>4. QED
      BY <3>3 DEF Goal
  <2>5. QED
    BY <2>1, <2>3, <2>4
<1>5. CASE ReleaseRunners
  <2>1. load.stage = "undo_runners" /\ ctx' = ctx /\ Goto("undo_module")
        /\ cur.type = "wamr"
    BY <1>5 DEF ReleaseRunners, At
  <2>2. QED
    BY <1>1, <2>1, Loading
<1>6. CASE UnloadModule
  <2>1. load.stage = "undo_module" /\ ctx' = ctx /\ Goto("undo_image")
    BY <1>6 DEF UnloadModule, At
  <2>2. QED
    BY <1>1, <2>1, Loading DEF Progress
<1>7. CASE FreeImage
  BY <1>2, <1>7 DEF FreeImage, At
<1>8. CASE ReleaseInstances
  BY <1>2, <1>8 DEF ReleaseInstances, At
<1>9. QED
  BY <1>3, <1>4, <1>5, <1>6, <1>7, <1>8

-----------------------------------------------------------------------------
(* Translations and native libraries.                                      *)

LEMMA OpenLibraryMoves ==
  ASSUME Base, OpenLibrary
  PROVE  \E r, ld : Moves(r, ld)
<1>1. load.stage = "library"
  BY DEF OpenLibrary, At
<1>2. /\ cur \in ModuleRecord /\ RecordSound(cur, img) /\ Untouched(cur)
  BY <1>1, Loading DEF Progress
<1> DEFINE type == IF cur.translated THEN "translated" ELSE "native"
           r == [cur EXCEPT !.type = type]
<1>3. \/ SetCtx(r) /\ Goto("native_symbols") /\ (cur.translated \/ cur.count = 1)
      \/ Goto("failed") /\ ctx' = ctx
  BY DEF OpenLibrary
<1>4. CASE Goto("failed") /\ ctx' = ctx
  <2>1. Progress(cur, img, "failed", 0)
    BY DEF Progress
  <2>2. QED
    BY <1>1, <1>4, <2>1, Passes DEF Stages
<1>5. CASE SetCtx(r) /\ Goto("native_symbols") /\ (cur.translated \/ cur.count = 1)
  <2>1. /\ type \in {"translated", "native"}
        /\ type = "native" => cur.count = 1
    BY <1>5
  <2> HIDE DEF type
  <2>2. /\ r \in ModuleRecord /\ SameModule(r) /\ r.type = type /\ r.count = cur.count
        /\ r.stacks = cur.stacks /\ r.tls = cur.tls /\ r.heap = cur.heap
        /\ r.blanked = cur.blanked /\ r.writes = cur.writes
        /\ r.stack_base = cur.stack_base
    BY <1>2, <2>1 DEF ModuleRecord, SameModule, Types
  <2> HIDE DEF r
  <2>3. /\ cur.stacks = <<>> /\ cur.blanked = {} /\ cur.writes = 0 /\ cur.tls = <<>>
        /\ cur.stack_base = 0
    BY <1>2 DEF Untouched
  <2>4. RecordSound(r, img)
    <3>1. /\ cur.stacks = <<>> /\ cur.blanked = {} /\ r.writes <= 1
          /\ cur \in ModuleRecord /\ RecordSound(cur, img)
      BY <1>2, <2>2, <2>3
    <3>2. QED
      BY <2>2, <3>1, SoundKept
  <2>5. Suited(r, img)
    BY <2>1, <2>2, <2>3 DEF Suited
  <2>6. Progress(r, img, "native_symbols", 0)
    BY <2>1, <2>2, <2>3 DEF Progress
  <2>7. QED
    BY <1>1, <1>5, <2>2, <2>4, <2>5, <2>6, Ends DEF Stages
<1>6. QED
  BY <1>3, <1>4, <1>5

LEMMA NativeSymbolsMoves ==
  ASSUME Base, NativeSymbols
  PROVE  \E r, ld : Moves(r, ld)
<1>1. load.stage = "native_symbols"
  BY DEF NativeSymbols, At
<1>2. /\ cur \in ModuleRecord /\ RecordSound(cur, img) /\ Suited(cur, img)
      /\ cur.type \in {"native", "translated"} /\ cur.writes = 0
      /\ cur.stacks = <<>> /\ cur.tls = <<>>
      /\ img = Image[cur.image] /\ cur.image \in DOMAIN Image
  BY <1>1, Loading DEF Progress
<1>3. CASE cur.type = "native"
  <2> DEFINE r == [cur EXCEPT !.valid = TRUE]
  <2>1. SetCtx(r) /\ Goto("memory")
    BY <1>3 DEF NativeSymbols
  <2>2. /\ r \in ModuleRecord /\ SameModule(r) /\ r.type = cur.type /\ r.count = cur.count
        /\ r.stacks = cur.stacks /\ r.tls = cur.tls /\ r.heap = cur.heap
        /\ r.blanked = cur.blanked /\ r.writes = cur.writes
        /\ r.stack_base = cur.stack_base /\ r.valid
    BY <1>2 DEF ModuleRecord, SameModule
  <2> HIDE DEF r
  <2>3. RecordSound(r, img) /\ Suited(r, img)
    BY <1>2, <2>2, SoundKept DEF Suited
  <2>4. Progress(r, img, "memory", 0)
    BY <1>2, <1>3, <2>2 DEF Progress, Ready, AllStacks
  <2>5. QED
    BY <1>1, <2>1, <2>2, <2>3, <2>4, Ends DEF Stages
<1>4. CASE cur.type = "translated"
  <2> DEFINE base   == IF "__stack_pointer" \in img.exports THEN img.stack_top ELSE 0
             end    == LinkedDataEnd
             shares == info.shared
             writes == cur.writes + 1
             r == [cur EXCEPT !.valid = TRUE, !.writes = writes, !.shares = shares,
                              !.stack_base = base, !.data_end = end]
  <2>1. SetCtx(r) /\ Goto("divide")
    BY <1>4 DEF NativeSymbols
  <2>2. /\ base \in Nat /\ base \in {0, img.stack_top} /\ shares \in BOOLEAN
        /\ end \in Nat /\ end = DataEndOf(img) /\ writes = 1
    BY <1>2, ImageFields, StacksTyped DEF info, LinkedDataEnd, DataEndOf
  <2> HIDE DEF base, end, shares, writes
  <2>3. r \in ModuleRecord
    <3> DEFINE w == [cur EXCEPT !.valid = TRUE, !.writes = writes, !.shares = shares]
    <3>1. w \in ModuleRecord
      BY <1>2, <2>2 DEF ModuleRecord
    <3>2. r = [w EXCEPT !.stack_base = base, !.data_end = end]
      BY <1>2 DEF ModuleRecord
    <3> HIDE DEF w, r
    <3>3. QED
      BY <2>2, <3>1, <3>2 DEF ModuleRecord
  <2>3a. /\ SameModule(r) /\ r.type = cur.type /\ r.count = cur.count
        /\ r.stacks = cur.stacks /\ r.tls = cur.tls /\ r.heap = cur.heap
        /\ r.blanked = cur.blanked /\ r.writes = 1
        /\ r.stack_base = base /\ r.valid /\ r.data_end = end
    BY <1>2, <2>2 DEF ModuleRecord, SameModule
  <2> HIDE DEF r
  <2>4. RecordSound(r, img)
    BY <1>2, <2>3, <2>3a, SoundKept
  <2>5. Suited(r, img)
    BY <1>4, <2>2, <2>3a DEF Suited
  <2>6. Progress(r, img, "divide", 0)
    BY <1>2, <1>4, <2>2, <2>3a DEF Progress
  <2>7. QED
    BY <1>1, <2>1, <2>3, <2>3a, <2>4, <2>5, <2>6, Ends DEF Stages
<1>5. QED
  BY <1>2, <1>3, <1>4

LEMMA DivideStackMoves ==
  ASSUME Base, DivideStack
  PROVE  \E r, ld : Moves(r, ld)
<1>1. /\ load.stage = "divide" /\ ctx' = ctx
      /\ \/ Goto("failed")
         \/ /\ Goto("slices")
            /\ cur.count = 1 \/ Divisible(cur.stack_base, cur.data_end, cur.count)
  BY DEF DivideStack, At
<1>2. /\ Suited(cur, img) /\ cur.type = "translated" /\ cur.valid
      /\ cur.stacks = <<>> /\ cur.tls = <<>> /\ cur.data_end = DataEndOf(img)
  BY <1>1, Loading DEF Progress
<1>3. CASE Goto("failed")
  <2>1. Progress(cur, img, "failed", 0)
    BY DEF Progress
  <2>2. QED
    BY <1>1, <1>3, <2>1, Passes DEF Stages
<1>4. CASE /\ Goto("slices")
           /\ cur.count = 1 \/ Divisible(cur.stack_base, cur.data_end, cur.count)
  <2>1. Len(cur.stacks) = 0 /\ ~(cur.count > 1 /\ cur.count = 1)
    BY <1>1, <1>2, Loading
  <2>2. Progress(cur, img, "slices", 0)
    BY <1>2, <1>4, <2>1 DEF Progress
  <2>3. QED
    BY <1>1, <1>2, <1>4, <2>2, Passes DEF Stages
<1>5. QED
  BY <1>1, <1>3, <1>4

LEMMA TranslatedRunnerMoves ==
  ASSUME Base, TranslatedRunner
  PROVE  \E r, ld : Moves(r, ld)
<1>1. load.stage = "slices"
  BY DEF TranslatedRunner, At
<1>2. /\ cur \in ModuleRecord /\ img = Image[cur.image] /\ cur.image \in DOMAIN Image
      /\ load.i \in Nat /\ cur.count \in Nat \ {0} /\ load.i < cur.count
      /\ Suited(cur, img) /\ RecordSound(cur, img)
      /\ Progress(cur, img, load.stage, load.i)
  BY <1>1, Loading
<1>3. /\ cur.type = "translated" /\ cur.valid /\ Len(cur.stacks) = load.i
      /\ cur.tls = <<>> /\ cur.data_end = DataEndOf(img)
      /\ cur.count > 1 => Divisible(cur.stack_base, DataEndOf(img), cur.count)
  BY <1>1, <1>2 DEF Progress
<1> DEFINE stack == StackOf(cur.stack_base, load.i)
           r == [cur EXCEPT !.stacks = Append(cur.stacks, stack)]
<1>4. /\ SetCtx(r)
      /\ CASE load.i + 1 < cur.count -> Again
           [] load.i + 1 = cur.count /\ cur.count > 1 -> Loop("tls", 1)
           [] OTHER -> Goto("memory")
  BY DEF TranslatedRunner
<1>5. /\ stack \in Regions /\ stack = StackAt(cur, img, load.i + 1)
      /\ cur.count > 1 => Divisible(img.stack_top, DataEndOf(img), cur.count)
  <2>1. CASE cur.count = 1
    BY <1>2, <2>1, StacksTyped
       DEF StackOf, StackAt, LinkedStack, LinkedStackOf
  <2>2. CASE cur.count # 1
    <3>1. Divisible(cur.stack_base, DataEndOf(img), cur.count)
      BY <1>2, <1>3, <2>2
    <3>2. cur.stack_base = img.stack_top
      BY <1>2, <1>3, <3>1 DEF Suited, Divisible
    <3>3. stack = Slice(img.stack_top, cur.count, load.i)
      BY <2>2, <3>2 DEF StackOf
    <3>4. (load.i + 1) - 1 = load.i
      BY <1>2
    <3>5. StackAt(cur, img, load.i + 1) = Slice(img.stack_top, cur.count, load.i)
      BY <1>3, <2>2, <3>4 DEF StackAt
    <3>6. Slice(img.stack_top, cur.count, load.i) \in Regions
      BY <1>2, <3>1, <3>2, StacksTyped
    <3>7. QED
      BY <3>1, <3>2, <3>3, <3>5, <3>6
  <2>3. QED
    BY <2>1, <2>2
<1> HIDE DEF stack
<1>6. cur.stacks \in Seq(Regions)
  BY <1>2, RecordFields
<1>7. /\ Append(cur.stacks, stack) \in Seq(Regions)
      /\ Len(Append(cur.stacks, stack)) = load.i + 1
  BY <1>3, <1>5, <1>6, ListExtended
<1>8. /\ r \in ModuleRecord /\ SameModule(r) /\ r.stacks = Append(cur.stacks, stack)
      /\ r.tls = cur.tls /\ r.heap = cur.heap /\ r.blanked = cur.blanked
      /\ r.count = cur.count /\ r.writes = cur.writes /\ r.type = cur.type
      /\ r.stack_base = cur.stack_base /\ r.data_end = cur.data_end /\ r.valid = cur.valid
  BY <1>2, <1>7 DEF ModuleRecord, SameModule
<1> HIDE DEF r
<1>9. RecordSound(r, img)
  <2>1. Len(cur.stacks) < cur.count /\ cur.writes <= 1
    BY <1>2, <1>3 DEF RecordSound
  <2>2. QED
    BY <1>2, <1>3, <1>5, <1>8, <2>1, StackAdded
<1>10. Suited(r, img)
  BY <1>2, <1>3, <1>8 DEF Suited
<1>11. CASE load.i + 1 < cur.count
  <2>1. Progress(r, img, "slices", load.i + 1)
    BY <1>3, <1>7, <1>8 DEF Progress
  <2>2. Again
    <3>1. load.i + 1 # cur.count
      BY <1>2, <1>11
    <3>2. QED
      BY <1>4, <1>11, <3>1
  <2>3. QED
    BY <1>1, <1>2, <1>4, <1>8, <1>9, <1>10, <1>11, <2>1, <2>2, Repeats
<1>12. CASE ~(load.i + 1 < cur.count)
  <2>1. Len(r.stacks) = r.count /\ load.i + 1 = cur.count
    BY <1>2, <1>7, <1>8, <1>12
  <2>2. Ready(r)
    BY <1>3, <1>8, <2>1 DEF Ready, AllStacks
  <2>3. CASE cur.count > 1
    <3>1. load' = [load EXCEPT !.stage = "tls", !.i = 1]
      BY <1>4, <1>12, <2>1, <2>3 DEF Loop
    <3>2. Len(r.tls) < 1
      BY <1>3, <1>8
    <3>3. Progress(r, img, "tls", 1)
      BY <1>3, <1>8, <2>2, <3>2 DEF Progress
    <3>4. QED
      BY <1>1, <1>4, <1>8, <1>9, <1>10, <2>3, <3>1, <3>3, Proceeds DEF Stages
  <2>4. CASE ~(cur.count > 1)
    <3>1. Goto("memory")
      BY <1>4, <1>12, <2>4
    <3>2. Progress(r, img, "memory", 0)
      BY <1>3, <1>8, <2>2 DEF Progress
    <3>3. QED
      BY <1>1, <1>4, <1>8, <1>9, <1>10, <3>1, <3>2, Ends DEF Stages
  <2>5. QED
    BY <2>3, <2>4
<1>13. QED
  BY <1>11, <1>12

-----------------------------------------------------------------------------
(* What the backends share.                                                *)

LEMMA RuntimeSymbolsMoves ==
  ASSUME Base, RuntimeSymbols
  PROVE  \E r, ld : Moves(r, ld)
<1>1. load.stage = "symbols"
  BY DEF RuntimeSymbols, At
<1>2. /\ cur \in ModuleRecord /\ RecordSound(cur, img) /\ Suited(cur, img)
      /\ cur.type \in {"wasmtime", "wamr"} /\ cur.tls = <<>>
      /\ Len(cur.stacks) = cur.count
      /\ img = Image[cur.image] /\ cur.image \in DOMAIN Image
  BY <1>1, Loading DEF Progress
<1> DEFINE end == LinkedDataEnd
           r == [cur EXCEPT !.valid = TRUE, !.data_end = end]
<1>3. SetCtx(r) /\ Goto("memory")
  BY DEF RuntimeSymbols
<1>4. end \in Nat /\ end = DataEndOf(img)
  BY <1>2, StacksTyped DEF LinkedDataEnd, DataEndOf
<1> HIDE DEF end
<1>5. /\ r \in ModuleRecord /\ SameModule(r) /\ r.type = cur.type /\ r.count = cur.count
      /\ r.stacks = cur.stacks /\ r.tls = cur.tls /\ r.heap = cur.heap
      /\ r.blanked = cur.blanked /\ r.writes = cur.writes
      /\ r.stack_base = cur.stack_base /\ r.valid /\ r.data_end = end
  BY <1>2, <1>4 DEF ModuleRecord, SameModule
<1> HIDE DEF r
<1>6. r.writes <= 1
  BY <1>2, <1>5 DEF RecordSound
<1>7. RecordSound(r, img)
  BY <1>2, <1>5, <1>6, SoundKept
<1>8. Suited(r, img)
  BY <1>2, <1>5 DEF Suited
<1>9. Progress(r, img, "memory", 0)
  BY <1>2, <1>4, <1>5 DEF Progress, Ready, AllStacks
<1>10. QED
  BY <1>1, <1>3, <1>5, <1>7, <1>8, <1>9, Ends DEF Stages

LEMMA InitMemoryMoves ==
  ASSUME Base, InitMemory
  PROVE  \E r, ld : Moves(r, ld)
<1>1. load.stage = "memory" /\ ctx' = ctx
  BY DEF InitMemory, At
<1>2. /\ cur \in ModuleRecord /\ RecordSound(cur, img) /\ Suited(cur, img)
      /\ Ready(cur) /\ (cur.type # "native" => cur.data_end = DataEndOf(img))
      /\ cur.type # "translated" => cur.tls = <<>>
      /\ cur.count \in Nat \ {0} /\ ctx # <<>>
  BY <1>1, Loading DEF Progress
<1>3. CASE cur.type \in {"wasmtime", "wamr"} /\ cur.count > 1
  <2>1. load' = [load EXCEPT !.stage = "tls", !.i = 1]
    BY <1>3 DEF InitMemory, Loop
  <2>2. SetCtx(cur) /\ SameModule(cur)
    BY <1>1, <1>2, CurrentSame DEF Base, SameModule
  <2>3. Len(cur.tls) < 1
    BY <1>2, <1>3
  <2>4. Progress(cur, img, "tls", 1)
    BY <1>2, <1>3, <2>3 DEF Progress
  <2>5. QED
    BY <1>1, <1>2, <1>3, <2>1, <2>2, <2>4, Proceeds DEF Stages
<1>4. CASE ~(cur.type \in {"wasmtime", "wamr"} /\ cur.count > 1)
  <2>1. Goto("blank")
    BY <1>4 DEF InitMemory
  <2>2. Progress(cur, img, "blank", 0)
    BY <1>2 DEF Progress
  <2>3. QED
    BY <1>1, <1>2, <2>1, <2>2, Passes DEF Stages
<1>5. QED
  BY <1>3, <1>4

(* A failure.                                                              *)
LEMMA FailureMoves ==
  ASSUME Base, StepFails \/ TlsRefused
  PROVE  \E r, ld : Moves(r, ld)
<1> DEFINE r == [cur EXCEPT !.valid = FALSE]
<1>1. load.stage \in Fallible /\ SetCtx(r) /\ Goto(UndoStage)
  BY DEF StepFails, TlsRefused, Fallible, At
<1>2. load.stage # "idle" /\ load.stage # "failed"
  BY <1>1 DEF Fallible
<1>3. /\ cur \in ModuleRecord /\ RecordSound(cur, img) /\ Suited(cur, img)
      /\ Progress(cur, img, load.stage, load.i)
  BY <1>2, Loading
<1>4. /\ r \in ModuleRecord /\ SameModule(r) /\ r.type = cur.type /\ r.count = cur.count
      /\ r.stacks = cur.stacks /\ r.tls = cur.tls /\ r.heap = cur.heap
      /\ r.blanked = cur.blanked /\ r.writes = cur.writes
      /\ r.stack_base = cur.stack_base
  BY <1>3 DEF ModuleRecord, SameModule
<1> HIDE DEF r
<1>5. r.writes <= 1
  BY <1>3, <1>4 DEF RecordSound
<1>6. RecordSound(r, img)
  BY <1>3, <1>4, <1>5, SoundKept
<1>7. Suited(r, img)
  BY <1>3, <1>4 DEF Suited
<1>8. /\ UndoStage \in {"undo_image", "undo_children", "undo_runners", "failed"}
      /\ UndoStage \in {"undo_image", "undo_children"} => r.type = "wamr"
      /\ UndoStage = "undo_runners" => r.type = "translated"
  <2>1. CASE load.stage = "load"
    BY <1>3, <1>4, <2>1 DEF UndoStage, Progress
  <2>2. CASE load.stage \in {"instantiate", "objects", "environment"}
    BY <1>3, <1>4, <2>2 DEF UndoStage, Progress
  <2>3. CASE load.stage = "slices"
    BY <1>3, <1>4, <2>3 DEF UndoStage, Progress
  <2>4. CASE load.stage = "tls" /\ cur.type = "translated"
    BY <1>4, <2>4 DEF UndoStage
  <2>5. CASE /\ load.stage \notin {"load", "instantiate", "objects", "environment", "slices"}
             /\ ~(load.stage = "tls" /\ cur.type = "translated")
    BY <2>5 DEF UndoStage
  <2>6. QED
    BY <2>1, <2>2, <2>3, <2>4, <2>5
<1> DEFINE stage == UndoStage
<1>9. /\ stage \in {"undo_image", "undo_children", "undo_runners", "failed"}
      /\ stage \in {"undo_image", "undo_children"} => r.type = "wamr"
      /\ stage = "undo_runners" => r.type = "translated"
      /\ Goto(stage)
  BY <1>1, <1>8
<1> HIDE DEF stage
<1>10. Progress(r, img, stage, 0)
  BY <1>9 DEF Progress
<1>11. QED
  BY <1>1, <1>2, <1>4, <1>6, <1>7, <1>9, <1>10, Ends DEF Stages

LEMMA MemorySizeTyped ==
  ASSUME cur \in ModuleRecord
  PROVE  HostMemorySize \in Nat
<1>1. cur.stack_base \in Nat /\ cur.image \in DOMAIN Image
  BY RecordFields
<1>2. \A a, b \in Nat : a * b \in Nat
  BY SMTT(30)
<1>3. AppHeapSize \in Nat
  BY <1>1, <1>2, InitAssumption DEF AppHeapSize
<1>4. img.memory_size \in Nat
  BY <1>1, ImageFields DEF img
<1>5. QED
  BY <1>3, <1>4 DEF HostMemorySize

LEMMA BlankStackMoves ==
  ASSUME Base, BlankStack
  PROVE  \E r, ld : Moves(r, ld)
<1>1. load.stage = "blank"
  BY DEF BlankStack, At
<1>2. /\ cur \in ModuleRecord /\ RecordSound(cur, img) /\ Suited(cur, img)
      /\ Ready(cur) /\ (cur.type # "native" => cur.data_end = DataEndOf(img))
      /\ img = Image[cur.image] /\ cur.image \in DOMAIN Image
  BY <1>1, Loading DEF Progress
<1>3. CASE cur.type = "native" \/ cur.stack_base = 0
  <2>0. ~(cur.type # "native" /\ cur.stack_base > HostMemorySize)
    BY <1>2, <1>3, MemorySizeTyped
  <2>1. Goto("register") /\ ctx' = ctx
    BY <1>3, <2>0 DEF BlankStack
  <2>2. Progress(cur, img, "register", 0)
    BY <1>2 DEF Progress
  <2>3. QED
    BY <1>1, <1>2, <2>1, <2>2, Passes DEF Stages
<1>4. CASE ~(cur.type = "native" \/ cur.stack_base = 0) /\ cur.stack_base > HostMemorySize
  <2> DEFINE r == [cur EXCEPT !.valid = FALSE]
  <2>1. Goto("failed") /\ SetCtx(r)
    BY <1>4 DEF BlankStack
  <2>2. /\ r \in ModuleRecord /\ SameModule(r) /\ r.type = cur.type /\ r.count = cur.count
        /\ r.stacks = cur.stacks /\ r.tls = cur.tls /\ r.heap = cur.heap
        /\ r.blanked = cur.blanked /\ r.writes = cur.writes
    BY <1>2 DEF ModuleRecord, SameModule
  <2> HIDE DEF r
  <2>3. r.writes <= 1
    BY <1>2, <2>2 DEF RecordSound
  <2>4. RecordSound(r, img)
    BY <1>2, <2>2, <2>3, SoundKept
  <2>5. Progress(r, img, "failed", 0)
    BY DEF Progress
  <2>6. QED
    BY <1>1, <2>1, <2>2, <2>4, <2>5, Ends DEF Stages
<1>5. CASE ~(cur.type = "native" \/ cur.stack_base = 0) /\ ~(cur.stack_base > HostMemorySize)
  <2> DEFINE b == BlankedRegion(cur.stack_base, cur.data_end)
             r == [cur EXCEPT !.blanked = cur.blanked \cup {b}]
  <2>1. Goto("register") /\ SetCtx(r)
    BY <1>5 DEF BlankStack
  <2>2. b \in Regions
    BY <1>2, RecordFields DEF BlankedRegion, Region, Regions
  <2>3. BlankedOne(cur, img, b)
    <3>1. cur.type \in {"wasmtime", "wamr", "translated"}
      BY <1>2, <1>5, RecordFields DEF Ready, Types
    <3>2. cur.stack_base \in {ReadStackPointer(img.binary), img.stack_top, 0}
      BY <1>2, <3>1 DEF Suited
    <3>3. QED
      BY <1>2, <1>5, <3>2 DEF BlankedOne
  <2> HIDE DEF b
  <2>4. cur.blanked \cup {b} \in SUBSET Regions
    BY <1>2, <2>2, RecordFields
  <2>5. /\ r \in ModuleRecord /\ SameModule(r) /\ r.type = cur.type /\ r.count = cur.count
        /\ r.stacks = cur.stacks /\ r.tls = cur.tls /\ r.heap = cur.heap
        /\ r.blanked = cur.blanked \cup {b} /\ r.writes = cur.writes
        /\ r.stack_base = cur.stack_base /\ r.valid = cur.valid
    BY <1>2, <2>4 DEF ModuleRecord, SameModule
  <2> HIDE DEF r
  <2>6. r.writes <= 1
    BY <1>2, <2>5 DEF RecordSound
  <2>7. RecordSound(r, img)
    <3> DEFINE B == {b}
    <3>1. \A x \in B : BlankedOne(cur, img, x)
      BY <2>3
    <3>2. r.blanked = cur.blanked \cup B
      BY <2>5
    <3> HIDE DEF B
    <3>3. QED
      BY <1>2, <2>5, <2>6, <3>1, <3>2, BlankAdded
  <2>8. Suited(r, img)
    BY <1>2, <2>5 DEF Suited
  <2>9. Progress(r, img, "register", 0)
    BY <1>2, <2>5 DEF Progress, Ready, AllStacks
  <2>10. QED
    BY <1>1, <2>1, <2>5, <2>7, <2>8, <2>9, Ends DEF Stages
<1>6. QED
  BY <1>3, <1>4, <1>5

(* The step of a runner's TLS: the stack that WAMR has given to it is      *)
(* blanked, ...                                                            *)
LEMMA AuxStackBlanked ==
  ASSUME Base, load.stage = "tls", AuxFits(load.i)
  PROVE  /\ AuxBlanked(load.i) \subseteq Regions
         /\ \A b \in AuxBlanked(load.i) : BlankedOne(cur, img, b)
<1>1. /\ cur \in ModuleRecord /\ Suited(cur, img) /\ Ready(cur) /\ cur.type # "native"
      /\ load.i \in Nat /\ load.i < cur.count /\ cur.count \in Nat
      /\ Len(cur.tls) < load.i
  BY Loading DEF Progress
<1>2. Len(cur.stacks) = cur.count /\ cur.stacks \in Seq(Regions)
      /\ cur.tls \in Seq(Regions)
  BY <1>1, RecordFields DEF Ready, AllStacks
<1>3. load.i + 1 \in 2 .. Len(cur.stacks) /\ load.i + 1 \in 1 .. Len(cur.stacks)
  <2>1. Len(cur.tls) \in Nat
    BY <1>2, ListFields
  <2>2. QED
    BY <1>1, <1>2, <2>1
<1>4. cur.stacks[load.i + 1].hi \in Nat /\ cur.stack_base \in Nat
  <2>1. cur.stacks[load.i + 1] \in Regions
    BY <1>2, <1>3, ListFields
  <2>2. QED
    BY <1>1, <2>1, RecordFields DEF Regions
<1>5. CASE cur.type = "wamr" /\ cur.stack_base # 0
  <2> DEFINE hi == cur.stacks[load.i + 1].hi
  <2>1. hi >= cur.stack_base /\ AuxBlanked(load.i) = {Region(hi - cur.stack_base, hi)}
    BY <1>5 DEF AuxFits, AuxBlanked
  <2>2. cur.stack_base = ReadStackPointer(img.binary)
    BY <1>1, <1>5 DEF Suited
  <2>3. hi \in Nat
    BY <1>4
  <2> HIDE DEF hi
  <2>4. Region(hi - cur.stack_base, hi) \in Regions
    BY <1>4, <2>1, <2>3 DEF Region, Regions
  <2>5. BlankedOne(cur, img, Region(hi - cur.stack_base, hi))
    BY <1>3, <1>4, <1>5, <2>1, <2>2, <2>3 DEF BlankedOne, hi
  <2>6. QED
    BY <2>1, <2>4, <2>5
<1>6. CASE ~(cur.type = "wamr" /\ cur.stack_base # 0)
  BY <1>6 DEF AuxBlanked
<1>7. QED
  BY <1>5, <1>6

(* ... and its block is aligned within what the allocator gives.           *)
LEMMA BlockPlaced ==
  ASSUME NEW path \in DOMAIN Image, NEW addr \in Nat
  PROVE  LET im == Image[path]
             b  == AlignedBlock(addr, im.tls_size, im.tls_align)
             end == addr + AllocationSize(im.tls_size, im.tls_align)
         IN  /\ b \in Regions /\ end \in Nat
             /\ addr <= b.lo /\ b.lo <= b.hi /\ b.hi <= end
<1> DEFINE size == Image[path].tls_size
           align == Image[path].tls_align
           b == AlignedBlock(addr, size, align)
<1>1. size \in Nat /\ align \in Nat \ {0}
  BY ImageFields
<1> HIDE DEF size, align
<1>2. Inside(b, Region(addr, addr + AllocationSize(size, align)))
  BY <1>1, AlignedBlockFits
<1>3. AlignUp(addr, align) \in Int
  <2> DEFINE x == addr + align - 1
  <2>1. x \in Int
    BY <1>1
  <2> HIDE DEF x
  <2>2. x \div align \in Int
    BY <1>1, <2>1
  <2> DEFINE q == x \div align
  <2>3. q \in Int
    BY <2>2
  <2> HIDE DEF q
  <2>4. \A m, n \in Int : m * n \in Int
    BY SMTT(30)
  <2>5. q * align \in Int
    BY <1>1, <2>3, <2>4
  <2>6. QED
    BY <2>5 DEF AlignUp, q, x
<1>4. /\ addr <= b.lo /\ b.hi <= addr + AllocationSize(size, align)
      /\ b.hi = b.lo + size /\ b.lo \in Int /\ b = Region(b.lo, b.lo + size)
  BY <1>2, <1>3 DEF Inside, Region, AlignedBlock
<1>5. AllocationSize(size, align) \in Nat
  BY <1>1 DEF AllocationSize
<1>6. b \in Regions
  BY <1>1, <1>4 DEF Region, Regions
<1>7. QED
  BY <1>1, <1>4, <1>5, <1>6 DEF size, align

LEMMA InitTlsMoves ==
  ASSUME Base, InitTls
  PROVE  \E r, ld : Moves(r, ld)
<1>1. load.stage = "tls" /\ AuxFits(load.i)
      /\ IF load.i + 1 < cur.count THEN Again ELSE Goto(AfterTls)
  BY DEF InitTls, At
<1>2. /\ cur \in ModuleRecord /\ img = Image[cur.image] /\ cur.image \in DOMAIN Image
      /\ load.i \in Nat /\ cur.count \in Nat \ {0} /\ load.i < cur.count
      /\ Suited(cur, img) /\ RecordSound(cur, img)
      /\ Progress(cur, img, load.stage, load.i)
  BY <1>1, Loading
<1>3. /\ Ready(cur) /\ cur.type # "native" /\ Len(cur.tls) < load.i
      /\ cur.data_end = DataEndOf(img)
  BY <1>1, <1>2 DEF Progress
<1>4. /\ cur.tls \in Seq(Regions) /\ Len(cur.tls) \in Nat /\ cur.heap \in Nat
      /\ cur.blanked \subseteq Regions
  BY <1>2, RecordFields, ListFields
<1> DEFINE c == [cur EXCEPT !.blanked = cur.blanked \cup AuxBlanked(load.i)]
<1>5. /\ c \in ModuleRecord /\ SameModule(c) /\ c.type = cur.type /\ c.count = cur.count
      /\ c.stacks = cur.stacks /\ c.tls = cur.tls /\ c.heap = cur.heap
      /\ c.blanked = cur.blanked \cup AuxBlanked(load.i) /\ c.writes = cur.writes
      /\ c.stack_base = cur.stack_base /\ c.valid = cur.valid /\ c.data_end = cur.data_end
  <2>1. cur.blanked \cup AuxBlanked(load.i) \in SUBSET Regions
    BY <1>1, <1>4, AuxStackBlanked
  <2> DEFINE blanked == cur.blanked \cup AuxBlanked(load.i)
  <2>2. blanked \in SUBSET Regions
    BY <2>1
  <2> HIDE DEF blanked
  <2>3. c = [cur EXCEPT !.blanked = blanked]
    BY DEF blanked
  <2> HIDE DEF c
  <2>4. QED
    BY <1>2, <2>2, <2>3 DEF ModuleRecord, SameModule, blanked
<1>6. PICK addr \in {cur.heap, cur.heap + 8} :
        LET size == AllocationSize(img.tls_size, img.tls_align) IN
        /\ NeedsTls => addr + size <= img.memory_size
        /\ SetCtx(IF ~NeedsTls THEN c
                  ELSE [c EXCEPT !.heap = addr + size,
                                 !.tls = Append(c.tls, AlignedBlock(addr, img.tls_size,
                                                                    img.tls_align))])
  BY DEF InitTls
<1> DEFINE end == addr + AllocationSize(img.tls_size, img.tls_align)
           b   == AlignedBlock(addr, img.tls_size, img.tls_align)
           d   == [c EXCEPT !.heap = end, !.tls = Append(c.tls, b)]
           r   == IF ~NeedsTls THEN c ELSE d
<1>7. SetCtx(r) /\ (NeedsTls => end <= img.memory_size)
  BY <1>6
<1>8. addr \in Nat /\ cur.heap <= addr
  BY <1>4, <1>6
<1>9. /\ b \in Regions /\ end \in Nat /\ addr <= b.lo /\ b.lo <= b.hi /\ b.hi <= end
  BY <1>2, <1>8, BlockPlaced
<1> HIDE DEF end, b, c
<1>10. Append(c.tls, b) \in Seq(Regions) /\ Len(Append(c.tls, b)) = Len(cur.tls) + 1
  BY <1>4, <1>5, <1>9, ListExtended
<1>11. /\ d \in ModuleRecord /\ SameModule(d) /\ d.type = c.type /\ d.count = c.count
       /\ d.stacks = c.stacks /\ d.tls = Append(c.tls, b) /\ d.heap = end
       /\ d.blanked = c.blanked /\ d.writes = c.writes
       /\ d.stack_base = c.stack_base /\ d.valid = c.valid /\ d.data_end = c.data_end
  BY <1>5, <1>9, <1>10 DEF ModuleRecord, SameModule
<1>12. cur.writes <= 1
  BY <1>2 DEF RecordSound
<1>13. RecordSound(c, img)
  <2> DEFINE B == AuxBlanked(load.i)
  <2>1. c.blanked = cur.blanked \cup B /\ \A x \in B : BlankedOne(cur, img, x)
    BY <1>1, <1>5, AuxStackBlanked
  <2>2. c.writes <= 1
    BY <1>5, <1>12
  <2> HIDE DEF B
  <2>3. QED
    BY <1>2, <1>5, <2>1, <2>2, BlankAdded
<1> HIDE DEF d
<1>14. NeedsTls => RecordSound(d, img)
  <2> SUFFICES ASSUME NeedsTls
               PROVE  RecordSound(d, img)
    OBVIOUS
  <2>1. /\ img.heap_base \in Nat /\ img.memory_size \in Nat /\ b.lo \in Nat /\ b.hi \in Nat
    BY <1>2, <1>9, ImageFields DEF Regions
  <2>2. Len(c.tls) + 1 < c.count /\ d.writes <= 1
    BY <1>2, <1>3, <1>4, <1>5, <1>11, <1>12
  <2>3. c.heap <= b.lo /\ b.lo <= b.hi /\ b.hi <= d.heap /\ b.hi <= img.memory_size
    BY <1>4, <1>5, <1>7, <1>8, <1>9, <1>11, <2>1
  <2>4. QED
    BY <1>5, <1>9, <1>11, <1>13, <2>1, <2>2, <2>3, BlockAdded
<1>15. /\ r \in ModuleRecord /\ SameModule(r) /\ RecordSound(r, img)
       /\ r.type = cur.type /\ r.count = cur.count /\ r.stacks = cur.stacks
       /\ r.stack_base = cur.stack_base /\ r.valid = cur.valid
       /\ r.data_end = cur.data_end
       /\ r.tls = c.tls \/ r.tls = Append(c.tls, b)
  BY <1>5, <1>11, <1>13, <1>14
<1>16. Len(r.tls) < load.i + 1
  BY <1>2, <1>3, <1>4, <1>5, <1>10, <1>15
<1> HIDE DEF r
<1>17. Suited(r, img) /\ Ready(r)
  BY <1>2, <1>3, <1>15 DEF Suited, Ready, AllStacks
<1>18. CASE load.i + 1 < cur.count
  <2>1. Progress(r, img, "tls", load.i + 1)
    BY <1>3, <1>15, <1>16, <1>17 DEF Progress
  <2>2. QED
    BY <1>1, <1>7, <1>15, <1>17, <1>18, <2>1, Repeats
<1>19. CASE ~(load.i + 1 < cur.count)
  <2> DEFINE stage == AfterTls
  <2>1. /\ stage \in {"memory", "blank"}
        /\ stage = "memory" => cur.type = "translated"
        /\ Goto(stage)
    BY <1>1, <1>19 DEF AfterTls
  <2> HIDE DEF stage
  <2>2. Progress(r, img, stage, 0)
    BY <1>3, <1>15, <1>17, <2>1 DEF Progress
  <2>3. QED
    BY <1>1, <1>7, <1>15, <1>17, <2>1, <2>2, Ends DEF Stages
<1>20. QED
  BY <1>18, <1>19

-----------------------------------------------------------------------------
(* Every step of an initialisation.                                        *)

LEMMA InitLoads ==
  ASSUME InitStep
  PROVE  load.stage # "idle"
<1>1. CASE ResolveDeclined \/ ResolveCached \/ ResolveBuild \/ ReadImage \/ NoRuntime
           \/ Compile \/ InitWasmtimeRunner
  BY <1>1 DEF ResolveDeclined, ResolveCached, ResolveBuild, ReadImage, NoRuntime,
              Compile, InitWasmtimeRunner, At
<1>2. CASE LoadImage \/ Instantiate \/ AllocateRunners \/ CreateEnvironment
           \/ DestroyChildren \/ DestroyMain \/ ReleaseRunners \/ UnloadModule \/ FreeImage
  BY <1>2 DEF LoadImage, Instantiate, AllocateRunners, CreateEnvironment, DestroyChildren,
              DestroyMain, ReleaseRunners, UnloadModule, FreeImage, At
<1>3. CASE OpenLibrary \/ NativeSymbols \/ DivideStack \/ TranslatedRunner
           \/ ReleaseInstances
  BY <1>3 DEF OpenLibrary, NativeSymbols, DivideStack, TranslatedRunner,
              ReleaseInstances, At
<1>4. CASE RuntimeSymbols \/ InitMemory \/ InitTls \/ StepFails \/ TlsRefused
           \/ BlankStack \/ RegisterModule
  BY <1>4 DEF RuntimeSymbols, InitMemory, InitTls, StepFails, TlsRefused, BlankStack,
              RegisterModule, At, Fallible
<1>5. QED
  BY <1>1, <1>2, <1>3, <1>4 DEF InitStep

LEMMA InitMoves ==
  ASSUME Base, InitStep
  PROVE  RegisterModule \/ \E r, ld : Moves(r, ld)
  BY ResolveDeclinedMoves, ResolveCachedMoves, ResolveBuildMoves, ReadImageMoves,
     NoRuntimeMoves, CompileMoves, InitWasmtimeRunnerMoves, LoadImageMoves,
     InstantiateMoves, AllocateRunnersMoves, CreateEnvironmentMoves, UndoMoves,
     OpenLibraryMoves, NativeSymbolsMoves, DivideStackMoves, TranslatedRunnerMoves,
     RuntimeSymbolsMoves, InitMemoryMoves, InitTlsMoves, FailureMoves,
     BlankStackMoves, Zenon DEF InitStep

(* What is outside the records.                                            *)
Outside ==
  /\ settings \in [mode_set : BOOLEAN, mode : Modes, cache_dir : Dirs \cup {DefaultDir}]
  /\ lib \in {"untried", "loaded", "absent"}
  /\ cache \cup jobs \subseteq (Dirs \cup {DefaultDir}) \X DOMAIN Image

LEMMA ChoiceTyped ==
  ASSUME Base, ResolveDeclined \/ ResolveCached \/ ResolveBuild
  PROVE  Outside' /\ host' = host /\ held' = held
<1>1. /\ settings \in [mode_set : BOOLEAN, mode : Modes, cache_dir : Dirs \cup {DefaultDir}]
      /\ lib \in {"untried", "loaded", "absent"}
      /\ cache \cup jobs \subseteq (Dirs \cup {DefaultDir}) \X DOMAIN Image
      /\ load.stage # "idle" /\ cur.image \in DOMAIN Image
  <2>1. load.stage # "idle"
    BY DEF ResolveDeclined, ResolveCached, ResolveBuild, At
  <2>2. QED
    BY <2>1, Loading DEF Base, VariablesTyped
<1>2. Chosen \in [mode_set : BOOLEAN, mode : Modes, cache_dir : Dirs \cup {DefaultDir}]
  <2>1. CurrentMode \in Modes
    BY ModeTyped DEF Base
  <2>2. QED
    BY <1>1, <2>1 DEF Chosen
<1>3. CASE ResolveDeclined
  <2>1. /\ settings' = Chosen \/ settings' = settings
        /\ UNCHANGED <<host, lib, cache, jobs, held>>
    BY <1>3 DEF ResolveDeclined, DeclineTranslation, translationVars
  <2>2. QED
    BY <1>1, <1>2, <2>1 DEF Outside
<1>4. CASE ResolveCached
  <2>1. /\ settings' = Chosen /\ lib' \in {"loaded", "absent"}
        /\ UNCHANGED <<host, cache, jobs, held>>
    BY <1>4 DEF ResolveCached, LookUpTranslation
  <2>2. QED
    BY <1>1, <1>2, <2>1 DEF Outside
<1>5. CASE ResolveBuild
  <2> DEFINE job == <<settings.cache_dir, cur.image>>
  <2>1. job \in (Dirs \cup {DefaultDir}) \X DOMAIN Image
    BY <1>1
  <2>2. /\ cache' \subseteq cache \cup {job} /\ jobs' \subseteq jobs \cup {job}
        /\ UNCHANGED <<host, settings, lib, held>>
    BY <1>5 DEF ResolveBuild, BuildNow, BuildInBackground
  <2>3. QED
    BY <1>1, <2>1, <2>2 DEF Outside
<1>6. QED
  BY <1>3, <1>4, <1>5

LEMMA ObjectsTyped ==
  ASSUME Base, InitStep
  PROVE  held' \subseteq [kind : Kinds, i : Nat]
<1>0. /\ held \subseteq [kind : Kinds, i : Nat] /\ load.i \in Nat
      /\ \A kind \in Kinds, i \in Nat : R(kind, i) \in [kind : Kinds, i : Nat]
  <2>1. \A kind \in Kinds, i \in Nat : R(kind, i) \in [kind : Kinds, i : Nat]
    BY DEF R
  <2>2. QED
    BY <2>1, InitLoads, Loading DEF Base, VariablesTyped
<1>1. CASE ResolveDeclined \/ ResolveCached \/ ResolveBuild
  BY <1>0, <1>1, ChoiceTyped
<1>2. CASE ReadImage
  BY <1>0, <1>2 DEF ReadImage, Kinds
<1>3. CASE NoRuntime \/ Compile \/ InitWasmtimeRunner \/ RuntimeSymbols \/ InitMemory
           \/ InitTls \/ StepFails \/ TlsRefused \/ BlankStack \/ RegisterModule
  <2>1. held' = held
    BY <1>3 DEF NoRuntime, Compile, InitWasmtimeRunner, RuntimeSymbols, InitMemory, InitTls,
                StepFails, TlsRefused, BlankStack, RegisterModule
  <2>2. QED
    BY <1>0, <2>1
<1>4. CASE LoadImage \/ Instantiate \/ AllocateRunners \/ CreateEnvironment
  <2>1. \E kind \in Kinds, i \in Nat : held' \in {held, held \cup {R(kind, i)}}
    BY <1>0, <1>4 DEF LoadImage, Instantiate, AllocateRunners, CreateEnvironment, Kinds
  <2>2. QED
    BY <1>0, <2>1
<1>5. CASE DestroyChildren \/ DestroyMain \/ ReleaseRunners \/ UnloadModule \/ FreeImage
  <2>1. held' \subseteq held
    BY <1>5 DEF DestroyChildren, DestroyMain, ReleaseRunners, UnloadModule, FreeImage
  <2>2. QED
    BY <1>0, <2>1
<1>6. CASE NativeSymbols \/ DivideStack \/ TranslatedRunner
  <2>1. \E kind \in Kinds, i \in Nat : held' \in {held, held \cup {R(kind, i)}}
    BY <1>0, <1>6 DEF NativeSymbols, DivideStack, TranslatedRunner, Kinds
  <2>2. QED
    BY <1>0, <2>1
<1>7. CASE OpenLibrary \/ ReleaseInstances
  <2>1. R("library", 0) \in [kind : Kinds, i : Nat] /\ R("instance", 0) \in [kind : Kinds, i : Nat]
    BY <1>0 DEF Kinds
  <2>2. held' \in {held, {R("library", 0)}, {R("library", 0), R("instance", 0)}}
    BY <1>7 DEF OpenLibrary, ReleaseInstances
  <2>3. QED
    BY <1>0, <2>1, <2>2
<1>8. QED
  BY <1>1, <1>2, <1>3, <1>4, <1>5, <1>6, <1>7 DEF InitStep

LEMMA InitOutside ==
  ASSUME Base, InitStep
  PROVE  Outside' /\ host' = host
<1>1. CASE ResolveDeclined \/ ResolveCached \/ ResolveBuild
  BY <1>1, ChoiceTyped
<1>2. CASE ~(ResolveDeclined \/ ResolveCached \/ ResolveBuild)
  <2>1. UNCHANGED translationVars
    BY <1>2 DEF InitStep, ReadImage, NoRuntime, Compile, InitWasmtimeRunner, LoadImage, Instantiate,
         AllocateRunners, CreateEnvironment, DestroyChildren, DestroyMain, ReleaseRunners,
         UnloadModule, FreeImage, OpenLibrary, NativeSymbols, DivideStack,
         TranslatedRunner, ReleaseInstances, RuntimeSymbols, InitMemory, InitTls,
         StepFails, TlsRefused, BlankStack, RegisterModule
  <2>2. QED
    BY <2>1 DEF translationVars, Outside, Base, VariablesTyped
<1>3. QED
  BY <1>1, <1>2

LEMMA LastReplaced ==
  ASSUME Base, load.stage # "idle", NEW r \in ModuleRecord, SetCtx(r),
         r.image = cur.image, RecordSound(r, img)
  PROVE  /\ ctx' \in Seq(ModuleRecord) /\ Len(ctx') = Len(ctx) /\ ctx' # <<>>
         /\ Len(ctx) \in Nat \ {0}
         /\ cur' = r /\ img' = img /\ RecordsSound'
         /\ \A m \in 1 .. Len(ctx) - 1 : ctx'[m] = ctx[m]
<1>1. /\ ctx' \in Seq(ModuleRecord) /\ Len(ctx') = Len(ctx) /\ ctx' # <<>>
      /\ cur' = r /\ \A m \in 1 .. Len(ctx) - 1 : ctx'[m] = ctx[m]
      /\ Len(ctx) \in Nat \ {0} /\ DOMAIN ctx = 1 .. Len(ctx)
  BY Loading, CurrentSet, CurrentFields DEF Base
<1>2. img' = img
  BY <1>1 DEF img
<1>3. ASSUME NEW m \in 1 .. Len(ctx)
      PROVE  RecordSound(ctx'[m], Image[ctx'[m].image])
  <2>1. CASE m = Len(ctx)
    <3>1. ctx'[m] = r
      BY <1>1, <2>1 DEF cur
    <3>2. QED
      BY <3>1 DEF img
  <2>2. CASE m # Len(ctx)
    <3>1. \A n \in Nat : m \in 1 .. n /\ m # n => m \in 1 .. n - 1
      OBVIOUS
    <3>2. ctx'[m] = ctx[m] /\ RecordSound(ctx[m], Image[ctx[m].image])
      BY <1>1, <2>2, <3>1 DEF Base, RecordsSound
    <3>3. QED
      BY <3>2
  <2>3. QED
    BY <2>1, <2>2
<1>4. QED
  BY <1>1, <1>2, <1>3 DEF RecordsSound

(* Only the last module is not loaded while there is an initialisation.    *)
LEMMA StillLoading ==
  ASSUME load.stage # "idle"
  PROVE  load # Idle /\ \A m : Loaded(m) <=> m < Len(ctx)
  BY DEF Idle, Loaded

LEMMA MoveKeepsBase ==
  ASSUME Base, load.stage # "idle", NEW r, NEW ld, Moves(r, ld),
         Outside', host' = host, held' \subseteq [kind : Kinds, i : Nat],
         UNCHANGED groupVars
  PROVE  Base'
<1>1. /\ SetCtx(r) /\ load' = ld /\ r \in ModuleRecord /\ ld \in Loads
      /\ ld.stage # "idle" /\ SameModule(r) /\ ld.name = load.name
      /\ ld.backend = load.backend /\ RecordSound(r, img) /\ ld.i < r.count
      /\ (ld.stage # "failed" => Suited(r, img)) /\ Progress(r, img, ld.stage, ld.i)
  BY DEF Moves
<1>2. r.image = cur.image /\ r.name = cur.name
  BY <1>1 DEF SameModule
<1>3. /\ ctx' \in Seq(ModuleRecord) /\ Len(ctx') = Len(ctx) /\ ctx' # <<>>
      /\ Len(ctx) \in Nat \ {0}
      /\ cur' = r /\ img' = img /\ RecordsSound'
      /\ \A m \in 1 .. Len(ctx) - 1 : ctx'[m] = ctx[m]
  BY <1>1, <1>2, LastReplaced
<1>4. group' = group /\ parse' = parse /\ proc' = proc /\ launch' = launch
  BY DEF groupVars
<1>5. /\ load # Idle /\ \A m : Loaded(m) <=> m < Len(ctx)
      /\ load' # Idle /\ \A m : Loaded(m)' <=> m < Len(ctx)
  BY <1>1, <1>3, StillLoading DEF Loaded, Idle
<1>6. \A n \in Nat : \A m \in 1 .. n : m < n => m \in 1 .. n - 1
  OBVIOUS
<1>7. VariablesTyped'
  BY <1>1, <1>3, <1>4 DEF Base, VariablesTyped, Outside
<1>8. LoadInStage'
  <2>1. load'.stage # "idle" /\ parse'.il > 0
    BY <1>1, <1>4, Loading
  <2>2. ASSUME NEW m \in 1 .. Len(ctx), Loaded(m)'
        PROVE  Ready(ctx'[m])
    <3>1. m < Len(ctx) /\ m \in 1 .. Len(ctx) - 1 /\ Loaded(m)
      BY <1>3, <1>5, <1>6, <2>2
    <3>2. QED
      BY <1>3, <3>1 DEF Base, LoadInStage
  <2>3. QED
    BY <1>1, <1>3, <2>1, <2>2 DEF LoadInStage
<1>9. FilesFollowed'
  <2>1. ASSUME NEW m \in 1 .. Len(ctx), parse.il > 0
        PROVE  parse.symb_module[m] = IF Loaded(m)' THEN ctx'[m].name ELSE load'.name
    <3>1. parse.symb_module[m] = IF Loaded(m) THEN ctx[m].name ELSE load.name
      BY <2>1 DEF Base, FilesFollowed
    <3>2. CASE m < Len(ctx)
      BY <1>3, <1>5, <1>6, <3>1, <3>2
    <3>3. CASE ~(m < Len(ctx))
      BY <1>1, <1>5, <3>1, <3>3
    <3>4. QED
      BY <3>2, <3>3
  <2>2. parse.il > 0 /\ chain' = chain
    BY <1>4, Loading DEF chain
  <2>3. ctx # <<>>
    BY Loading
  <2>4. QED
    BY <1>3, <1>4, <2>1, <2>2, <2>3 DEF Base, FilesFollowed
<1>10. QED
  BY <1>3, <1>7, <1>8, <1>9 DEF Base, HostGiven

LEMMA RegisterKeepsBase ==
  ASSUME Base, RegisterModule, UNCHANGED groupVars
  PROVE  Base'
<1> DEFINE r == [cur EXCEPT !.name = load.name]
<1>1. load.stage = "register" /\ SetCtx(r) /\ load' = Idle /\ held' = held
      /\ UNCHANGED translationVars
  BY DEF RegisterModule, At
<1>2. /\ cur \in ModuleRecord /\ RecordSound(cur, img) /\ Ready(cur)
      /\ load.name \in Symbols /\ parse.il > 0 /\ ctx # <<>>
  BY <1>1, Loading DEF Progress, Loads
<1>3. /\ r \in ModuleRecord /\ r.image = cur.image /\ r.name = load.name
      /\ r.stacks = cur.stacks /\ r.tls = cur.tls /\ r.heap = cur.heap
      /\ r.blanked = cur.blanked /\ r.count = cur.count /\ r.writes = cur.writes
      /\ r.type = cur.type /\ r.valid = cur.valid
  BY <1>2 DEF ModuleRecord
<1> HIDE DEF r
<1>4. RecordSound(r, img)
  <2>1. r.writes <= 1
    BY <1>2, <1>3 DEF RecordSound
  <2>2. QED
    BY <1>2, <1>3, <2>1, SoundKept
<1>5. /\ ctx' \in Seq(ModuleRecord) /\ Len(ctx') = Len(ctx) /\ ctx' # <<>>
      /\ Len(ctx) \in Nat \ {0}
      /\ cur' = r /\ img' = img /\ RecordsSound'
      /\ \A m \in 1 .. Len(ctx) - 1 : ctx'[m] = ctx[m]
  BY <1>1, <1>3, <1>4, LastReplaced
<1>6. group' = group /\ parse' = parse /\ proc' = proc /\ launch' = launch
  BY DEF groupVars
<1>7. /\ \A m : Loaded(m) <=> m < Len(ctx)
      /\ \A m : Loaded(m)'
  BY <1>1, StillLoading DEF Loaded
<1>8. \A n \in Nat : \A m \in 1 .. n : m = n \/ (m < n /\ m \in 1 .. n - 1)
  OBVIOUS
<1>9. \A m \in 1 .. Len(ctx) : ctx'[m] = r \/ (ctx'[m] = ctx[m] /\ m < Len(ctx))
  BY <1>5, <1>8 DEF cur
<1>10. VariablesTyped'
  <2>1. Idle \in Loads
    <3>1. NoName \in Symbols
      BY DEF Symbols
    <3>2. QED
      BY <3>1 DEF Idle, Loads, Stages, Backends
  <2>2. QED
    BY <1>1, <1>5, <1>6, <2>1 DEF Base, VariablesTyped, translationVars
<1>11. LoadInStage'
  <2>1. \A m \in 1 .. Len(ctx) : Ready(ctx'[m])
    <3>1. Ready(r)
      BY <1>2, <1>3 DEF Ready, AllStacks
    <3>2. QED
      BY <1>7, <1>9, <3>1 DEF Base, LoadInStage
  <2>2. QED
    BY <1>1, <1>5, <2>1 DEF LoadInStage
<1>12. FilesFollowed'
  <2>1. ASSUME NEW m \in 1 .. Len(ctx)
        PROVE  parse.symb_module[m] = ctx'[m].name
    <3>1. parse.symb_module[m] = IF Loaded(m) THEN ctx[m].name ELSE load.name
      BY <1>2 DEF Base, FilesFollowed
    <3>2. CASE m = Len(ctx)
      <4>1. ctx'[m] = r
        BY <1>5, <3>2 DEF cur
      <4>2. QED
        BY <1>3, <1>5, <1>7, <3>1, <3>2, <4>1
    <3>3. CASE m # Len(ctx)
      BY <1>5, <1>7, <1>8, <3>1, <3>3
    <3>4. QED
      BY <3>2, <3>3
  <2>2. chain' = chain
    BY <1>6 DEF chain
  <2>3. host' = host
    BY <1>1 DEF translationVars
  <2>4. QED
    BY <1>1, <1>2, <1>5, <1>6, <1>7, <2>1, <2>2, <2>3 DEF Base, FilesFollowed
<1>13. QED
  BY <1>1, <1>5, <1>10, <1>11, <1>12 DEF Base, HostGiven, translationVars

LEMMA InitKeepsBase ==
  ASSUME Base, InitStep, UNCHANGED groupVars
  PROVE  Base'
<1>1. CASE RegisterModule
  BY <1>1, RegisterKeepsBase
<1>2. CASE \E r, ld : Moves(r, ld)
  <2>1. PICK r, ld : Moves(r, ld)
    BY <1>2
  <2>2. QED
    BY <2>1, InitLoads, InitOutside, ObjectsTyped, MoveKeepsBase
<1>3. QED
  BY <1>1, <1>2, InitMoves

-----------------------------------------------------------------------------
(* The tables of the parser.                                               *)

LEMMA LeastPosition ==
  ASSUME NEW S, S \subseteq Nat, S # {}
  PROVE  Earliest(S) \in S
<1>1. IsWellFoundedOn(OpToRel(<, Nat), Nat)
  BY NatLessThanWellFounded
<1>2. PICK k \in S : \A j \in S : ~ (<<j, k>> \in OpToRel(<, Nat))
  BY <1>1, WFMin, Zenon
<1>3. \A j \in S : ~ (j < k)
  BY <1>2 DEF OpToRel
<1>4. \A j \in S : k <= j
  BY <1>3
<1>5. QED
  BY <1>4 DEF Earliest

LEMMA Found ==
  ASSUME NEW S, NEW table \in Seq(S), NEW name
  PROVE  /\ Find(table, name) \in Nat
         /\ Find(table, name) # 0 =>
              /\ Find(table, name) \in 1 .. Len(table)
              /\ table[Find(table, name)] = name
<1> DEFINE at == {i \in DOMAIN table : table[i] = name}
<1>1. DOMAIN table = 1 .. Len(table) /\ Len(table) \in Nat
  BY ListFields
<1>2. at \subseteq Nat
  BY <1>1
<1>3. CASE at = {}
  BY <1>3 DEF Find
<1>4. CASE at # {}
  <2>1. Earliest(at) \in at
    BY <1>2, <1>4, LeastPosition
  <2>2. Find(table, name) = Earliest(at)
    BY <1>4 DEF Find
  <2>3. QED
    BY <1>1, <2>1, <2>2
<1>5. QED
  BY <1>3, <1>4

Parses == [file : 0 .. Len(host.files), il : Nat, symb_module : Seq(Symbols),
           symb_order : Seq(Names), errors : BOOLEAN]
Groups == [reserved : Nat, module_as : 0 .. ReserveCount, chains : Seq(Chains),
           cita_index : SUBSET (Nat \X Nat)]

LEMMA HostTyped ==
  ASSUME HostGiven
  PROVE  /\ host \in Hosts /\ Len(host.files) \in Nat
         /\ \A f \in 1 .. Len(host.files) :
              /\ host.files[f] \in Seq(Lines) /\ Len(host.files[f]) \in Nat
              /\ \A l \in 1 .. Len(host.files[f]) : host.files[f][l] \in Lines
<1>1. host \in Hosts
  BY ScenariosAssumption DEF HostGiven
<1>2. host.files \in Seq(Seq(Lines))
  BY <1>1 DEF Hosts
<1>3. QED
  BY <1>1, <1>2, ListFields

(* The parser goes on, complains, or gives up.                             *)
LEMMA ParserMoves ==
  ASSUME HostGiven, NEW p \in Parses
  PROVE  /\ LET q == [p EXCEPT !.il = @ + 1] IN
              /\ q \in Parses /\ q.il = p.il + 1 /\ q.file = p.file /\ q.errors = p.errors
              /\ q.symb_module = p.symb_module /\ q.symb_order = p.symb_order
         /\ p.file > 0 =>
            LET q == [Complain(p, TRUE) EXCEPT !.il = Len(host.files[p.file]) + 1] IN
              /\ q \in Parses /\ q.il = Len(host.files[p.file]) + 1 /\ q.file = p.file
              /\ q.errors
              /\ q.symb_module = p.symb_module /\ q.symb_order = p.symb_order
         /\ \A if \in BOOLEAN :
              LET q == Complain(p, if) IN
              /\ q \in Parses /\ q.il = p.il /\ q.file = p.file
              /\ q.errors <=> p.errors \/ if
              /\ q.symb_module = p.symb_module /\ q.symb_order = p.symb_order
<1>1. /\ p.file \in 0 .. Len(host.files) /\ p.il \in Nat /\ p.symb_module \in Seq(Symbols)
      /\ p.symb_order \in Seq(Names) /\ p.errors \in BOOLEAN
  BY DEF Parses
<1>2. LET q == [p EXCEPT !.il = @ + 1] IN
        /\ q \in Parses /\ q.il = p.il + 1 /\ q.file = p.file /\ q.errors = p.errors
        /\ q.symb_module = p.symb_module /\ q.symb_order = p.symb_order
  BY <1>1 DEF Parses
<1>3. \A if \in BOOLEAN :
        LET q == Complain(p, if) IN
          /\ q \in Parses /\ q.il = p.il /\ q.file = p.file
          /\ q.errors <=> p.errors \/ if
          /\ q.symb_module = p.symb_module /\ q.symb_order = p.symb_order
  BY <1>1 DEF Parses, Complain
<1>4. ASSUME p.file > 0
      PROVE  LET q == [Complain(p, TRUE) EXCEPT !.il = Len(host.files[p.file]) + 1] IN
               /\ q \in Parses /\ q.il = Len(host.files[p.file]) + 1 /\ q.file = p.file
               /\ q.errors
               /\ q.symb_module = p.symb_module /\ q.symb_order = p.symb_order
  <2> DEFINE c == Complain(p, TRUE)
             end == Len(host.files[p.file]) + 1
  <2>1. /\ c \in Parses /\ c.file = p.file /\ c.errors
        /\ c.symb_module = p.symb_module /\ c.symb_order = p.symb_order
    BY <1>3
  <2>2. end \in Nat
    BY <1>1, <1>4, HostTyped
  <2> HIDE DEF c, end
  <2>3. LET q == [c EXCEPT !.il = end] IN
          /\ q \in Parses /\ q.il = end /\ q.file = c.file /\ q.errors = c.errors
          /\ q.symb_module = c.symb_module /\ q.symb_order = c.symb_order
    BY <2>1, <2>2 DEF Parses
  <2>4. QED
    BY <2>1, <2>3 DEF c, end
<1>5. QED
  BY <1>2, <1>3, <1>4

LEMMA Advanced ==
  ASSUME HostGiven, NEW p \in Parses, Advance(p)
  PROVE  /\ parse' \in Parses /\ parse'.file = p.file /\ parse'.errors = p.errors
         /\ parse'.symb_module = p.symb_module /\ parse'.symb_order = p.symb_order
         /\ parse'.il = p.il + 1
<1> DEFINE q == [p EXCEPT !.il = @ + 1]
<1>1. parse' = q
  BY DEF Advance
<1>2. /\ q \in Parses /\ q.il = p.il + 1 /\ q.file = p.file /\ q.errors = p.errors
      /\ q.symb_module = p.symb_module /\ q.symb_order = p.symb_order
  BY ParserMoves
<1> HIDE DEF q
<1>3. QED
  BY <1>1, <1>2

LEMMA Complained ==
  ASSUME HostGiven, NEW p \in Parses, NEW if \in BOOLEAN
  PROVE  /\ Complain(p, if) \in Parses /\ Complain(p, if).il = p.il
         /\ Complain(p, if).file = p.file
         /\ Complain(p, if).errors <=> (p.errors \/ if)
         /\ Complain(p, if).symb_module = p.symb_module
         /\ Complain(p, if).symb_order = p.symb_order
  BY ParserMoves

LEMMA GivenUp ==
  ASSUME HostGiven, NEW p \in Parses, p.file > 0, GiveUp(p)
  PROVE  /\ parse' \in Parses /\ parse'.errors /\ parse'.file = p.file
         /\ parse'.symb_module = p.symb_module /\ parse'.symb_order = p.symb_order
         /\ parse'.il = Len(host.files[p.file]) + 1
<1> DEFINE q == [Complain(p, TRUE) EXCEPT !.il = Len(host.files[p.file]) + 1]
<1>1. parse' = q
  BY DEF GiveUp
<1>2. /\ q \in Parses /\ q.errors /\ q.file = p.file
      /\ q.symb_module = p.symb_module /\ q.symb_order = p.symb_order
      /\ q.il = Len(host.files[p.file]) + 1
  BY ParserMoves
<1> HIDE DEF q
<1>3. QED
  BY <1>1, <1>2

(* What is known when a line is parsed.                                    *)
LEMMA LineFields ==
  ASSUME Base, NEW kind, Parsing(kind)
  PROVE  /\ load = Idle /\ parse \in Parses /\ group \in Groups
         /\ parse.il > 0 /\ parse.file > 0 /\ parse.file \in 1 .. Len(host.files)
         /\ parse.il <= Len(host.files[parse.file])
         /\ Len(parse.symb_module) = Len(ctx) /\ line \in Lines /\ line.kind = kind
         /\ Len(ctx) \in Nat /\ DOMAIN ctx = 1 .. Len(ctx)
         /\ \A m \in 1 .. Len(ctx) : /\ ctx[m] \in ModuleRecord
                                     /\ parse.symb_module[m] = ctx[m].name
         /\ group.chains # <<>> /\ Len(group.chains) \in 1 .. Len(group.chains)
         /\ DOMAIN group.chains = 1 .. Len(group.chains)
         /\ chain \in Chains /\ Len(parse.symb_order) <= Len(chain.exec_order)
<1>1. /\ load.stage = "idle" /\ parse.il > 0 /\ line.kind = kind
      /\ parse.il \in 1 .. Len(host.files[parse.file])
  BY DEF Parsing, At
<1>2. load = Idle /\ parse \in Parses /\ group \in Groups
  BY <1>1 DEF Base, LoadInStage, VariablesTyped, Parses, Groups
<1>3. parse.file > 0 /\ parse.file \in 1 .. Len(host.files)
  <2>1. parse.file > 0 /\ parse.file \in 0 .. Len(host.files) /\ Len(host.files) \in Nat
    BY <1>1, <1>2, HostTyped DEF Base, FilesFollowed, Parses
  <2>2. QED
    BY <2>1
<1>4. /\ Len(host.files[parse.file]) \in Nat /\ line \in Lines
      /\ parse.il <= Len(host.files[parse.file])
  BY <1>1, <1>3, HostTyped DEF line, Base
<1>5. Len(ctx) \in Nat /\ DOMAIN ctx = 1 .. Len(ctx)
      /\ \A m \in 1 .. Len(ctx) : ctx[m] \in ModuleRecord
  BY CurrentFields DEF Base
<1>6. /\ Len(parse.symb_module) = Len(ctx)
      /\ \A m \in 1 .. Len(ctx) : parse.symb_module[m] = ctx[m].name
      /\ group.chains # <<>> /\ Len(parse.symb_order) <= Len(chain.exec_order)
  BY <1>1, <1>2, <1>4 DEF Base, FilesFollowed, Loaded
<1>7. group.chains \in Seq(Chains)
  BY <1>2 DEF Groups
<1>8. /\ Len(group.chains) \in 1 .. Len(group.chains) /\ chain \in Chains
      /\ DOMAIN group.chains = 1 .. Len(group.chains)
  <2>1. Len(group.chains) > 0 /\ Len(group.chains) \in Nat
        /\ DOMAIN group.chains = 1 .. Len(group.chains) /\ chain \in Chains
    BY <1>6, <1>7, ListFields DEF chain
  <2>2. QED
    BY <2>1
<1>9. QED
  BY <1>1, <1>2, <1>3, <1>4, <1>5, <1>6, <1>8

(* A step that does not touch the modules.                                 *)
LEMMA ParserKeepsBase ==
  ASSUME Base, load = Idle, UNCHANGED <<translationVars, initVars, proc, launch>>,
         group' \in Groups, parse' \in Parses,
         group'.reserved = group.reserved, group'.module_as = group.module_as,
         parse'.il > 0 =>
           /\ parse'.file > 0 /\ Len(parse'.symb_module) >= Len(ctx)
           /\ parse'.il <= Len(host.files[parse'.file]) =>
                Len(parse'.symb_module) = Len(ctx)
           /\ \A m \in 1 .. Len(ctx) : parse'.symb_module[m] = ctx[m].name
           /\ group'.chains # <<>>
           /\ Len(parse'.symb_order)
                <= Len(group'.chains[Len(group'.chains)].exec_order)
  PROVE  Base'
<1>1. /\ host' = host /\ settings' = settings /\ lib' = lib /\ cache' = cache
      /\ jobs' = jobs /\ ctx' = ctx /\ load' = load /\ held' = held
      /\ proc' = proc /\ launch' = launch
  BY DEF translationVars, initVars
<1>2. VariablesTyped'
  BY <1>1 DEF Base, VariablesTyped, Groups, Parses
<1>3. RecordsSound'
  BY <1>1 DEF Base, RecordsSound
<1>4. LoadInStage'
  BY <1>1 DEF Base, LoadInStage, Loaded, Idle
<1>5. FilesFollowed'
  <2>1. \A m : Loaded(m)'
    BY <1>1 DEF Loaded
  <2>2. QED
    BY <1>1, <2>1 DEF Base, FilesFollowed, chain
<1>6. QED
  BY <1>1, <1>2, <1>3, <1>4, <1>5 DEF Base, HostGiven

LEMMA EmptyLists ==
  ASSUME HostGiven
  PROVE
  /\ NoGroup \in Groups /\ NoParse \in Parses
  /\ NewChain \in Chains /\ InputOrder \in ExecOrder
  /\ [NewChain EXCEPT !.exec_order = <<InputOrder>>] \in Chains
  /\ [NewChain EXCEPT !.exec_order = <<InputOrder>>].exec_order = <<InputOrder>>
  /\ NewChain.exec_order = <<>> /\ NewChain.connection = <<>>
  /\ InputOrder.processors = <<>>
  /\ "chain_input_msg" \in Names
<1>1. \A S : <<>> \in Seq(S)
  BY EmptySeq
<1>2. InputOrder \in ExecOrder
  <2>1. NoName \in Symbols
    BY DEF Symbols
  <2>2. [module |-> NoName] \in [module : Symbols]
    BY <2>1
  <2>3. QED
    BY <1>1, <2>2 DEF InputOrder, ExecOrder
<1>3. NewChain \in Chains /\ NewChain.exec_order = <<>> /\ NewChain.connection = <<>>
  BY <1>1 DEF NewChain, Chains
<1>4. <<InputOrder>> \in Seq(ExecOrder)
  BY <1>2
<1>5. [NewChain EXCEPT !.exec_order = <<InputOrder>>] \in Chains
      /\ [NewChain EXCEPT !.exec_order = <<InputOrder>>].exec_order = <<InputOrder>>
  BY <1>3, <1>4 DEF Chains
<1>6. NoGroup \in Groups
  BY <1>1, ScenariosAssumption DEF NoGroup, Groups
<1>7. NoParse \in Parses
  BY <1>1, HostTyped DEF NoParse, Parses
<1>8. InputOrder.processors = <<>> /\ "chain_input_msg" \in Names
  BY ScenariosAssumption DEF InputOrder
<1>9. QED
  BY <1>2, <1>3, <1>5, <1>6, <1>7, <1>8

LEMMA ChainChanged ==
  ASSUME group \in Groups, group.chains # <<>>, NEW c \in Chains, SetChain(c)
  PROVE  /\ group' \in Groups /\ group'.reserved = group.reserved
         /\ group'.module_as = group.module_as /\ group'.cita_index = group.cita_index
         /\ group'.chains # <<>> /\ Len(group'.chains) = Len(group.chains)
         /\ group'.chains[Len(group.chains)] = c
         /\ \A k \in 1 .. Len(group.chains) - 1 : group'.chains[k] = group.chains[k]
<1> DEFINE t == [group.chains EXCEPT ![Len(group.chains)] = c]
<1>1. group.chains \in Seq(Chains)
  BY DEF Groups
<1>2. /\ t \in Seq(Chains) /\ Len(t) = Len(group.chains) /\ t # <<>>
      /\ t[Len(group.chains)] = c
      /\ \A k \in 1 .. Len(group.chains) - 1 : t[k] = group.chains[k]
  BY <1>1, ListLast
<1>3. group' = [group EXCEPT !.chains = t]
  BY DEF SetChain
<1> HIDE DEF t
<1>4. /\ group' \in Groups /\ group'.reserved = group.reserved
      /\ group'.module_as = group.module_as /\ group'.cita_index = group.cita_index
      /\ group'.chains = t
  BY <1>2, <1>3 DEF Groups
<1>5. QED
  BY <1>2, <1>4

LEMMA OpenFileKeepsBase ==
  ASSUME Base, OpenFile, UNCHANGED <<proc, launch>>
  PROVE  Base'
<1> DEFINE names == [m \in DOMAIN ctx |-> ctx[m].name]
           chains == IF group.chains = <<>> THEN <<NewChain>> ELSE group.chains
<1>1. /\ parse.il = 0 /\ parse.file < Len(host.files)
      /\ parse' = [parse EXCEPT !.file = @ + 1, !.il = 1, !.symb_module = names,
                                !.symb_order = <<>>]
      /\ group' = [group EXCEPT !.chains = chains]
      /\ UNCHANGED <<translationVars, initVars>>
  BY DEF OpenFile
<1>2. /\ load = Idle /\ group \in Groups /\ parse \in Parses
      /\ Len(host.files) \in Nat
  BY <1>1, HostTyped DEF Base, FilesFollowed, VariablesTyped, Groups, Parses
<1>3. /\ names \in Seq(Symbols) /\ Len(names) = Len(ctx)
      /\ \A m \in 1 .. Len(ctx) : names[m] = ctx[m].name
  <2>1. /\ Len(ctx) \in Nat /\ DOMAIN ctx = 1 .. Len(ctx)
        /\ \A m \in 1 .. Len(ctx) : ctx[m] \in ModuleRecord
    BY CurrentFields DEF Base
  <2>2. \A m \in 1 .. Len(ctx) : ctx[m].name \in Symbols
    BY <2>1, RecordFields
  <2>3. QED
    BY <2>1, <2>2
<1>4. chains \in Seq(Chains) /\ chains # <<>>
  BY <1>2, EmptyLists DEF Base, Groups
<1>5. chains[Len(chains)].exec_order \in Seq(ExecOrder)
  <2>1. chains[Len(chains)] \in Chains
    BY <1>4, ListFields
  <2>2. QED
    BY <2>1 DEF Chains
<1> HIDE DEF names, chains
<1>6. /\ group' \in Groups /\ group'.reserved = group.reserved
      /\ group'.module_as = group.module_as /\ group'.chains = chains
  BY <1>1, <1>2, <1>4 DEF Groups
<1>7. /\ parse' \in Parses /\ parse'.file > 0 /\ parse'.symb_module = names
      /\ parse'.symb_order = <<>>
  <2>1. host' = host /\ parse.file + 1 \in 0 .. Len(host.files)
    BY <1>1, <1>2 DEF translationVars, Parses
  <2>2. <<>> \in Seq(Names)
    BY EmptySeq
  <2>3. PICK f \in 0 .. Len(host.files) : f = parse.file + 1
    BY <2>1
  <2>4. f > 0
    BY <1>2, <2>3 DEF Parses
  <2>5. parse' = [parse EXCEPT !.file = f, !.il = 1, !.symb_module = names,
                               !.symb_order = <<>>]
    BY <1>1, <2>3
  <2>6. /\ parse' \in Parses /\ parse'.file = f /\ parse'.symb_module = names
        /\ parse'.symb_order = <<>>
    BY <1>2, <1>3, <2>2, <2>5 DEF Parses
  <2>7. QED
    BY <2>4, <2>6
<1>8. Len(parse'.symb_order) = 0 /\ Len(chains[Len(chains)].exec_order) \in Nat
  BY <1>5, <1>7, ListFields
<1>9. Len(ctx) \in Nat
  BY CurrentFields DEF Base
<1>10. QED
  BY <1>1, <1>2, <1>3, <1>4, <1>6, <1>7, <1>8, <1>9, ParserKeepsBase

LEMMA EndFileKeepsBase ==
  ASSUME Base, EndFile, UNCHANGED <<proc, launch>>
  PROVE  Base'
<1>1. /\ load.stage = "idle" /\ group' = group
      /\ parse' = [parse EXCEPT !.il = 0, !.symb_module = <<>>, !.symb_order = <<>>]
      /\ UNCHANGED <<translationVars, initVars>> /\ host' = host
  BY DEF EndFile, At, translationVars
<1>2. load = Idle /\ group \in Groups /\ parse \in Parses
  BY <1>1 DEF Base, LoadInStage, VariablesTyped, Groups, Parses
<1>3. parse' \in Parses /\ parse'.il = 0
  <2>1. \A S : <<>> \in Seq(S)
    BY EmptySeq
  <2>2. QED
    BY <1>1, <1>2, <2>1 DEF Parses
<1>4. ~(parse'.il > 0)
  BY <1>3
<1>5. QED
  BY <1>1, <1>2, <1>3, <1>4, ParserKeepsBase

LEMMA GroupInitKeepsBase ==
  ASSUME Base, GroupInit, UNCHANGED <<proc, launch>>
  PROVE  Base'
<1> DEFINE index == {ctx[m].self : m \in {k \in DOMAIN ctx : ctx[k].type # "native"}}
<1>1. /\ parse.il = 0 /\ group' = [group EXCEPT !.cita_index = index]
      /\ UNCHANGED <<translationVars, initVars, parse>> /\ host' = host
  BY DEF GroupInit, translationVars
<1>2. load = Idle /\ group \in Groups /\ parse \in Parses
  BY <1>1 DEF Base, FilesFollowed, VariablesTyped, Groups, Parses
<1>3. index \subseteq Nat \X Nat
  BY CurrentFields, RecordFields DEF Base
<1> HIDE DEF index
<1>4. /\ group' \in Groups /\ group'.reserved = group.reserved
      /\ group'.module_as = group.module_as
  BY <1>1, <1>2, <1>3 DEF Groups
<1>5. parse' \in Parses /\ ~(parse'.il > 0)
  BY <1>1, <1>2 DEF Parses
<1>6. QED
  BY <1>1, <1>2, <1>4, <1>5, ParserKeepsBase

-----------------------------------------------------------------------------
(* What an order and a chain refer to.                                     *)
OrderLinked(order) ==
  /\ order.type = "module_func" =>
       /\ ModuleNamed(order.module_id, order.said.module)
       /\ order.runner_id < ctx[order.module_id].count
  /\ \A k \in 1 .. Len(order.processors) :
       ModuleNamed(order.processors[k].id, order.processors[k].said)
ChainLinked(ch) ==
  /\ \A o \in 1 .. Len(ch.exec_order) : OrderLinked(ch.exec_order[o])
  /\ \A k \in 1 .. Len(ch.connection) :
       {ch.connection[k][1], ch.connection[k][2]} \subseteq 1 .. Len(ch.exec_order)

LEMMA ChainFields ==
  ASSUME NEW c \in Chains
  PROVE  /\ c.exec_order \in Seq(ExecOrder) /\ Len(c.exec_order) \in Nat
         /\ c.connection \in Seq(Nat \X Nat) /\ Len(c.connection) \in Nat
         /\ DOMAIN c.exec_order = 1 .. Len(c.exec_order)
         /\ \A k \in 1 .. Len(c.exec_order) : c.exec_order[k] \in ExecOrder
         /\ \A k \in 1 .. Len(c.connection) : c.connection[k] \in Nat \X Nat
<1>1. c.exec_order \in Seq(ExecOrder) /\ c.connection \in Seq(Nat \X Nat)
  BY DEF Chains
<1>2. QED
  BY <1>1, ListFields

LEMMA OrderAdded ==
  ASSUME NEW c \in Chains, NEW order \in ExecOrder, NEW d,
         d = [c EXCEPT !.exec_order = Append(@, order)]
  PROVE  /\ d \in Chains /\ Len(d.exec_order) = Len(c.exec_order) + 1
         /\ d.connection = c.connection
         /\ ChainLinked(c) /\ OrderLinked(order) => ChainLinked(d)
<1> DEFINE s == Append(c.exec_order, order)
<1>1. /\ c.exec_order \in Seq(ExecOrder) /\ Len(c.exec_order) \in Nat
      /\ c.connection \in Seq(Nat \X Nat) /\ Len(c.connection) \in Nat
      /\ \A k \in 1 .. Len(c.connection) : c.connection[k] \in Nat \X Nat
  BY ChainFields
<1>2. /\ s \in Seq(ExecOrder) /\ Len(s) = Len(c.exec_order) + 1
      /\ s[Len(c.exec_order) + 1] = order
      /\ \A k \in 1 .. Len(c.exec_order) : s[k] = c.exec_order[k]
  BY <1>1, ListExtended
<1>3. d = [c EXCEPT !.exec_order = s]
  OBVIOUS
<1> HIDE DEF s
<1>4. d \in Chains /\ d.exec_order = s /\ d.connection = c.connection
  BY <1>2, <1>3 DEF Chains
<1>5. ASSUME ChainLinked(c), OrderLinked(order)
      PROVE  ChainLinked(d)
  <2> DEFINE n == Len(c.exec_order)
  <2>1. \A o \in 1 .. n + 1 : o \in 1 .. n \/ o = n + 1
    BY <1>1
  <2>2. \A o \in 1 .. n + 1 : OrderLinked(s[o])
    BY <1>2, <1>5, <2>1 DEF ChainLinked
  <2>3. 1 .. n \subseteq 1 .. n + 1
    BY <1>1
  <2>4. \A k \in 1 .. Len(c.connection) :
          {c.connection[k][1], c.connection[k][2]} \subseteq 1 .. n
    BY <1>5 DEF ChainLinked
  <2>5. QED
    BY <1>2, <1>4, <2>2, <2>3, <2>4 DEF ChainLinked
<1>6. QED
  BY <1>2, <1>4, <1>5

LEMMA ConnectionAdded ==
  ASSUME NEW c \in Chains, NEW src \in Nat, NEW dst \in Nat, NEW d,
         d = [c EXCEPT !.connection = Append(@, <<src, dst>>)]
  PROVE  /\ d \in Chains /\ d.exec_order = c.exec_order
         /\ ChainLinked(c) /\ {src, dst} \subseteq 1 .. Len(c.exec_order)
              => ChainLinked(d)
<1> DEFINE s == Append(c.connection, <<src, dst>>)
<1>1. c.connection \in Seq(Nat \X Nat) /\ Len(c.connection) \in Nat
  BY ChainFields
<1>2. /\ s \in Seq(Nat \X Nat) /\ Len(s) = Len(c.connection) + 1
      /\ s[Len(c.connection) + 1] = <<src, dst>>
      /\ \A k \in 1 .. Len(c.connection) : s[k] = c.connection[k]
  BY <1>1, ListExtended
<1>3. d = [c EXCEPT !.connection = s]
  OBVIOUS
<1> HIDE DEF s
<1>4. d \in Chains /\ d.connection = s /\ d.exec_order = c.exec_order
  BY <1>2, <1>3 DEF Chains
<1>5. ASSUME ChainLinked(c), {src, dst} \subseteq 1 .. Len(c.exec_order)
      PROVE  ChainLinked(d)
  <2> DEFINE n == Len(c.connection)
  <2>1. \A k \in 1 .. n + 1 : k \in 1 .. n \/ k = n + 1
    BY <1>1
  <2>2. \A k \in 1 .. n : {s[k][1], s[k][2]} \subseteq 1 .. Len(c.exec_order)
    BY <1>2, <1>5 DEF ChainLinked
  <2>3. {s[n + 1][1], s[n + 1][2]} \subseteq 1 .. Len(c.exec_order)
    BY <1>2, <1>5
  <2>4. \A k \in 1 .. n + 1 : {s[k][1], s[k][2]} \subseteq 1 .. Len(c.exec_order)
    BY <2>1, <2>2, <2>3
  <2>5. \A o \in 1 .. Len(c.exec_order) : OrderLinked(c.exec_order[o])
    BY <1>5 DEF ChainLinked
  <2>6. Len(d.connection) = n + 1
    BY <1>2, <1>4
  <2> HIDE DEF n
  <2>7. QED
    BY <1>4, <2>4, <2>5, <2>6 DEF ChainLinked
<1>6. QED
  BY <1>4, <1>5

WithProcessor(c, ie, id, name) ==
  [c EXCEPT !.exec_order[ie].processors = Append(@, [id |-> id, said |-> name])]

LEMMA ProcessorAdded ==
  ASSUME NEW c \in Chains, NEW ie \in 1 .. Len(c.exec_order), NEW id \in Nat,
         NEW name \in Names, NEW d, d = WithProcessor(c, ie, id, name)
  PROVE  /\ d \in Chains /\ Len(d.exec_order) = Len(c.exec_order)
         /\ d.connection = c.connection
         /\ ChainLinked(c) /\ ModuleNamed(id, name) => ChainLinked(d)
<1> DEFINE old == c.exec_order[ie]
           p   == Append(old.processors, [id |-> id, said |-> name])
           new == [old EXCEPT !.processors = p]
           s   == [c.exec_order EXCEPT ![ie] = new]
           P   == [id : Nat, said : Names]
<1>1. /\ c.exec_order \in Seq(ExecOrder) /\ Len(c.exec_order) \in Nat
      /\ DOMAIN c.exec_order = 1 .. Len(c.exec_order)
      /\ old \in ExecOrder
  BY ChainFields
<1>2. old.processors \in Seq(P) /\ Len(old.processors) \in Nat
  <2>1. old.processors \in Seq(P)
    BY <1>1 DEF ExecOrder
  <2>2. QED
    BY <2>1, ListFields
<1>3. /\ p \in Seq(P) /\ Len(p) = Len(old.processors) + 1
      /\ p[Len(old.processors) + 1] = [id |-> id, said |-> name]
      /\ \A k \in 1 .. Len(old.processors) : p[k] = old.processors[k]
  <2>1. [id |-> id, said |-> name] \in P
    OBVIOUS
  <2> HIDE DEF P, old
  <2>2. QED
    BY <1>2, <2>1, ListExtended
<1> DEFINE item == [id |-> id, said |-> name]
<1>3a. item.id = id /\ item.said = name
  OBVIOUS
<1> HIDE DEF p, old, item
<1>4. /\ new \in ExecOrder /\ new.processors = p /\ new.type = old.type
      /\ new.module_id = old.module_id /\ new.runner_id = old.runner_id
      /\ new.said = old.said
  BY <1>1, <1>3 DEF ExecOrder
<1>5. d = [c EXCEPT !.exec_order = s]
  BY Zenon DEF p, old, WithProcessor
<1> HIDE DEF new
<1>6. /\ s \in Seq(ExecOrder) /\ Len(s) = Len(c.exec_order) /\ s[ie] = new
      /\ \A k \in 1 .. Len(c.exec_order) : k # ie => s[k] = c.exec_order[k]
  BY <1>1, <1>4, ExceptSeq
<1> HIDE DEF s
<1>7. d \in Chains /\ d.exec_order = s /\ d.connection = c.connection
  BY <1>5, <1>6 DEF Chains
<1>8. ASSUME ChainLinked(c), ModuleNamed(id, name)
      PROVE  ChainLinked(d)
  <2>1. \A o \in 1 .. Len(c.exec_order) : OrderLinked(c.exec_order[o])
    BY <1>8 DEF ChainLinked
  <2>2. OrderLinked(old)
    BY <2>1 DEF old
  <2>3. OrderLinked(new)
    <3> DEFINE n == Len(old.processors)
    <3>1. \A k \in 1 .. n + 1 : k \in 1 .. n \/ k = n + 1
      BY <1>2
    <3>2. \A k \in 1 .. n : ModuleNamed(p[k].id, p[k].said)
      BY <1>3, <2>2 DEF OrderLinked
    <3>3. ModuleNamed(p[n + 1].id, p[n + 1].said)
      BY <1>3, <1>3a, <1>8 DEF item
    <3>4. \A k \in 1 .. n + 1 : ModuleNamed(p[k].id, p[k].said)
      BY <3>1, <3>2, <3>3
    <3>5. QED
      BY <1>3, <1>4, <2>2, <3>4 DEF OrderLinked
  <2>4. \A o \in 1 .. Len(c.exec_order) : OrderLinked(s[o])
    BY <1>6, <2>1, <2>3
  <2>5. \A k \in 1 .. Len(c.connection) :
          {c.connection[k][1], c.connection[k][2]} \subseteq 1 .. Len(c.exec_order)
    BY <1>8 DEF ChainLinked
  <2>6. /\ \A o \in 1 .. Len(d.exec_order) : OrderLinked(d.exec_order[o])
        /\ \A k \in 1 .. Len(d.connection) :
             {d.connection[k][1], d.connection[k][2]} \subseteq 1 .. Len(d.exec_order)
    <3>1. Len(d.exec_order) = Len(c.exec_order)
      BY <1>6, <1>7
    <3>2. \A o \in 1 .. Len(c.exec_order) : OrderLinked(d.exec_order[o])
      BY <1>7, <2>4
    <3>3. \A k \in 1 .. Len(d.connection) :
            {d.connection[k][1], d.connection[k][2]} \subseteq 1 .. Len(c.exec_order)
      BY <1>7, <2>5
    <3>4. QED
      BY <3>1, <3>2, <3>3
  <2>7. QED
    BY <2>6, Zenon DEF ChainLinked
<1>9. QED
  BY <1>6, <1>7, <1>8

LEMMA LineKeeps ==
  ASSUME Base, LinksFollowed, NEW kind, Parsing(kind),
         UNCHANGED <<translationVars, initVars, proc, launch>>,
         group' \in Groups, parse' \in Parses,
         group'.reserved = group.reserved, group'.module_as = group.module_as,
         group'.chains # <<>>, parse'.file = parse.file,
         parse'.symb_module = parse.symb_module,
         Len(parse'.symb_order) <= Len(group'.chains[Len(group'.chains)].exec_order),
         ~parse'.errors =>
           /\ ~parse.errors
           /\ \A k \in 1 .. Len(group'.chains) :
                \/ k \in 1 .. Len(group.chains) /\ group'.chains[k] = group.chains[k]
                \/ ChainLinked(group'.chains[k])
  PROVE  Base' /\ LinksFollowed'
<1>1. /\ load = Idle /\ parse.file > 0 /\ Len(parse.symb_module) = Len(ctx)
      /\ Len(ctx) \in Nat
      /\ \A m \in 1 .. Len(ctx) : parse.symb_module[m] = ctx[m].name
  BY LineFields
<1>2. Base'
  BY <1>1, ParserKeepsBase
<1>3. LinksFollowed'
  <2>1. \A id, name : ModuleNamed(id, name)' <=> ModuleNamed(id, name)
    BY DEF ModuleNamed, Loaded, initVars
  <2>2. ctx' = ctx
    BY DEF initVars
  <2>3. ASSUME ~parse'.errors
        PROVE  \A k \in 1 .. Len(group'.chains) : ChainLinked(group'.chains[k])
    <3>1. ~parse.errors
      BY <2>3
    <3>2. \A k \in 1 .. Len(group.chains) : ChainLinked(group.chains[k])
      BY <3>1 DEF LinksFollowed, ChainLinked, OrderLinked
    <3>3. QED
      BY <2>3, <3>2
  <2>4. \A order : OrderLinked(order) =>
          /\ order.type = "module_func" =>
               /\ ModuleNamed(order.module_id, order.said.module)'
               /\ order.runner_id < ctx'[order.module_id].count
          /\ \A j \in 1 .. Len(order.processors) :
               ModuleNamed(order.processors[j].id, order.processors[j].said)'
    BY <2>1, <2>2 DEF OrderLinked
  <2>5. \A ch : ChainLinked(ch) =>
          /\ \A o \in 1 .. Len(ch.exec_order) : LET order == ch.exec_order[o] IN
               /\ order.type = "module_func" =>
                    /\ ModuleNamed(order.module_id, order.said.module)'
                    /\ order.runner_id < ctx'[order.module_id].count
               /\ \A j \in 1 .. Len(order.processors) :
                    ModuleNamed(order.processors[j].id, order.processors[j].said)'
          /\ \A j \in 1 .. Len(ch.connection) :
               {ch.connection[j][1], ch.connection[j][2]} \subseteq 1 .. Len(ch.exec_order)
    BY <2>4 DEF ChainLinked
  <2>6. QED
    BY <2>3, <2>5 DEF LinksFollowed
<1>4. QED
  BY <1>2, <1>3

LEMMA ModuleOptionsInvalidKeeps ==
  ASSUME Base, LinksFollowed, ModuleOptionsInvalid, UNCHANGED <<proc, launch>>
  PROVE  Base' /\ LinksFollowed'
<1> DEFINE p == Complain(parse, TRUE)
<1>1. /\ Parsing("module") /\ Advance(p)
      /\ UNCHANGED <<translationVars, initVars, group>>
  BY DEF ModuleOptionsInvalid
<1>2. /\ parse \in Parses /\ group \in Groups /\ group.chains # <<>>
      /\ Len(parse.symb_order) <= Len(chain.exec_order)
  BY <1>1, LineFields
<1>3. /\ p \in Parses /\ p.errors /\ p.file = parse.file
      /\ p.symb_module = parse.symb_module /\ p.symb_order = parse.symb_order
  <2>1. TRUE \in BOOLEAN
    OBVIOUS
  <2>2. QED
    BY <1>2, <2>1, Complained DEF Base
<1> HIDE DEF p
<1>4. /\ parse' \in Parses /\ parse'.errors /\ parse'.file = parse.file
      /\ parse'.symb_module = parse.symb_module /\ parse'.symb_order = parse.symb_order
  BY <1>1, <1>3, Advanced DEF Base
<1>5. QED
  BY <1>1, <1>2, <1>4, LineKeeps DEF chain

LEMMA SendLineKeeps ==
  ASSUME Base, LinksFollowed, SendLine, UNCHANGED <<proc, launch>>
  PROVE  Base' /\ LinksFollowed'
<1>1. /\ Parsing("send") /\ UNCHANGED <<translationVars, initVars, group>>
      /\ GiveUp(parse) \/ Advance(parse)
  BY DEF SendLine
<1>2. /\ parse \in Parses /\ parse.file > 0 /\ group \in Groups /\ group.chains # <<>>
      /\ Len(parse.symb_order) <= Len(chain.exec_order)
  BY <1>1, LineFields
<1>3. /\ parse' \in Parses /\ parse'.file = parse.file
      /\ parse'.symb_module = parse.symb_module /\ parse'.symb_order = parse.symb_order
      /\ parse'.errors \/ parse'.errors = parse.errors
  BY <1>1, <1>2, GivenUp, Advanced DEF Base
<1>4. QED
  BY <1>1, <1>2, <1>3, LineKeeps DEF chain

LEMMA ChainLineKeeps ==
  ASSUME Base, LinksFollowed, ChainLine, UNCHANGED <<proc, launch>>
  PROVE  Base' /\ LinksFollowed'
<1> DEFINE new == [NewChain EXCEPT !.exec_order = <<InputOrder>>]
           chains == Append(group.chains, new)
           p == [parse EXCEPT !.symb_order = <<"chain_input_msg">>]
<1>1. /\ Parsing("chain") /\ group' = [group EXCEPT !.chains = chains]
      /\ Advance(p)
      /\ UNCHANGED <<translationVars, initVars>>
  BY DEF ChainLine
<1>2. parse \in Parses /\ group \in Groups
  BY <1>1, LineFields
<1>3. new \in Chains /\ new.exec_order = <<InputOrder>>
      /\ new.connection = <<>> /\ InputOrder.processors = <<>>
      /\ InputOrder.type = "chain_input_msg" /\ <<"chain_input_msg">> \in Seq(Names)
  BY EmptyLists DEF Base, NewChain, InputOrder
<1>4. ChainLinked(new)
  <2>1. OrderLinked(InputOrder)
    BY <1>3 DEF OrderLinked
  <2>2. QED
    BY <1>3, <2>1 DEF ChainLinked
<1> HIDE DEF new
<1>5. /\ chains \in Seq(Chains) /\ Len(chains) = Len(group.chains) + 1 /\ chains # <<>>
      /\ Len(group.chains) \in Nat
      /\ chains[Len(group.chains) + 1] = new
      /\ \A k \in 1 .. Len(group.chains) : chains[k] = group.chains[k]
  <2>1. group.chains \in Seq(Chains)
    BY <1>2 DEF Groups
  <2>2. QED
    BY <1>3, <2>1, ListExtended, ListFields
<1> HIDE DEF chains
<1>6. /\ group' \in Groups /\ group'.reserved = group.reserved
      /\ group'.module_as = group.module_as /\ group'.chains = chains
  BY <1>1, <1>2, <1>5 DEF Groups
<1>7. /\ p \in Parses /\ p.file = parse.file /\ p.symb_module = parse.symb_module
      /\ p.symb_order = <<"chain_input_msg">> /\ p.errors = parse.errors
  BY <1>2, <1>3 DEF Parses
<1> HIDE DEF p
<1>8. /\ parse' \in Parses /\ parse'.file = parse.file
      /\ parse'.symb_module = parse.symb_module
      /\ parse'.symb_order = <<"chain_input_msg">> /\ parse'.errors = parse.errors
  BY <1>1, <1>7, Advanced DEF Base
<1>9. Len(parse'.symb_order) <= Len(group'.chains[Len(group'.chains)].exec_order)
  <2>1. group'.chains[Len(group'.chains)] = new
    BY <1>5, <1>6
  <2>2. Len(<<"chain_input_msg">>) = 1 /\ Len(<<InputOrder>>) = 1
    OBVIOUS
  <2>3. Len(parse'.symb_order) = 1
    BY <1>8, <2>2, Zenon
  <2>4. Len(new.exec_order) = 1
    BY <1>3, <2>2, Zenon
  <2>5. QED
    BY <2>1, <2>3, <2>4
<1>10. \A k \in 1 .. Len(group'.chains) :
         \/ k \in 1 .. Len(group.chains) /\ group'.chains[k] = group.chains[k]
         \/ ChainLinked(group'.chains[k])
  <2>1. \A k \in 1 .. Len(group.chains) + 1 :
          k \in 1 .. Len(group.chains) \/ k = Len(group.chains) + 1
    BY <1>5
  <2>2. QED
    BY <1>4, <1>5, <1>6, <2>1
<1>11. group'.chains # <<>>
  BY <1>5, <1>6
<1>12. QED
  BY <1>1, <1>6, <1>8, <1>9, <1>10, <1>11, LineKeeps

LEMMA LineAttributes ==
  ASSUME NEW l \in Lines
  PROVE  /\ l.kind = "module" => /\ l.name \in Names /\ l.path \in DOMAIN Image
                                 /\ l.runners \in Nat /\ l.backend \in Backends
         /\ l.kind = "order" => l.name \in Names /\ l.module \in Names /\ l.runner \in Nat
         /\ l.kind = "connection" => l.src \in Names /\ l.dst \in Names
         /\ l.kind = "processor" => l.module \in Names /\ l.order \in Names
  BY DEF Lines

(* A reference to a module of the group.                                   *)
LEMMA ModuleFound ==
  ASSUME Base, NEW kind, Parsing(kind), NEW name
  PROVE  LET id == Find(parse.symb_module, name) IN
         /\ id \in Nat
         /\ id # 0 => ModuleNamed(id, name) /\ id \in DOMAIN ctx
<1> DEFINE id == Find(parse.symb_module, name)
<1>1. /\ load = Idle /\ parse.symb_module \in Seq(Symbols)
      /\ Len(parse.symb_module) = Len(ctx) /\ DOMAIN ctx = 1 .. Len(ctx)
      /\ \A m \in 1 .. Len(ctx) : parse.symb_module[m] = ctx[m].name
  BY LineFields DEF Parses
<1>2. /\ id \in Nat
      /\ id # 0 => id \in 1 .. Len(ctx) /\ parse.symb_module[id] = name
  BY <1>1, Found
<1> HIDE DEF id
<1>3. ASSUME id # 0
      PROVE  ModuleNamed(id, name) /\ id \in DOMAIN ctx
  BY <1>1, <1>2, <1>3 DEF ModuleNamed, Loaded
<1>4. QED
  BY <1>2, <1>3 DEF id

LEMMA OrderFound ==
  ASSUME Base, NEW kind, Parsing(kind), NEW name
  PROVE  LET id == Find(parse.symb_order, name) IN
         id \in Nat /\ (id # 0 => id \in 1 .. Len(chain.exec_order))
<1> DEFINE id == Find(parse.symb_order, name)
<1>1. /\ parse.symb_order \in Seq(Names) /\ chain \in Chains
      /\ Len(parse.symb_order) <= Len(chain.exec_order)
  BY LineFields DEF Parses
<1>2. /\ id \in Nat /\ (id # 0 => id \in 1 .. Len(parse.symb_order))
      /\ Len(parse.symb_order) \in Nat /\ Len(chain.exec_order) \in Nat
  BY <1>1, Found, ListFields, ChainFields
<1> HIDE DEF id
<1>3. QED
  BY <1>1, <1>2 DEF id

(* A line that changes the last chain, and perhaps complains.              *)
LEMMA LastChainKeeps ==
  ASSUME Base, LinksFollowed, NEW kind, Parsing(kind),
         UNCHANGED <<translationVars, initVars, proc, launch>>,
         NEW c \in Chains, SetChain(c), parse' \in Parses,
         parse'.file = parse.file, parse'.symb_module = parse.symb_module,
         Len(parse'.symb_order) <= Len(c.exec_order),
         ~parse'.errors => ~parse.errors /\ (ChainLinked(chain) => ChainLinked(c))
  PROVE  Base' /\ LinksFollowed'
<1>1. /\ group \in Groups /\ group.chains # <<>>
      /\ Len(group.chains) \in 1 .. Len(group.chains)
  BY LineFields
<1>2. /\ group' \in Groups /\ group'.reserved = group.reserved
      /\ group'.module_as = group.module_as
      /\ group'.chains # <<>> /\ Len(group'.chains) = Len(group.chains)
      /\ group'.chains[Len(group.chains)] = c
      /\ \A k \in 1 .. Len(group.chains) - 1 : group'.chains[k] = group.chains[k]
  BY <1>1, ChainChanged
<1>3. ASSUME ~parse'.errors
      PROVE  /\ ~parse.errors
             /\ \A k \in 1 .. Len(group'.chains) :
                  \/ k \in 1 .. Len(group.chains) /\ group'.chains[k] = group.chains[k]
                  \/ ChainLinked(group'.chains[k])
  <2>1. ~parse.errors
    BY <1>3
  <2>2. ChainLinked(chain)
    BY <1>1, <2>1 DEF LinksFollowed, ChainLinked, OrderLinked, chain
  <2>3. ChainLinked(c)
    BY <1>3, <2>2
  <2>4. Len(group.chains) \in Nat
    BY <1>1, ListFields DEF Groups
  <2>5. \A n \in Nat : \A k \in 1 .. n : k = n \/ k \in 1 .. n - 1
    OBVIOUS
  <2>6. QED
    BY <1>2, <2>1, <2>3, <2>4, <2>5
<1>4. Len(parse'.symb_order) <= Len(group'.chains[Len(group'.chains)].exec_order)
  BY <1>2
<1>5. QED
  BY <1>2, <1>3, <1>4, LineKeeps

LEMMA ConnectionLineKeeps ==
  ASSUME Base, LinksFollowed, ConnectionLine, UNCHANGED <<proc, launch>>
  PROVE  Base' /\ LinksFollowed'
<1> DEFINE src == Find(parse.symb_order, line.src)
           dst == Find(parse.symb_order, line.dst)
           c   == [chain EXCEPT !.connection = Append(@, <<src, dst>>)]
           p   == Complain(parse, src = 0 \/ dst = 0)
<1>1. /\ Parsing("connection") /\ SetChain(c) /\ Advance(p)
      /\ UNCHANGED <<translationVars, initVars>>
  BY DEF ConnectionLine
<1>2. /\ parse \in Parses /\ chain \in Chains
      /\ Len(parse.symb_order) <= Len(chain.exec_order)
  BY <1>1, LineFields
<1>3. /\ src \in Nat /\ (src # 0 => src \in 1 .. Len(chain.exec_order))
      /\ dst \in Nat /\ (dst # 0 => dst \in 1 .. Len(chain.exec_order))
  BY <1>1, OrderFound
<1>4. /\ p \in Parses /\ (p.errors <=> (parse.errors \/ (src = 0 \/ dst = 0)))
      /\ p.file = parse.file
      /\ p.symb_module = parse.symb_module /\ p.symb_order = parse.symb_order
  <2>1. (src = 0 \/ dst = 0) \in BOOLEAN
    OBVIOUS
  <2>2. QED
    BY <1>2, <2>1, Complained DEF Base
<1> HIDE DEF src, dst
<1>5. /\ c \in Chains /\ c.exec_order = chain.exec_order
      /\ (ChainLinked(chain) /\ {src, dst} \subseteq 1 .. Len(chain.exec_order)
            => ChainLinked(c))
  BY <1>2, <1>3, ConnectionAdded
<1> HIDE DEF c, p
<1>6. /\ parse' \in Parses /\ parse'.file = parse.file /\ parse'.errors = p.errors
      /\ parse'.symb_module = parse.symb_module /\ parse'.symb_order = parse.symb_order
  BY <1>1, <1>4, Advanced DEF Base
<1>7. Len(parse'.symb_order) <= Len(c.exec_order)
  BY <1>2, <1>5, <1>6
<1>8. ~parse'.errors => ~parse.errors /\ (ChainLinked(chain) => ChainLinked(c))
  BY <1>3, <1>4, <1>5, <1>6
<1>9. QED
  BY <1>1, <1>5, <1>6, <1>7, <1>8, LastChainKeeps

LEMMA ProcessorLineKeeps ==
  ASSUME Base, LinksFollowed, ProcessorLine, UNCHANGED <<proc, launch>>
  PROVE  Base' /\ LinksFollowed'
<1> DEFINE ie == Find(parse.symb_order, line.order)
           ip == Find(parse.symb_module, line.module)
           c  == [chain EXCEPT !.exec_order[ie].processors =
                    Append(@, [id |-> ip, said |-> line.module])]
<1>1. /\ Parsing("processor") /\ UNCHANGED <<translationVars, initVars>>
      /\ \/ ie = 0 /\ GiveUp(parse) /\ group' = group
         \/ /\ ie # 0 /\ SetChain(c)
            /\ (ip = 0 /\ GiveUp(parse)) \/ (ip # 0 /\ Advance(parse))
  BY DEF ProcessorLine
<1>2. /\ parse \in Parses /\ parse.file > 0 /\ chain \in Chains /\ group \in Groups
      /\ Len(parse.symb_order) <= Len(chain.exec_order) /\ group.chains # <<>>
      /\ line.module \in Names
  BY <1>1, LineFields, LineAttributes
<1>3. /\ ie \in Nat /\ (ie # 0 => ie \in 1 .. Len(chain.exec_order))
      /\ ip \in Nat /\ (ip # 0 => ModuleNamed(ip, line.module))
  BY <1>1, OrderFound, ModuleFound
<1>4. GiveUp(parse) => /\ parse' \in Parses /\ parse'.errors /\ parse'.file = parse.file
                       /\ parse'.symb_module = parse.symb_module
                       /\ parse'.symb_order = parse.symb_order
  BY <1>2, GivenUp DEF Base
<1>5. Advance(parse) => /\ parse' \in Parses /\ parse'.errors = parse.errors
                        /\ parse'.file = parse.file
                        /\ parse'.symb_module = parse.symb_module
                        /\ parse'.symb_order = parse.symb_order
  BY <1>2, Advanced DEF Base
<1> HIDE DEF ie, ip
<1>6. CASE ie = 0
  BY <1>1, <1>2, <1>4, <1>6, LineKeeps DEF chain
<1>7. CASE ie # 0
  <2>1. /\ c \in Chains /\ Len(c.exec_order) = Len(chain.exec_order)
        /\ ChainLinked(chain) /\ ModuleNamed(ip, line.module) => ChainLinked(c)
    <3>1. c = WithProcessor(chain, ie, ip, line.module)
      BY DEF WithProcessor
    <3>2. ie \in 1 .. Len(chain.exec_order)
      BY <1>3, <1>7
    <3>3. chain \in Chains /\ line.module \in Names /\ ip \in Nat
      BY <1>2, <1>3
    <3> HIDE DEF c
    <3>4. QED
      BY <3>1, <3>2, <3>3, ProcessorAdded
  <2> HIDE DEF c
  <2>2. /\ SetChain(c)
        /\ (ip = 0 /\ GiveUp(parse)) \/ (ip # 0 /\ Advance(parse))
    BY <1>1, <1>7
  <2>3. /\ parse' \in Parses /\ parse'.file = parse.file
        /\ parse'.symb_module = parse.symb_module /\ parse'.symb_order = parse.symb_order
        /\ ~parse'.errors => ~parse.errors /\ (ChainLinked(chain) => ChainLinked(c))
    BY <1>3, <1>4, <1>5, <2>1, <2>2
  <2>4. Len(parse'.symb_order) <= Len(c.exec_order)
    BY <1>2, <2>1, <2>3
  <2>5. QED
    BY <1>1, <2>1, <2>2, <2>3, <2>4, LastChainKeeps
<1>8. QED
  BY <1>6, <1>7

LEMMA OrderLineKeeps ==
  ASSUME Base, LinksFollowed, OrderLine, UNCHANGED <<proc, launch>>
  PROVE  Base' /\ LinksFollowed'
<1> DEFINE id    == Find(parse.symb_module, line.module)
           order == [type |-> "module_func", module_id |-> id,
                     runner_id |-> line.runner, processors |-> <<>>,
                     said |-> [module |-> line.module]]
           other == Find(parse.symb_order, line.name) # 0
           wrong == \/ id = 0
                    \/ other
                    \/ id \in DOMAIN ctx /\ line.runner >= ctx[id].count
           c     == [chain EXCEPT !.exec_order = Append(@, order)]
           q     == Complain(parse, wrong)
           p     == [q EXCEPT !.symb_order = Append(@, line.name)]
<1>1. /\ Parsing("order") /\ SetChain(c) /\ Advance(p)
      /\ UNCHANGED <<translationVars, initVars>>
  BY DEF OrderLine
<1>2. /\ parse \in Parses /\ chain \in Chains
      /\ Len(parse.symb_order) <= Len(chain.exec_order)
      /\ line.module \in Names /\ line.name \in Names /\ line.runner \in Nat
      /\ DOMAIN ctx = 1 .. Len(ctx) /\ \A m \in 1 .. Len(ctx) : ctx[m] \in ModuleRecord
  BY <1>1, LineFields, LineAttributes
<1>3. /\ id \in Nat
      /\ id # 0 => ModuleNamed(id, line.module) /\ id \in DOMAIN ctx
  BY <1>1, ModuleFound
<1>4. wrong \in BOOLEAN
  OBVIOUS
<1> HIDE DEF id
<1>5. /\ order \in ExecOrder /\ order.module_id = id /\ order.runner_id = line.runner
      /\ order.said.module = line.module /\ order.processors = <<>>
  <2>1. <<>> \in Seq([id : Nat, said : Names])
    BY EmptySeq
  <2>2. [module |-> line.module] \in [module : Symbols]
    BY <1>2 DEF Symbols
  <2>3. QED
    BY <1>2, <1>3, <2>1, <2>2 DEF ExecOrder
<1>6. ~wrong => OrderLinked(order)
  <2>1. ASSUME ~wrong
        PROVE  line.runner < ctx[id].count
    <3>1. id \in DOMAIN ctx /\ ~(line.runner >= ctx[id].count)
      BY <1>3, <2>1
    <3>2. ctx[id].count \in Nat
      BY <1>2, <3>1, RecordFields
    <3>3. QED
      BY <1>2, <3>1, <3>2
  <2>2. ASSUME ~wrong
        PROVE  ModuleNamed(id, line.module)
    BY <1>3, <2>2
  <2>3. Len(<<>>) = 0 /\ 1 .. 0 = {}
    OBVIOUS
  <2> HIDE DEF wrong, order
  <2>4. QED
    BY <1>5, <2>1, <2>2, <2>3 DEF OrderLinked
<1> HIDE DEF order, wrong
<1>7. /\ c \in Chains /\ Len(c.exec_order) = Len(chain.exec_order) + 1
      /\ ChainLinked(chain) /\ OrderLinked(order) => ChainLinked(c)
  BY <1>2, <1>5, OrderAdded
<1>8. /\ q \in Parses /\ (q.errors <=> (parse.errors \/ wrong)) /\ q.file = parse.file
      /\ q.symb_module = parse.symb_module /\ q.symb_order = parse.symb_order
  BY <1>2, <1>4, Complained DEF Base
<1> HIDE DEF c, q
<1>9. /\ p \in Parses /\ p.errors = q.errors /\ p.file = q.file
      /\ p.symb_module = q.symb_module /\ Len(p.symb_order) = Len(q.symb_order) + 1
      /\ Len(q.symb_order) \in Nat
  <2> DEFINE s == Append(q.symb_order, line.name)
  <2>1. q.symb_order \in Seq(Names)
    BY <1>8 DEF Parses
  <2>2. s \in Seq(Names) /\ Len(s) = Len(q.symb_order) + 1 /\ Len(q.symb_order) \in Nat
    BY <1>2, <2>1, ListExtended, ListFields
  <2> HIDE DEF s
  <2>3. p = [q EXCEPT !.symb_order = s]
    BY DEF s
  <2> HIDE DEF p
  <2>4. QED
    BY <1>8, <2>2, <2>3 DEF Parses
<1> HIDE DEF p
<1>10. /\ parse' \in Parses /\ parse'.file = parse.file /\ parse'.errors = p.errors
       /\ parse'.symb_module = parse.symb_module /\ parse'.symb_order = p.symb_order
  BY <1>1, <1>8, <1>9, Advanced DEF Base
<1>11. Len(parse'.symb_order) <= Len(c.exec_order)
  <2>1. Len(chain.exec_order) \in Nat
    BY <1>2, ChainFields
  <2>2. Len(parse'.symb_order) = Len(parse.symb_order) + 1 /\ Len(parse.symb_order) \in Nat
    BY <1>8, <1>9, <1>10
  <2>3. QED
    BY <1>2, <1>7, <2>1, <2>2
<1>12. ~parse'.errors => ~parse.errors /\ (ChainLinked(chain) => ChainLinked(c))
  BY <1>6, <1>7, <1>8, <1>9, <1>10
<1>13. QED
  BY <1>1, <1>7, <1>10, <1>11, <1>12, LastChainKeeps

(* The links stay as they are if the modules they name do.                 *)
LEMMA LinksKept ==
  ASSUME LinksFollowed, group'.chains = group.chains, ~parse'.errors => ~parse.errors,
         \A id, name : ModuleNamed(id, name) =>
                         ModuleNamed(id, name)' /\ ctx'[id].count = ctx[id].count
  PROVE  LinksFollowed'
<1>1. ASSUME ~parse'.errors
      PROVE  \A k \in 1 .. Len(group.chains) : ChainLinked(group.chains[k])
  BY <1>1 DEF LinksFollowed, ChainLinked, OrderLinked
<1>2. \A order : OrderLinked(order) =>
        /\ order.type = "module_func" =>
             /\ ModuleNamed(order.module_id, order.said.module)'
             /\ order.runner_id < ctx'[order.module_id].count
        /\ \A j \in 1 .. Len(order.processors) :
             ModuleNamed(order.processors[j].id, order.processors[j].said)'
  BY DEF OrderLinked
<1>3. \A ch : ChainLinked(ch) =>
        /\ \A o \in 1 .. Len(ch.exec_order) : LET order == ch.exec_order[o] IN
             /\ order.type = "module_func" =>
                  /\ ModuleNamed(order.module_id, order.said.module)'
                  /\ order.runner_id < ctx'[order.module_id].count
             /\ \A j \in 1 .. Len(order.processors) :
                  ModuleNamed(order.processors[j].id, order.processors[j].said)'
        /\ \A j \in 1 .. Len(ch.connection) :
             {ch.connection[j][1], ch.connection[j][2]} \subseteq 1 .. Len(ch.exec_order)
  BY <1>2 DEF ChainLinked
<1>4. QED
  BY <1>1, <1>3 DEF LinksFollowed

(* A module line.                                                          *)
LEMMA SlotsGiven ==
  ASSUME group \in Groups, NEW needed \in Nat, needed <= ReserveCount, needed > 0
  PROVE  LET g == WithSlots(needed) IN
         /\ g \in Groups /\ g.reserved # 0 /\ needed <= g.module_as
         /\ g.chains = group.chains /\ g.cita_index = group.cita_index
         /\ group.reserved # 0 => g.reserved = group.reserved
<1> DEFINE n == CommitCount(needed)
<1>1. n \in 0 .. ReserveCount /\ needed <= n
  <2>1. needed \div 2 \in Nat
    BY SMTT(30)
  <2>2. PICK h \in Nat : h = needed \div 2
    BY <2>1
  <2>3. n = IF needed + h + 1 < ReserveCount THEN needed + h + 1 ELSE ReserveCount
    BY <2>2 DEF CommitCount
  <2> HIDE DEF n
  <2>4. QED
    BY <2>2, <2>3, ScenariosAssumption
<1>2. /\ group.reserved \in Nat /\ group.module_as \in Nat
  BY ScenariosAssumption DEF Groups
<1>3. WithSlots(needed) =
        IF group.reserved = 0 THEN [group EXCEPT !.reserved = 1, !.module_as = n]
        ELSE IF needed > group.module_as THEN [group EXCEPT !.module_as = n] ELSE group
  BY DEF WithSlots
<1> HIDE DEF n
<1> DEFINE once == [group EXCEPT !.reserved = 1, !.module_as = n]
           more == [group EXCEPT !.module_as = n]
<1>3a. /\ once \in Groups /\ once.reserved = 1 /\ once.module_as = n
       /\ once.chains = group.chains /\ once.cita_index = group.cita_index
       /\ more \in Groups /\ more.reserved = group.reserved /\ more.module_as = n
       /\ more.chains = group.chains /\ more.cita_index = group.cita_index
  BY <1>1 DEF Groups
<1>3b. WithSlots(needed) =
         IF group.reserved = 0 THEN once
         ELSE IF needed > group.module_as THEN more ELSE group
  BY <1>3
<1> HIDE DEF once, more
<1>4. CASE group.reserved = 0
  <2>1. WithSlots(needed) = once
    BY <1>3b, <1>4
  <2>2. QED
    BY <1>1, <1>3a, <1>4, <2>1
<1>5. CASE group.reserved # 0 /\ needed > group.module_as
  <2>1. WithSlots(needed) = more
    BY <1>3b, <1>5
  <2>2. QED
    BY <1>1, <1>3a, <1>5, <2>1
<1>6. CASE group.reserved # 0 /\ ~(needed > group.module_as)
  <2>1. WithSlots(needed) = group /\ needed <= group.module_as
    BY <1>2, <1>3, <1>6
  <2>2. QED
    BY <1>6, <2>1
<1>7. QED
  BY <1>4, <1>5, <1>6

LEMMA FreshSound ==
  ASSUME Base, NEW path \in DOMAIN Image, NEW n \in Nat, NEW backend \in Backends,
         NEW self \in Nat \X Nat
  PROVE  LET r == Fresh(path, n, backend, self) IN
         /\ r \in ModuleRecord /\ r.image = path /\ Untouched(r) /\ r.self = self
         /\ r.name = NoName /\ r.backend = backend /\ r.wide = CurrentMode
         /\ ~r.translated /\ ~r.waited
         /\ RecordSound(r, Image[path])
<1> DEFINE count == IF n = 0 THEN 1 ELSE n
           r     == Fresh(path, n, backend, self)
           im    == Image[path]
<1>1. /\ im.heap_base \in Nat /\ CurrentMode \in Modes /\ NoName \in Symbols
      /\ count \in Nat \ {0} /\ <<>> \in Seq(Regions)
      /\ "none" \in Types /\ "off" \in Modes
  BY ImageFields, ModeTyped, EmptySeq DEF Base, Symbols, Types, Modes
<1>2. /\ r.image = path /\ r.name = NoName /\ r.self = self /\ r.type = "none"
      /\ r.valid = FALSE /\ r.count = count /\ r.stack_base = 0 /\ r.stacks = <<>>
      /\ r.tls = <<>> /\ r.heap = im.heap_base /\ r.blanked = {} /\ r.writes = 0
      /\ r.backend = backend /\ r.wide = CurrentMode /\ r.translated = FALSE
      /\ r.waited = FALSE
  BY DEF Fresh
<1> HIDE DEF count
<1>3. r \in ModuleRecord
  BY <1>1 DEF Fresh, ModuleRecord, count
<1> HIDE DEF r, im
<1>4. RecordSound(r, im)
  <2>1. Len(r.stacks) = 0 /\ Len(r.tls) = 0 /\ 1 .. 0 = {}
    BY <1>2
  <2>2. 0 <= count /\ 0 < count /\ im.heap_base <= im.heap_base /\ 0 <= 1 /\ ~(0 > 0)
    BY <1>1
  <2>3. StacksGiven(r, im)
    BY <1>2, <2>1, <2>2 DEF StacksGiven
  <2>4. TlsGiven(r, im)
    BY <1>2, <2>1, <2>2 DEF TlsGiven
  <2>5. QED
    BY <1>2, <2>2, <2>3, <2>4 DEF RecordSound, BlankedOnly
<1>5. Untouched(r)
  BY <1>2 DEF Untouched
<1>6. QED
  BY <1>2, <1>3, <1>4, <1>5 DEF r, im

LEMMA NamesGrow ==
  ASSUME Base, Parsing("module")
  PROVE  /\ WithModule \in Parses /\ WithModule.file = parse.file
         /\ WithModule.symb_order = parse.symb_order
         /\ ~WithModule.errors => ~parse.errors
         /\ WithModule.il = parse.il
         /\ Len(WithModule.symb_module) = Len(ctx) + 1
         /\ WithModule.symb_module[Len(ctx) + 1] = line.name
         /\ \A m \in 1 .. Len(ctx) : WithModule.symb_module[m] = parse.symb_module[m]
<1> DEFINE used == Find(parse.symb_module, line.name) # 0
           q    == Complain(parse, used)
           s    == Append(q.symb_module, line.name)
<1>1. /\ parse \in Parses /\ Len(parse.symb_module) = Len(ctx) /\ line.name \in Symbols
  BY LineFields, LineAttributes DEF Symbols
<1>2. used \in BOOLEAN
  OBVIOUS
<1> HIDE DEF used
<1>3. /\ q \in Parses /\ (q.errors <=> (parse.errors \/ used)) /\ q.file = parse.file
      /\ q.symb_module = parse.symb_module /\ q.symb_order = parse.symb_order
      /\ q.il = parse.il
  BY <1>1, <1>2, Complained DEF Base
<1>4. WithModule = [q EXCEPT !.symb_module = s]
  BY DEF WithModule, used
<1> HIDE DEF q
<1>5. /\ s \in Seq(Symbols) /\ Len(s) = Len(ctx) + 1 /\ s[Len(ctx) + 1] = line.name
      /\ \A m \in 1 .. Len(ctx) : s[m] = parse.symb_module[m]
  <2>1. parse.symb_module \in Seq(Symbols)
    BY <1>1 DEF Parses
  <2>2. s = Append(parse.symb_module, line.name)
    BY <1>3
  <2> HIDE DEF s
  <2>3. QED
    BY <1>1, <2>1, <2>2, ListExtended
<1> HIDE DEF s
<1>6. QED
  BY <1>3, <1>4, <1>5 DEF Parses

(* The record of a new module is appended.                                 *)
LEMMA ModuleBegins ==
  ASSUME Base, Parsing("module"),
         Begin(line.path, line.runners, line.backend, line.name,
               <<group'.reserved, Len(parse.symb_module) + 1>>),
         group'.reserved \in Nat
  PROVE  LET r == Fresh(line.path, line.runners, line.backend,
                        <<group'.reserved, Len(ctx) + 1>>)
             ld == [stage |-> "resolve", name |-> line.name, backend |-> line.backend,
                    runners |-> line.runners, i |-> 0] IN
         /\ load = Idle /\ load' = ld /\ ld \in Loads /\ held' = {}
         /\ UNCHANGED translationVars
         /\ r \in ModuleRecord /\ r.image = line.path /\ Untouched(r)
         /\ r.self = <<group'.reserved, Len(ctx) + 1>>
         /\ r.backend = line.backend /\ r.wide = CurrentMode
         /\ ~r.translated /\ ~r.waited /\ RecordSound(r, Image[line.path])
         /\ ctx' \in Seq(ModuleRecord) /\ Len(ctx') = Len(ctx) + 1 /\ ctx' # <<>>
         /\ Len(ctx) \in Nat
         /\ ctx'[Len(ctx) + 1] = r /\ cur' = r /\ img' = Image[line.path]
         /\ \A m \in 1 .. Len(ctx) : ctx'[m] = ctx[m]
<1> DEFINE self == <<group'.reserved, Len(ctx) + 1>>
           r == Fresh(line.path, line.runners, line.backend, self)
           ld == [stage |-> "resolve", name |-> line.name, backend |-> line.backend,
                  runners |-> line.runners, i |-> 0]
<1>1. /\ load = Idle /\ Len(parse.symb_module) = Len(ctx) /\ Len(ctx) \in Nat
      /\ line.name \in Names /\ line.path \in DOMAIN Image /\ line.runners \in Nat
      /\ line.backend \in Backends
  BY LineFields, LineAttributes
<1>2. ctx' = Append(ctx, r) /\ load' = ld /\ held' = {} /\ UNCHANGED translationVars
  BY <1>1 DEF Begin
<1>3. ld \in Loads
  BY <1>1 DEF Loads, Stages, Symbols
<1>4. self \in Nat \X Nat
  BY <1>1
<1> HIDE DEF self
<1>5. /\ r \in ModuleRecord /\ r.image = line.path /\ Untouched(r) /\ r.self = self
      /\ r.backend = line.backend /\ r.wide = CurrentMode
      /\ ~r.translated /\ ~r.waited /\ RecordSound(r, Image[line.path])
  BY <1>1, <1>4, FreshSound
<1> HIDE DEF r
<1>6. /\ ctx' \in Seq(ModuleRecord) /\ Len(ctx') = Len(ctx) + 1 /\ ctx' # <<>>
      /\ ctx'[Len(ctx) + 1] = r /\ \A m \in 1 .. Len(ctx) : ctx'[m] = ctx[m]
  BY <1>2, <1>5, ListExtended DEF Base, VariablesTyped
<1>7. cur' = r
  BY <1>6 DEF cur
<1>8. img' = Image[line.path]
  BY <1>5, <1>7 DEF img
<1>9. QED
  BY <1>1, <1>2, <1>3, <1>5, <1>6, <1>7, <1>8 DEF r, self

LEMMA ModuleLineKeeps ==
  ASSUME Base, LinksFollowed, ModuleLine, UNCHANGED <<proc, launch>>
  PROVE  Base' /\ LinksFollowed'
<1> DEFINE needed == Len(parse.symb_module) + 1
<1>1. /\ Parsing("module") /\ load = Idle
      /\ parse \in Parses /\ group \in Groups /\ parse.il > 0 /\ parse.file > 0
      /\ Len(parse.symb_module) = Len(ctx) /\ Len(ctx) \in Nat
      /\ parse.file \in 1 .. Len(host.files)
      /\ \A m \in 1 .. Len(ctx) : parse.symb_module[m] = ctx[m].name
      /\ group.chains # <<>> /\ Len(parse.symb_order) <= Len(chain.exec_order)
  BY LineFields DEF ModuleLine
<1>2. /\ WithModule \in Parses /\ WithModule.file = parse.file
      /\ WithModule.symb_order = parse.symb_order
      /\ ~WithModule.errors => ~parse.errors
      /\ WithModule.il = parse.il
      /\ Len(WithModule.symb_module) = Len(ctx) + 1
      /\ WithModule.symb_module[Len(ctx) + 1] = line.name
      /\ \A m \in 1 .. Len(ctx) : WithModule.symb_module[m] = parse.symb_module[m]
  BY <1>1, NamesGrow
<1>3. CASE /\ GiveUp(WithModule)
           /\ UNCHANGED <<translationVars, initVars, group>>
  <2>1. /\ parse' \in Parses /\ parse'.errors /\ parse'.file = parse.file
        /\ parse'.symb_module = WithModule.symb_module
        /\ parse'.symb_order = parse.symb_order
        /\ parse'.il = Len(host.files[parse.file]) + 1
    BY <1>1, <1>2, <1>3, GivenUp DEF Base
  <2>2. ~(parse'.il <= Len(host.files[parse'.file]))
    BY <1>1, <2>1, HostTyped DEF Base
  <2>3. Len(parse'.symb_module) >= Len(ctx)
    BY <1>1, <1>2, <2>1
  <2>4. Base'
    BY <1>1, <1>2, <1>3, <2>1, <2>2, <2>3, ParserKeepsBase DEF chain
  <2>5. LinksFollowed'
    BY <2>1 DEF LinksFollowed
  <2>6. QED
    BY <2>4, <2>5
<1>4. CASE /\ needed <= ReserveCount
           /\ group' = WithSlots(needed)
           /\ Advance(WithModule)
           /\ Begin(line.path, line.runners, line.backend, line.name,
                    <<group'.reserved, needed>>)
  <2>1. /\ group' \in Groups /\ group'.reserved # 0 /\ needed <= group'.module_as
        /\ group'.chains = group.chains /\ group'.reserved \in Nat
    <3>1. needed \in Nat /\ needed > 0
      BY <1>1
    <3> HIDE DEF needed
    <3>2. /\ group' \in Groups /\ group'.reserved # 0 /\ needed <= group'.module_as
          /\ group'.chains = group.chains
      BY <1>1, <1>4, <3>1, SlotsGiven
    <3>3. QED
      BY <3>2 DEF Groups
  <2> DEFINE r == Fresh(line.path, line.runners, line.backend,
                        <<group'.reserved, Len(ctx) + 1>>)
             ld == [stage |-> "resolve", name |-> line.name, backend |-> line.backend,
                    runners |-> line.runners, i |-> 0]
  <2>2. /\ load' = ld /\ ld \in Loads /\ held' = {} /\ UNCHANGED translationVars
        /\ r \in ModuleRecord /\ r.image = line.path /\ Untouched(r)
        /\ RecordSound(r, Image[line.path])
        /\ ctx' \in Seq(ModuleRecord) /\ Len(ctx') = Len(ctx) + 1 /\ ctx' # <<>>
        /\ ctx'[Len(ctx) + 1] = r /\ cur' = r /\ img' = Image[line.path]
        /\ \A m \in 1 .. Len(ctx) : ctx'[m] = ctx[m]
    BY <1>1, <1>4, <2>1, ModuleBegins
  <2>3. ld.stage = "resolve" /\ ld.i = 0 /\ ld.name = line.name /\ ld # Idle
    BY DEF Idle
  <2> HIDE DEF r, ld
  <2>4. /\ parse' \in Parses /\ parse'.file = parse.file
        /\ parse'.symb_module = WithModule.symb_module
        /\ parse'.symb_order = parse.symb_order
        /\ parse'.errors = WithModule.errors /\ parse'.il = parse.il + 1
    BY <1>2, <1>4, Advanced DEF Base
  <2>5. /\ \A m : Loaded(m)
        /\ \A m : Loaded(m)' <=> m < Len(ctx) + 1
    BY <1>1, <2>2, <2>3 DEF Loaded
  <2>6. \A m \in 1 .. Len(ctx) + 1 : m \in 1 .. Len(ctx) \/ m = Len(ctx) + 1
    BY <1>1
  <2>7. parse'.il > 0 /\ parse.il \in Nat
    BY <1>1, <2>4 DEF Parses
  <2>8. VariablesTyped'
    <3>1. /\ settings' = settings /\ lib' = lib /\ cache' = cache /\ jobs' = jobs
          /\ host' = host /\ proc' = proc /\ launch' = launch
      BY <2>2 DEF translationVars
    <3>2. held' \subseteq [kind : Kinds, i : Nat]
      BY <2>2
    <3>3. load' \in Loads /\ ctx' \in Seq(ModuleRecord)
      BY <2>2
    <3>4. QED
      BY <2>1, <2>4, <3>1, <3>2, <3>3 DEF Base, VariablesTyped, Groups, Parses
  <2>9. RecordsSound'
    <3>1. ASSUME NEW m \in 1 .. Len(ctx) + 1
          PROVE  RecordSound(ctx'[m], Image[ctx'[m].image])
      <4>1. CASE m = Len(ctx) + 1
        BY <2>2, <4>1
      <4>2. CASE m \in 1 .. Len(ctx)
        BY <2>2, <4>2 DEF Base, RecordsSound
      <4>3. QED
        BY <2>6, <4>1, <4>2
    <3>2. QED
      BY <2>2, <3>1 DEF RecordsSound
  <2>10. LoadInStage'
    <3>1. r.count \in Nat \ {0}
      BY <2>2, RecordFields
    <3>2. Suited(r, Image[line.path]) /\ Progress(r, Image[line.path], "resolve", 0)
      BY <2>2, UntouchedFails
    <3>3. ASSUME NEW m \in 1 .. Len(ctx) + 1, Loaded(m)'
          PROVE  Ready(ctx'[m])
      <4>1. m \in 1 .. Len(ctx)
        BY <1>1, <2>5, <3>3
      <4>2. Ready(ctx[m])
        BY <2>5, <4>1 DEF Base, LoadInStage
      <4>3. QED
        BY <2>2, <4>1, <4>2
    <3>4. load'.stage # "idle" /\ load'.stage = "resolve" /\ load'.i = 0 /\ 0 < cur'.count
      BY <2>2, <2>3, <3>1
    <3>5. QED
      BY <2>2, <2>3, <2>7, <3>2, <3>3, <3>4 DEF LoadInStage
  <2>11. FilesFollowed'
    <3>1. ASSUME NEW m \in 1 .. Len(ctx) + 1
          PROVE  parse'.symb_module[m] = IF Loaded(m)' THEN ctx'[m].name ELSE load'.name
      <4>1. CASE m = Len(ctx) + 1
        BY <1>1, <1>2, <2>2, <2>3, <2>4, <2>5, <4>1
      <4>2. CASE m \in 1 .. Len(ctx)
        <5>1. Loaded(m)'
          BY <1>1, <2>5, <4>2
        <5>2. QED
          BY <1>1, <1>2, <2>2, <2>4, <4>2, <5>1
      <4>3. QED
        BY <2>6, <4>1, <4>2
    <3>2. chain' = chain
      BY <2>1 DEF chain
    <3>3. /\ Len(ctx') <= group'.module_as /\ Len(parse'.symb_module) = Len(ctx')
          /\ Len(parse'.symb_module) >= Len(ctx')
      BY <1>1, <1>2, <2>1, <2>2, <2>4
    <3>4. QED
      BY <1>1, <2>1, <2>2, <2>4, <2>7, <3>1, <3>2, <3>3 DEF FilesFollowed
  <2>12. LinksFollowed'
    <3>1. ASSUME NEW id, NEW name, ModuleNamed(id, name)
          PROVE  ModuleNamed(id, name)' /\ ctx'[id].count = ctx[id].count
      <4>1. id \in 1 .. Len(ctx) /\ ctx[id].name = name
        BY <3>1, CurrentFields DEF Base, ModuleNamed
      <4>2. id \in DOMAIN ctx' /\ ctx'[id] = ctx[id] /\ Loaded(id)'
        <5>1. DOMAIN ctx' = 1 .. Len(ctx) + 1
          BY <2>2, ListFields
        <5>2. QED
          BY <1>1, <2>2, <2>5, <4>1, <5>1
      <4>3. QED
        BY <4>1, <4>2 DEF ModuleNamed
    <3>2. ~parse'.errors => ~parse.errors
      BY <1>2, <2>4
    <3>3. QED
      BY <2>1, <3>1, <3>2, LinksKept
  <2>13. HostGiven'
    BY <2>2 DEF Base, HostGiven, translationVars
  <2>14. QED
    BY <2>8, <2>9, <2>10, <2>11, <2>12, <2>13 DEF Base
<1>5. QED
  BY <1>3, <1>4 DEF ModuleLine

-----------------------------------------------------------------------------
(* The base of the invariant is kept by every step.                        *)

LEMMA OthersSpared ==
  ASSUME Base, InitStep
  PROVE  /\ ctx' \in Seq(ModuleRecord) /\ Len(ctx') = Len(ctx) /\ ctx' # <<>>
         /\ Len(ctx) \in Nat \ {0}
         /\ \A m \in 1 .. Len(ctx) - 1 : ctx'[m] = ctx[m]
<1>1. \E r \in ModuleRecord : SetCtx(r)
  <2>1. CASE RegisterModule
    <3>1. cur \in ModuleRecord /\ load.name \in Symbols
      BY InitLoads, Loading DEF Loads
    <3>2. [cur EXCEPT !.name = load.name] \in ModuleRecord
      BY <3>1 DEF ModuleRecord
    <3>3. QED
      BY <2>1, <3>2 DEF RegisterModule
  <2>2. CASE \E r, ld : Moves(r, ld)
    BY <2>2 DEF Moves
  <2>3. QED
    BY <2>1, <2>2, InitMoves
<1>2. ctx # <<>> /\ VariablesTyped /\ Len(ctx) \in Nat \ {0}
  BY InitLoads, Loading, CurrentFields DEF Base
<1>3. QED
  BY <1>1, <1>2, CurrentSet

LEMMA InitKeepsLinks ==
  ASSUME Base, LinksFollowed, InitStep, UNCHANGED groupVars
  PROVE  LinksFollowed'
<1>1. /\ ctx' \in Seq(ModuleRecord) /\ Len(ctx') = Len(ctx) /\ Len(ctx) \in Nat
      /\ \A m \in 1 .. Len(ctx) - 1 : ctx'[m] = ctx[m]
  BY OthersSpared
<1>2. /\ DOMAIN ctx = 1 .. Len(ctx) /\ DOMAIN ctx' = 1 .. Len(ctx)
  BY <1>1, CurrentFields, ListFields DEF Base
<1>3. ASSUME NEW id, NEW name, ModuleNamed(id, name)
      PROVE  ModuleNamed(id, name)' /\ ctx'[id].count = ctx[id].count
  <2>1. id \in 1 .. Len(ctx) /\ ctx[id].name = name /\ id < Len(ctx)
    BY <1>2, <1>3, InitLoads, StillLoading DEF ModuleNamed
  <2>2. id \in 1 .. Len(ctx) - 1
    BY <1>1, <2>1
  <2>3. ctx'[id] = ctx[id] /\ Loaded(id)'
    BY <1>1, <2>1, <2>2 DEF Loaded
  <2>4. QED
    BY <1>2, <2>1, <2>3 DEF ModuleNamed
<1>4. group'.chains = group.chains /\ (~parse'.errors => ~parse.errors)
  BY DEF groupVars
<1>5. QED
  BY <1>3, <1>4, LinksKept

LEMMA OutsideKeeps ==
  ASSUME Base, LinksFollowed, UNCHANGED <<initVars, groupVars>>, host' = host, Outside'
  PROVE  Base' /\ LinksFollowed'
<1>1. /\ ctx' = ctx /\ load' = load /\ held' = held /\ host' = host
      /\ group' = group /\ parse' = parse /\ proc' = proc /\ launch' = launch
  BY DEF initVars, groupVars
<1>2. VariablesTyped'
  BY <1>1 DEF Base, VariablesTyped, Outside
<1>3. RecordsSound'
  BY <1>1 DEF Base, RecordsSound
<1>4. cur' = cur /\ img' = img
  BY <1>1 DEF cur, img
<1>5. \A m : Loaded(m)' <=> Loaded(m)
  BY <1>1 DEF Loaded
<1>6. LoadInStage'
  BY <1>1, <1>4, <1>5 DEF Base, LoadInStage
<1>7. FilesFollowed'
  <2>1. chain' = chain
    BY <1>1 DEF chain
  <2>2. QED
    BY <1>1, <1>5, <2>1 DEF Base, FilesFollowed
<1>8. LinksFollowed'
  <2>1. \A id, name : ModuleNamed(id, name) => ModuleNamed(id, name)'
    BY <1>1, <1>5 DEF ModuleNamed
  <2>2. QED
    BY <1>1, <2>1, LinksKept
<1>9. QED
  BY <1>1, <1>2, <1>3, <1>6, <1>7, <1>8 DEF Base, HostGiven

LEMMA HostSetsModeKeeps ==
  ASSUME Base, LinksFollowed, HostSetsMode, UNCHANGED <<proc, launch>>
  PROVE  Base' /\ LinksFollowed'
<1>1. PICK mode \in Modes, dir \in Dirs :
        /\ settings' = [mode_set |-> TRUE, mode |-> mode, cache_dir |-> dir]
        /\ UNCHANGED <<host, lib, cache, jobs>> /\ UNCHANGED <<initVars, group, parse>>
  BY DEF HostSetsMode, SetMode
<1>2. Outside'
  BY <1>1 DEF Outside, Base, VariablesTyped
<1>3. UNCHANGED <<initVars, groupVars>>
  BY <1>1 DEF groupVars
<1>4. QED
  BY <1>1, <1>2, <1>3, OutsideKeeps

LEMMA BackgroundKeeps ==
  ASSUME Base, LinksFollowed, Background, UNCHANGED <<proc, launch>>
  PROVE  Base' /\ LinksFollowed'
<1>1. PICK job \in jobs :
        /\ jobs' = jobs \ {job} /\ cache' \in {cache, cache \cup {job}}
        /\ UNCHANGED <<host, settings, lib>> /\ UNCHANGED <<initVars, group, parse>>
  BY DEF Background, BackgroundBuildEnds
<1>2. Outside'
  BY <1>1 DEF Outside, Base, VariablesTyped
<1>3. UNCHANGED <<initVars, groupVars>>
  BY <1>1 DEF groupVars
<1>4. QED
  BY <1>1, <1>2, <1>3, OutsideKeeps

(* The state a process starts in.                                          *)
LEMMA StartsTyped ==
  ASSUME HostGiven
  PROVE  /\ NoGroup \in Groups /\ NoParse \in Parses /\ Idle \in Loads
         /\ <<>> \in Seq(ModuleRecord) /\ {} \subseteq [kind : Kinds, i : Nat]
         /\ Unset \in [mode_set : BOOLEAN, mode : Modes, cache_dir : Dirs \cup {DefaultDir}]
         /\ 1 \in 1 .. MaxLaunches
         /\ NoGroup.reserved = 0 /\ NoGroup.module_as = 0 /\ NoGroup.chains = <<>>
         /\ NoGroup.cita_index = {} /\ NoParse.il = 0
<1>1. NoName \in Symbols
  BY DEF Symbols
<1>2. Idle \in Loads
  BY <1>1 DEF Idle, Loads, Stages, Backends
<1>3. QED
  BY <1>2, EmptyLists, EmptySeq, ScenariosAssumption
     DEF Unset, Modes, NoGroup, NoParse

LEMMA InitEstablishesBase ==
  ASSUME Init
  PROVE  Base /\ LinksFollowed
<1>1. HostGiven
  BY DEF Init, HostGiven
<1>2. VariablesTyped
  <2>1. lib \in {"untried", "loaded", "absent"} /\ cache \cup jobs = {}
    BY DEF Init
  <2>2. QED
    BY <1>1, <2>1, StartsTyped DEF Init, VariablesTyped, Groups, Parses
<1>3. Len(ctx) = 0 /\ 1 .. 0 = {} /\ 0 <= 0 /\ ~(0 > 0)
  BY DEF Init
<1>4. RecordsSound
  BY <1>3 DEF RecordsSound
<1>5. LoadInStage
  BY <1>3 DEF Init, LoadInStage
<1>6. FilesFollowed
  BY <1>1, <1>3, StartsTyped DEF Init, FilesFollowed
<1>7. LinksFollowed
  <2>1. Len(group.chains) = 0
    BY <1>1, StartsTyped DEF Init
  <2>2. QED
    BY <1>3, <2>1 DEF LinksFollowed
<1>8. QED
  BY <1>1, <1>2, <1>4, <1>5, <1>6, <1>7 DEF Base

LEMMA RestartEstablishesBase ==
  ASSUME Base, Restart
  PROVE  Base' /\ LinksFollowed'
<1>1. /\ ctx' = <<>> /\ load' = Idle /\ held' = {} /\ group' = NoGroup
      /\ parse' = NoParse /\ settings' = Unset /\ lib' = "untried" /\ jobs' = {}
      /\ host' = host /\ cache' = cache
  BY DEF Restart, RestartTranslation
<1>2. HostGiven /\ HostGiven'
  BY <1>1 DEF Base, HostGiven
<1>3. VariablesTyped'
  <2>1. proc' \in {"up", "dead"} /\ launch' \in 1 .. MaxLaunches
    <3>1. launch \in 1 .. MaxLaunches /\ MaxLaunches \in Nat
      BY ScenariosAssumption DEF Base, VariablesTyped
    <3>2. QED
      BY <3>1 DEF Restart
  <2>2. lib' \in {"untried", "loaded", "absent"}
    BY <1>1
  <2>3. cache' \cup jobs' \subseteq (Dirs \cup {DefaultDir}) \X DOMAIN Image
    BY <1>1 DEF Base, VariablesTyped
  <2>4. QED
    BY <1>1, <1>2, <2>1, <2>2, <2>3, StartsTyped DEF VariablesTyped, Groups, Parses
<1>4. Len(ctx') = 0 /\ 1 .. 0 = {} /\ 0 <= 0 /\ ~(0 > 0)
  BY <1>1
<1>5. RecordsSound'
  BY <1>4 DEF RecordsSound
<1>6. LoadInStage'
  BY <1>1, <1>4 DEF LoadInStage
<1>7. FilesFollowed'
  BY <1>1, <1>2, <1>4, StartsTyped DEF FilesFollowed
<1>8. LinksFollowed'
  <2>1. Len(group'.chains) = 0
    BY <1>1, <1>2, StartsTyped
  <2>2. QED
    BY <1>4, <2>1 DEF LinksFollowed
<1>9. QED
  BY <1>2, <1>3, <1>5, <1>6, <1>7, <1>8 DEF Base

Sound == Base /\ LinksFollowed

LEMMA NextKeepsBase ==
  ASSUME Sound, [Next]_vars
  PROVE  Sound'
<1>1. Base /\ LinksFollowed
  BY DEF Sound
<1>2. CASE UNCHANGED vars
  <2>1. /\ UNCHANGED <<initVars, groupVars>> /\ host' = host /\ Outside'
    BY <1>1, <1>2 DEF vars, translationVars, Outside, Base, VariablesTyped
  <2>2. QED
    BY <1>1, <2>1, OutsideKeeps DEF Sound
<1>3. CASE HostStep /\ UNCHANGED <<proc, launch>>
  <2>1. CASE OpenFile \/ EndFile \/ GroupInit
    <3>1. Base'
      BY <1>1, <1>3, <2>1, OpenFileKeepsBase, EndFileKeepsBase, GroupInitKeepsBase
    <3>2. LinksFollowed'
      <4>1. /\ ctx' = ctx /\ load' = load
        BY <2>1 DEF OpenFile, EndFile, GroupInit, initVars
      <4>2. \A id, name : ModuleNamed(id, name) => ModuleNamed(id, name)'
        BY <4>1 DEF ModuleNamed, Loaded
      <4>3. parse'.errors = parse.errors
        <5>1. parse \in Parses
          BY <1>1 DEF Base, VariablesTyped, Parses
        <5>2. QED
          BY <2>1, <5>1 DEF OpenFile, EndFile, GroupInit, Parses
      <4>4. group \in Groups
        BY <1>1 DEF Base, VariablesTyped, Groups
      <4>5. CASE group'.chains = group.chains
        BY <1>1, <4>1, <4>2, <4>3, <4>5, LinksKept
      <4>6. CASE group'.chains # group.chains
        <5>1. group' = [group EXCEPT !.chains =
                          IF group.chains = <<>> THEN <<NewChain>> ELSE group.chains]
          BY <2>1, <4>4, <4>6 DEF OpenFile, EndFile, GroupInit, Groups
        <5>2. group'.chains = <<NewChain>>
          BY <4>4, <4>6, <5>1 DEF Groups
        <5>3. NewChain.exec_order = <<>> /\ NewChain.connection = <<>>
          BY <1>1, EmptyLists DEF Base
        <5>4. /\ Len(group'.chains) = 1 /\ \A k \in 1 .. 1 : group'.chains[k] = NewChain
              /\ Len(NewChain.exec_order) = 0 /\ Len(NewChain.connection) = 0 /\ 1 .. 0 = {}
          BY <5>2, <5>3
        <5>5. QED
          BY <5>4 DEF LinksFollowed
      <4>7. QED
        BY <4>5, <4>6
    <3>3. QED
      BY <3>1, <3>2 DEF Sound
  <2>2. CASE ModuleOptionsInvalid \/ ModuleLine \/ SendLine \/ ChainLine \/ OrderLine
             \/ ConnectionLine \/ ProcessorLine
    BY <1>1, <1>3, <2>2, ModuleOptionsInvalidKeeps, ModuleLineKeeps, SendLineKeeps,
       ChainLineKeeps, OrderLineKeeps, ConnectionLineKeeps, ProcessorLineKeeps DEF Sound
  <2>3. CASE HostSetsMode
    BY <1>1, <1>3, <2>3, HostSetsModeKeeps DEF Sound
  <2>4. CASE InitStep /\ UNCHANGED <<group, parse>>
    <3>1. UNCHANGED groupVars
      BY <1>3, <2>4 DEF groupVars
    <3>2. QED
      BY <1>1, <2>4, <3>1, InitKeepsBase, InitKeepsLinks DEF Sound
  <2>5. QED
    BY <1>3, <2>1, <2>2, <2>3, <2>4 DEF HostStep
<1>4. CASE Background /\ UNCHANGED <<proc, launch>>
  BY <1>1, <1>4, BackgroundKeeps DEF Sound
<1>5. CASE Restart
  BY <1>1, <1>5, RestartEstablishesBase DEF Sound
<1>6. QED
  BY <1>2, <1>3, <1>4, <1>5 DEF Next, Ended

LEMMA AlwaysSound ==
  Spec => []Sound
<1>1. Init => Sound
  BY InitEstablishesBase DEF Sound
<1>2. Sound /\ [Next]_vars => Sound'
  BY NextKeepsBase
<1>3. QED
  BY <1>1, <1>2, PTL DEF Spec

-----------------------------------------------------------------------------
(* Theorems                                                                *)

(* Types, with the bounds of the loops over the runners and of the module  *)
(* table: a module has never more stacks than runners, a loop ends before  *)
(* it runs past them, and no module is outside the committed part of the   *)
(* reservation (wahe_core.c, wahe_parser.c:43).                            *)
THEOREM TypesAndBounds ==
  Spec => []TypeOK
<1>1. ASSUME Sound
      PROVE  TypeOK
  <2>1. Base
    BY <1>1 DEF Sound
  <2>2. ASSUME NEW m \in DOMAIN ctx
        PROVE  Len(ctx[m].stacks) <= ctx[m].count /\ Len(ctx[m].tls) < ctx[m].count
    BY <2>1, CurrentFields DEF Base, RecordsSound, RecordSound, StacksGiven, TlsGiven
  <2>3. QED
    BY <2>1, <2>2 DEF TypeOK, Base, LoadInStage, FilesFollowed
<1>2. QED
  BY <1>1, AlwaysSound, PTL

-----------------------------------------------------------------------------
(* Addresses of records.                                                   *)

AddressesKept ==
  /\ \A m \in 1 .. Len(ctx) : ctx[m].self = <<group.reserved, m>>
  /\ \A e \in group.cita_index : \E m \in 1 .. Len(ctx) : ctx[m].self = e

LEMMA LinesKeepAddresses ==
  ASSUME Base,
         OpenFile \/ EndFile \/ ModuleOptionsInvalid \/ SendLine \/ ChainLine
         \/ OrderLine \/ ConnectionLine \/ ProcessorLine
  PROVE  /\ ctx' = ctx /\ group'.reserved = group.reserved
         /\ group'.cita_index = group.cita_index
<1>1. group \in Groups
  BY DEF Base, VariablesTyped, Groups
<1>2. group' = group \/ \E chains : group' = [group EXCEPT !.chains = chains]
  BY DEF OpenFile, EndFile, ModuleOptionsInvalid, SendLine, ChainLine, OrderLine,
         ConnectionLine, ProcessorLine, SetChain
<1>3. ctx' = ctx
  BY DEF OpenFile, EndFile, ModuleOptionsInvalid, SendLine, ChainLine, OrderLine,
         ConnectionLine, ProcessorLine, initVars
<1>4. QED
  BY <1>1, <1>2, <1>3 DEF Groups

LEMMA ModuleLineKeepsAddresses ==
  ASSUME Base, AddressesKept, ModuleLine
  PROVE  AddressesKept'
<1> DEFINE needed == Len(parse.symb_module) + 1
<1>1. /\ Parsing("module") /\ group \in Groups
      /\ Len(parse.symb_module) = Len(ctx) /\ Len(ctx) \in Nat
  BY LineFields DEF ModuleLine
<1>2. CASE UNCHANGED <<translationVars, initVars, group>>
  BY <1>2 DEF AddressesKept, initVars
<1>3. CASE /\ needed <= ReserveCount
           /\ group' = WithSlots(needed)
           /\ Begin(line.path, line.runners, line.backend, line.name,
                    <<group'.reserved, needed>>)
  <2>1. /\ group'.cita_index = group.cita_index /\ group'.reserved \in Nat
        /\ group.reserved # 0 => group'.reserved = group.reserved
    <3>1. needed \in Nat /\ needed > 0
      BY <1>1
    <3> HIDE DEF needed
    <3>2. /\ group'.cita_index = group.cita_index /\ group' \in Groups
          /\ group.reserved # 0 => group'.reserved = group.reserved
      BY <1>1, <1>3, <3>1, SlotsGiven
    <3>3. QED
      BY <3>2 DEF Groups
  <2> DEFINE r == Fresh(line.path, line.runners, line.backend,
                        <<group'.reserved, Len(ctx) + 1>>)
  <2>2. /\ r.self = <<group'.reserved, Len(ctx) + 1>> /\ Len(ctx') = Len(ctx) + 1
        /\ ctx'[Len(ctx) + 1] = r
        /\ \A m \in 1 .. Len(ctx) : ctx'[m] = ctx[m]
    BY <1>1, <1>3, <2>1, ModuleBegins
  <2> HIDE DEF r
  <2>3. \A m \in 1 .. Len(ctx) + 1 : m \in 1 .. Len(ctx) \/ m = Len(ctx) + 1
    BY <1>1
  <2>4. \A m \in 1 .. Len(ctx) : ctx[m].self = <<group'.reserved, m>>
    <3>1. group.reserved = 0 => 1 .. Len(ctx) = {}
      BY <1>1 DEF Base, FilesFollowed
    <3>2. QED
      BY <2>1, <3>1 DEF AddressesKept
  <2>5. \A m \in 1 .. Len(ctx) + 1 : ctx'[m].self = <<group'.reserved, m>>
    BY <2>2, <2>3, <2>4
  <2>6. \A m \in 1 .. Len(ctx) : m \in 1 .. Len(ctx) + 1
    BY <1>1
  <2>7. QED
    BY <2>1, <2>2, <2>5, <2>6 DEF AddressesKept
<1>4. QED
  BY <1>2, <1>3 DEF ModuleLine

LEMMA InitKeepsAddresses ==
  ASSUME Base, AddressesKept, InitStep, group' = group
  PROVE  AddressesKept'
<1>1. /\ Len(ctx') = Len(ctx) /\ Len(ctx) \in Nat \ {0}
      /\ \A m \in 1 .. Len(ctx) - 1 : ctx'[m] = ctx[m]
  BY OthersSpared
<1>2. \E r \in ModuleRecord : SetCtx(r) /\ r.self = cur.self
  <2>1. CASE RegisterModule
    <3>1. cur \in ModuleRecord /\ load.name \in Symbols
      BY InitLoads, Loading DEF Loads
    <3>2. /\ [cur EXCEPT !.name = load.name] \in ModuleRecord
          /\ [cur EXCEPT !.name = load.name].self = cur.self
      BY <3>1 DEF ModuleRecord
    <3>3. QED
      BY <2>1, <3>2 DEF RegisterModule
  <2>2. CASE \E r, ld : Moves(r, ld)
    BY <2>2 DEF Moves, SameModule
  <2>3. QED
    BY <2>1, <2>2, InitMoves
<1>3. ctx'[Len(ctx)].self = ctx[Len(ctx)].self
  <2>1. cur'.self = cur.self
    BY <1>2, InitLoads, Loading, CurrentSet DEF Base
  <2>2. QED
    BY <1>1, <2>1 DEF cur
<1>4. \A m \in 1 .. Len(ctx) : m = Len(ctx) \/ m \in 1 .. Len(ctx) - 1
  BY <1>1
<1>5. \A m \in 1 .. Len(ctx) : ctx'[m].self = ctx[m].self
  BY <1>1, <1>3, <1>4
<1>6. QED
  BY <1>1, <1>5 DEF AddressesKept

LEMMA NextKeepsAddresses ==
  ASSUME Sound, AddressesKept, [Next]_vars
  PROVE  AddressesKept'
<1>1. Base
  BY DEF Sound
<1>2. CASE UNCHANGED <<ctx, group>>
  BY <1>2 DEF AddressesKept
<1>3. CASE HostStep
  <2>1. CASE OpenFile \/ EndFile \/ ModuleOptionsInvalid \/ SendLine \/ ChainLine
             \/ OrderLine \/ ConnectionLine \/ ProcessorLine
    BY <1>1, <2>1, LinesKeepAddresses DEF AddressesKept
  <2>2. CASE GroupInit
    <3> DEFINE index == {ctx[m].self : m \in {k \in DOMAIN ctx : ctx[k].type # "native"}}
    <3>1. ctx' = ctx /\ group' = [group EXCEPT !.cita_index = index]
      BY <2>2 DEF GroupInit, initVars
    <3>2. group \in Groups /\ DOMAIN ctx = 1 .. Len(ctx)
      BY <1>1, CurrentFields DEF Base, VariablesTyped, Groups
    <3>3. \A e \in index : \E m \in 1 .. Len(ctx) : ctx[m].self = e
      BY <3>2
    <3> HIDE DEF index
    <3>4. group'.cita_index = index /\ group'.reserved = group.reserved
      BY <3>1, <3>2 DEF Groups
    <3>5. QED
      BY <3>1, <3>3, <3>4 DEF AddressesKept
  <2>3. CASE ModuleLine
    BY <1>1, <2>3, ModuleLineKeepsAddresses
  <2>4. CASE HostSetsMode
    BY <1>2, <2>4 DEF HostSetsMode, initVars
  <2>5. CASE InitStep /\ UNCHANGED <<group, parse>>
    BY <1>1, <2>5, InitKeepsAddresses
  <2>6. QED
    BY <1>3, <2>1, <2>2, <2>3, <2>4, <2>5 DEF HostStep
<1>4. CASE Restart
  <2>1. ctx' = <<>> /\ group' = NoGroup
    BY <1>4 DEF Restart
  <2>2. NoGroup.cita_index = {} /\ 1 .. Len(<<>>) = {}
    BY DEF NoGroup
  <2>3. QED
    BY <2>1, <2>2 DEF AddressesKept
<1>5. CASE Background \/ UNCHANGED vars
  BY <1>2, <1>5 DEF Background, vars, initVars, groupVars
<1>6. QED
  BY <1>3, <1>4, <1>5 DEF Next, Ended

LEMMA AlwaysAddresses ==
  Spec => []AddressesKept
<1>1. Init => AddressesKept
  <2>1. ASSUME Init
        PROVE  AddressesKept
    <3>1. ctx = <<>> /\ group.cita_index = {} /\ 1 .. Len(<<>>) = {}
      BY <2>1 DEF Init, NoGroup
    <3>2. QED
      BY <3>1 DEF AddressesKept
  <2>2. QED
    BY <2>1
<1>2. Sound /\ AddressesKept /\ [Next]_vars => AddressesKept'
  BY NextKeepsAddresses
<1>3. QED
  BY <1>1, <1>2, AlwaysSound, PTL DEF Spec

(* However many files extend a group, and whatever is reported about them, *)
(* positions and addresses go on meaning the modules they meant; in files  *)
(* without errors every order, command processor and connection means what *)
(* its line names and an order's runner exists (wahe_parser.c:265-468).    *)
THEOREM ReferencesStayValid ==
  Spec => []ReferencesHold
<1>1. ASSUME Sound, AddressesKept
      PROVE  ReferencesHold
  <2>1. Base /\ LinksFollowed
    BY <1>1 DEF Sound
  <2>2. /\ DOMAIN ctx = 1 .. Len(ctx) /\ Len(ctx) \in Nat
        /\ \A m \in 1 .. Len(ctx) : ctx[m] \in ModuleRecord
    BY <2>1, CurrentFields DEF Base
  <2>3. /\ \A m \in DOMAIN ctx : ctx[m].self = <<group.reserved, m>>
        /\ \A e \in group.cita_index : \E m \in DOMAIN ctx : ctx[m].self = e
    BY <1>1, <2>2 DEF AddressesKept
  <2>4. \A id, name : ModuleNamed(id, name) =>
          /\ id \in DOMAIN ctx /\ ctx[id].name = name
          /\ Len(ctx[id].stacks) = ctx[id].count \/ ctx[id].type = "native"
    BY <2>1, <2>2 DEF Base, LoadInStage, ModuleNamed, Ready, AllStacks
  <2>5. group \in Groups
    BY <2>1 DEF Base, VariablesTyped, Groups
  <2>6. ASSUME ~parse.errors, NEW c \in DOMAIN group.chains
        PROVE  LET ch == group.chains[c] IN
               /\ \A o \in DOMAIN ch.exec_order : LET order == ch.exec_order[o] IN
                    /\ order.type = "module_func" =>
                         /\ order.module_id \in DOMAIN ctx
                         /\ ctx[order.module_id].name = order.said.module
                         /\ order.runner_id < Len(ctx[order.module_id].stacks)
                            \/ ctx[order.module_id].type = "native"
                    /\ \A k \in DOMAIN order.processors :
                         /\ order.processors[k].id \in DOMAIN ctx
                         /\ ctx[order.processors[k].id].name = order.processors[k].said
               /\ \A k \in DOMAIN ch.connection :
                    {ch.connection[k][1], ch.connection[k][2]} \subseteq DOMAIN ch.exec_order
    <3> DEFINE ch == group.chains[c]
    <3>1. /\ ch \in Chains /\ c \in 1 .. Len(group.chains)
      <4>1. group.chains \in Seq(Chains)
        BY <2>5 DEF Groups
      <4>2. QED
        BY <2>6, <4>1, ListFields
    <3>2. ChainLinked(ch)
      BY <2>1, <2>6, <3>1 DEF LinksFollowed, ChainLinked, OrderLinked
    <3> HIDE DEF ch
    <3>3. /\ DOMAIN ch.exec_order = 1 .. Len(ch.exec_order)
          /\ DOMAIN ch.connection = 1 .. Len(ch.connection)
          /\ \A o \in 1 .. Len(ch.exec_order) : ch.exec_order[o] \in ExecOrder
      BY <3>1, ChainFields, ListFields
    <3>4. ASSUME NEW o \in DOMAIN ch.exec_order
          PROVE  LET order == ch.exec_order[o] IN
                 /\ order.type = "module_func" =>
                      /\ order.module_id \in DOMAIN ctx
                      /\ ctx[order.module_id].name = order.said.module
                      /\ order.runner_id < Len(ctx[order.module_id].stacks)
                         \/ ctx[order.module_id].type = "native"
                 /\ \A k \in DOMAIN order.processors :
                      /\ order.processors[k].id \in DOMAIN ctx
                      /\ ctx[order.processors[k].id].name = order.processors[k].said
      <4> DEFINE order == ch.exec_order[o]
      <4>1. OrderLinked(order) /\ order \in ExecOrder
        BY <3>2, <3>3 DEF ChainLinked
      <4> HIDE DEF order
      <4>2. DOMAIN order.processors = 1 .. Len(order.processors)
        <5>1. order.processors \in Seq([id : Nat, said : Names])
          BY <4>1 DEF ExecOrder
        <5>2. QED
          BY <5>1, ListFields
      <4>3. order.type = "module_func" =>
              /\ order.module_id \in DOMAIN ctx
              /\ ctx[order.module_id].name = order.said.module
              /\ order.runner_id < Len(ctx[order.module_id].stacks)
                 \/ ctx[order.module_id].type = "native"
        BY <2>4, <4>1 DEF OrderLinked
      <4>4. \A k \in DOMAIN order.processors :
              /\ order.processors[k].id \in DOMAIN ctx
              /\ ctx[order.processors[k].id].name = order.processors[k].said
        BY <2>4, <4>1, <4>2 DEF OrderLinked
      <4>5. QED
        BY <4>3, <4>4 DEF order
    <3>5. \A k \in DOMAIN ch.connection :
            {ch.connection[k][1], ch.connection[k][2]} \subseteq DOMAIN ch.exec_order
      BY <3>2, <3>3 DEF ChainLinked
    <3>6. QED
      BY <3>4, <3>5 DEF ch
  <2>7. QED
    BY <2>3, <2>6 DEF ReferencesHold
<1>2. QED
  BY <1>1, AlwaysSound, AlwaysAddresses, PTL

-----------------------------------------------------------------------------
(* Where the stacks of a module are.                                       *)

LEMMA SixteenTimes ==
  ASSUME NEW n \in Nat
  PROVE  /\ n % 16 = 0 => \E q \in Nat : n = 16 * q
         /\ (16 * n) % 16 = 0
<1>1. n = 16 * (n \div 16) + (n % 16) /\ n \div 16 \in Nat
  BY SMTT(30)
<1>2. (16 * n) % 16 = 0
  BY SMTT(30)
<1>3. QED
  BY <1>1, <1>2

(* The stacks WAMR gives are above the memory of the module, aligned, and  *)
(* one above the other.                                                    *)
LEMMA AuxStacksPlaced ==
  ASSUME NEW im, im.memory_size \in Nat, im.stack_bottom \in Nat, im.stack_top \in Nat,
         im.stack_bottom < im.stack_top, im.memory_size % 16 = 0,
         im.stack_bottom % 16 = 0, im.stack_top % 16 = 0, NEW k \in Nat \ {0}
  PROVE  LET st == AuxStackOf(im, k) IN
         /\ im.memory_size + 16 <= st.lo /\ st.lo < st.hi /\ st.hi % 16 = 0
         /\ st.lo \in Nat /\ st.hi \in Nat
         /\ st.hi - st.lo = im.stack_top - im.stack_bottom
         /\ \A l \in Nat : k < l => st.hi <= AuxStackOf(im, l).lo
<1> DEFINE size == im.stack_top - im.stack_bottom
           s == size + 16
           memory == im.memory_size
<1>1. size \in Nat /\ size > 0 /\ s \in Nat /\ memory \in Nat /\ s > size
  OBVIOUS
<1>2. \A l \in Nat : AuxStackOf(im, l) = Region(memory + l * s - size, memory + l * s)
  BY DEF AuxStackOf
<1>3. PICK m \in Nat : memory = 16 * m
  BY SixteenTimes
<1>4. PICK y \in Nat : s = 16 * y
  <2>1. PICK b \in Nat : im.stack_bottom = 16 * b
    BY SixteenTimes
  <2>2. PICK t \in Nat : im.stack_top = 16 * t
    BY SixteenTimes
  <2>3. s = 16 * (t - b + 1) /\ t - b + 1 \in Nat
    BY <2>1, <2>2
  <2>4. QED
    BY <2>3
<1>4a. s = size + 16
  OBVIOUS
<1> HIDE DEF size, s, memory
<1>5. \A l \in Nat : l * s = s * l /\ s * l \in Nat
  BY <1>1
<1>6. s <= s * k
  <2>1. s * 1 <= s * k
    BY <1>1, Monotone
  <2>2. QED
    BY <1>1, <2>1
<1>7. ASSUME NEW l \in Nat, k < l
      PROVE  s * k + s <= s * l
  <2>1. s * (k + 1) <= s * l
    BY <1>1, <1>7, Monotone
  <2>2. s * (k + 1) = s * k + s
    BY <1>1, SMTT(30)
  <2>3. QED
    BY <2>1, <2>2
<1>8. (memory + s * k) % 16 = 0
  <2>1. s * k = 16 * (y * k) /\ y * k \in Nat
    BY <1>4, SMTT(30)
  <2> DEFINE z == y * k
  <2>2. s * k = 16 * z /\ z \in Nat
    BY <2>1
  <2> HIDE DEF z
  <2>3. memory + s * k = 16 * (m + z) /\ m + z \in Nat
    BY <1>3, <2>2
  <2>4. QED
    BY <2>3, SixteenTimes
<1> DEFINE a == s * k
<1>9. a \in Nat /\ s <= a /\ (memory + a) % 16 = 0
  BY <1>5, <1>6, <1>8
<1>10. \A l \in Nat : k < l => a + s <= s * l
  BY <1>7
<1>11. AuxStackOf(im, k) = Region(memory + a - size, memory + a)
  BY <1>2, <1>5
<1> HIDE DEF a
<1>12. /\ memory + 16 <= memory + a - size /\ memory + a - size < memory + a
       /\ memory + a - size \in Nat /\ memory + a \in Nat
       /\ memory + a - (memory + a - size) = size
  BY <1>1, <1>4a, <1>9
<1>13. ASSUME NEW l \in Nat, k < l
       PROVE  memory + a <= AuxStackOf(im, l).lo
  <2>1. PICK b \in Nat : b = s * l
    BY <1>5
  <2>2. AuxStackOf(im, l) = Region(memory + b - size, memory + b)
    BY <1>2, <1>5, <2>1
  <2>3. a + s <= b
    BY <1>10, <1>13, <2>1
  <2>4. memory + a <= memory + b - size
    BY <1>1, <1>9, <2>3
  <2>5. QED
    BY <2>2, <2>4 DEF Region
<1>14. QED
  BY <1>9, <1>11, <1>12, <1>13 DEF Region, memory, size

(* A stack that may be divided is below the data.                          *)
LEMMA DividedBelowData ==
  ASSUME NEW path \in DOMAIN Image, NEW n \in Nat \ {0},
         Divisible(Image[path].stack_top, DataEndOf(Image[path]), n)
  PROVE  LET im == Image[path] IN
         im.stack_bottom = 0 /\ im.stack_top <= im.data.lo /\ DataEndOf(im) = im.data.hi
<1> DEFINE im == Image[path]
<1>1. /\ im.stack_bottom \in Nat /\ im.stack_top \in Nat /\ im.data.hi \in Nat
      /\ LaidOut(im)
  BY ImageFields
<1> HIDE DEF im
<1>2. /\ DataEndOf(im) >= im.stack_top /\ im.stack_bottom < im.stack_top
  BY <1>1 DEF Divisible, LaidOut, im
<1>3. DataEndOf(im) = im.data.hi
  BY <1>1, <1>2 DEF DataEndOf
<1>4. im.data.hi # im.stack_bottom
  BY <1>1, <1>2, <1>3
<1>5. QED
  BY <1>1, <1>3, <1>4 DEF LaidOut, im

(* The stacks of a module, whatever runs it.                               *)
LEMMA StacksApart ==
  ASSUME NEW c \in ModuleRecord, NEW im, im = Image[c.image], StacksGiven(c, im),
         NEW i \in 1 .. Len(c.stacks)
  PROVE  LET st == c.stacks[i] IN
         /\ st.lo \in Nat /\ st.hi \in Nat
         /\ st.lo < st.hi /\ st.hi % 16 = 0
         /\ Apart(st, im.data)
         /\ \/ Inside(st, LinkedStackOf(im)) /\ st.hi <= im.heap_base
            \/ /\ c.type = "wamr" /\ i # 1 /\ im.memory_size <= st.lo
               /\ st.hi - st.lo = im.stack_top - im.stack_bottom
         /\ \A j \in 1 .. Len(c.stacks) : i < j => Apart(st, c.stacks[j])
<1>1. /\ c.image \in DOMAIN Image /\ c.count \in Nat \ {0}
      /\ c.stacks \in Seq(Regions) /\ Len(c.stacks) \in Nat
  BY RecordFields, ListFields
<1>2. /\ im.stack_bottom \in Nat /\ im.stack_top \in Nat /\ im.heap_base \in Nat
      /\ im.memory_size \in Nat /\ im.data.lo \in Nat /\ im.data.hi \in Nat
      /\ LaidOut(im)
  BY <1>1, ImageFields
<1>3. /\ Len(c.stacks) <= c.count
      /\ \A k \in 1 .. Len(c.stacks) : c.stacks[k] = StackAt(c, im, k)
      /\ c.count > 1 => IF c.type = "wamr" THEN ReadMemoryInfo(im.binary).shared
                        ELSE Divisible(im.stack_top, DataEndOf(im), c.count)
  <2>1. Len(c.stacks) > 0
    BY <1>1
  <2>2. QED
    BY <2>1 DEF StacksGiven
<1> DEFINE linked == LinkedStackOf(im)
<1>4. /\ linked.lo = im.stack_bottom /\ linked.hi = im.stack_top
  BY DEF LinkedStackOf, Region
<1>5. /\ linked.lo \in Nat /\ linked.hi \in Nat /\ linked.lo < linked.hi
      /\ linked.hi % 16 = 0 /\ Apart(linked, im.data) /\ linked.hi <= im.heap_base
      /\ Inside(linked, LinkedStackOf(im))
  BY <1>2, <1>4 DEF LaidOut, Apart, Inside
<1>6. CASE c.count = 1
  <2>1. c.stacks[i] = linked
    BY <1>3, <1>6 DEF StackAt
  <2>2. \A j \in 1 .. Len(c.stacks) : ~(i < j)
    BY <1>1, <1>3, <1>6
  <2> HIDE DEF linked
  <2>3. QED
    BY <1>5, <2>1, <2>2
<1>7. CASE c.count # 1 /\ c.type # "wamr"
  <2>1. Divisible(im.stack_top, DataEndOf(im), c.count)
    BY <1>1, <1>3, <1>7
  <2>2. /\ im.stack_bottom = 0 /\ im.stack_top <= im.data.lo
        /\ DataEndOf(im) = im.data.hi
    BY <1>1, <2>1, DividedBelowData
  <2>3. \A k \in 1 .. Len(c.stacks) :
          k - 1 \in 0 .. c.count - 1 /\ c.stacks[k] = Slice(im.stack_top, c.count, k - 1)
    BY <1>1, <1>3, <1>7 DEF StackAt
  <2> DEFINE st == Slice(im.stack_top, c.count, i - 1)
  <2>4. DataEndOf(im) \in Nat
    BY <1>2, <2>2
  <2>4a. i - 1 \in 0 .. c.count - 1
    BY <2>3
  <2>5. /\ Inside(st, Region(0, im.stack_top)) /\ st.lo + 16 <= st.hi /\ st.hi % 16 = 0
    <3> DEFINE base == im.stack_top
               end  == DataEndOf(im)
               n    == c.count
               k    == i - 1
    <3>1. /\ base \in Nat /\ end \in Nat /\ n \in Nat \ {0} /\ k \in 0 .. n - 1
          /\ Divisible(base, end, n) /\ st = Slice(base, n, k)
      BY <1>1, <1>2, <2>1, <2>4, <2>4a
    <3> HIDE DEF st, n, k, end
    <3>2. /\ Inside(Slice(base, n, k), Region(0, base))
          /\ Slice(base, n, k).lo + 16 <= Slice(base, n, k).hi
          /\ Slice(base, n, k).hi % 16 = 0
      BY <3>1, SlicesUsable
    <3>3. QED
      BY <3>1, <3>2
  <2>6. st.lo \in Nat /\ st.hi \in Nat
    <3>1. SliceSize(im.stack_top, c.count) * (i - 1) \in Nat
          /\ SliceSize(im.stack_top, c.count) * (i - 1 + 1)
               = SliceSize(im.stack_top, c.count) * (i - 1) + SliceSize(im.stack_top, c.count)
          /\ st = Region(SliceSize(im.stack_top, c.count) * (i - 1),
                         SliceSize(im.stack_top, c.count) * (i - 1 + 1))
      <4> DEFINE base == im.stack_top
                 end  == DataEndOf(im)
                 n    == c.count
                 k    == i - 1
      <4>1. /\ base \in Nat /\ end \in Nat /\ n \in Nat \ {0} /\ k \in 0 .. n - 1
            /\ Divisible(base, end, n) /\ st = Slice(base, n, k)
        BY <1>1, <1>2, <2>1, <2>4, <2>4a
      <4> HIDE DEF st, n, k, end
      <4>2. /\ SliceSize(base, n) * k \in Nat
            /\ SliceSize(base, n) * (k + 1) = SliceSize(base, n) * k + SliceSize(base, n)
            /\ Slice(base, n, k) = Region(SliceSize(base, n) * k,
                                          SliceSize(base, n) * (k + 1))
        BY <4>1, SliceBounds
      <4>3. QED
        BY <4>1, <4>2 DEF n, k
    <3>2. SliceSize(im.stack_top, c.count) \in Nat
      BY <1>1, <1>2, <2>1, <2>4, SlicesFill
    <3> DEFINE a == SliceSize(im.stack_top, c.count) * (i - 1)
               b == SliceSize(im.stack_top, c.count) * (i - 1 + 1)
    <3>3. a \in Nat /\ b \in Nat
      BY <3>1, <3>2
    <3>4. st = Region(a, b)
      BY <3>1
    <3> HIDE DEF a, b, st
    <3>5. QED
      BY <3>3, <3>4 DEF Region
  <2>7. ASSUME NEW j \in 1 .. Len(c.stacks), i < j
        PROVE  Apart(st, Slice(im.stack_top, c.count, j - 1))
    <3>1. i - 1 \in 0 .. c.count - 1 /\ j - 1 \in 0 .. c.count - 1 /\ i - 1 # j - 1
      BY <1>1, <2>3, <2>7
    <3>2. QED
      BY <1>1, <1>2, <2>1, <2>4, <3>1, SlicesApart
  <2>8. c.stacks[i] = st
    BY <2>3
  <2> HIDE DEF st
  <2>9. st.lo >= 0 /\ st.hi <= im.stack_top
    BY <2>5 DEF Inside, Region
  <2>10. /\ Apart(st, im.data) /\ Inside(st, linked) /\ st.hi <= im.heap_base
         /\ st.lo < st.hi
    BY <1>2, <1>4, <1>5, <2>2, <2>5, <2>6, <2>9 DEF Apart, Inside
  <2>11. \A j \in 1 .. Len(c.stacks) : i < j => Apart(st, c.stacks[j])
    BY <2>3, <2>7
  <2>12. QED
    BY <2>5, <2>6, <2>8, <2>10, <2>11
<1>8. CASE c.count # 1 /\ c.type = "wamr"
  <2>1. /\ im.heap_base <= im.memory_size /\ im.memory_size % 16 = 0
        /\ im.stack_bottom < im.stack_top
        /\ im.stack_bottom % 16 = 0 /\ im.stack_top % 16 = 0
        /\ im.data.hi <= im.heap_base /\ im.data.lo <= im.data.hi
    BY <1>1, <1>2, <1>3, <1>8 DEF LaidOut
  <2>2. \A k \in Nat \ {0} :
          LET st == AuxStackOf(im, k) IN
            /\ im.memory_size + 16 <= st.lo /\ st.lo < st.hi /\ st.hi % 16 = 0
            /\ st.lo \in Nat /\ st.hi \in Nat
            /\ st.hi - st.lo = im.stack_top - im.stack_bottom
            /\ \A l \in Nat : k < l => st.hi <= AuxStackOf(im, l).lo
    BY <1>2, <2>1, AuxStacksPlaced
  <2>3. \A k \in 1 .. Len(c.stacks) :
          c.stacks[k] = IF k = 1 THEN linked ELSE AuxStackOf(im, k - 1)
    BY <1>3, <1>8 DEF StackAt
  <2>4. \A k \in 1 .. Len(c.stacks) : k # 1 => k - 1 \in Nat \ {0}
    OBVIOUS
  <2> HIDE DEF linked
  <2>5. CASE i = 1
    <3>1. c.stacks[i] = linked
      BY <2>3, <2>5
    <3>2. ASSUME NEW j \in 1 .. Len(c.stacks), i < j
          PROVE  Apart(linked, c.stacks[j])
      <4>1. c.stacks[j] = AuxStackOf(im, j - 1) /\ j - 1 \in Nat \ {0}
        BY <2>3, <2>4, <2>5, <3>2
      <4>2. im.memory_size + 16 <= c.stacks[j].lo /\ c.stacks[j].lo \in Nat
        BY <2>2, <4>1
      <4>3. linked.hi <= c.stacks[j].lo
        <5> DEFINE lo == c.stacks[j].lo
                   hi == linked.hi
                   base == im.heap_base
                   memory == im.memory_size
        <5>1. /\ hi \in Nat /\ hi <= base /\ base \in Nat /\ base <= memory
              /\ memory \in Nat /\ memory + 16 <= lo /\ lo \in Nat
          BY <1>2, <1>5, <2>1, <4>2
        <5> HIDE DEF lo, hi, base, memory
        <5>2. hi <= lo
          BY <5>1
        <5>3. QED
          BY <5>2 DEF lo, hi
      <4>4. QED
        BY <4>3 DEF Apart
    <3>3. QED
      BY <1>5, <3>1, <3>2
  <2>6. CASE i # 1
    <3> DEFINE st == c.stacks[i]
    <3>1. st = AuxStackOf(im, i - 1) /\ i - 1 \in Nat \ {0}
      BY <2>3, <2>4, <2>6
    <3>2. /\ im.memory_size + 16 <= st.lo /\ st.lo < st.hi /\ st.hi % 16 = 0
          /\ st.lo \in Nat /\ st.hi \in Nat
          /\ st.hi - st.lo = im.stack_top - im.stack_bottom
          /\ \A l \in Nat : i - 1 < l => st.hi <= AuxStackOf(im, l).lo
      BY <2>2, <3>1
    <3>3. ASSUME NEW j \in 1 .. Len(c.stacks), i < j
          PROVE  st.hi <= c.stacks[j].lo
      <4>1. j - 1 \in Nat /\ i - 1 < j - 1 /\ j # 1
        BY <2>6, <3>3
      <4>2. c.stacks[j] = AuxStackOf(im, j - 1)
        BY <2>3, <4>1
      <4>3. QED
        BY <3>2, <4>1, <4>2
    <3> HIDE DEF st
    <3>4. im.memory_size <= st.lo /\ im.data.hi <= st.lo
      <4> DEFINE lo     == st.lo
                 end    == im.data.hi
                 heap   == im.heap_base
                 memory == im.memory_size
      <4>1. /\ lo \in Nat /\ end \in Nat /\ heap \in Nat /\ memory \in Nat
            /\ memory + 16 <= lo
        BY <1>2, <3>2
      <4>2. end <= heap /\ heap <= memory
        BY <1>2, <2>1 DEF LaidOut
      <4> HIDE DEF lo, end, heap, memory
      <4>3. memory <= lo /\ end <= lo
        BY <4>1, <4>2
      <4>4. QED
        BY <4>3 DEF lo, end, memory
    <3>4a. Apart(st, im.data)
      BY <3>4 DEF Apart
    <3>5. \A j \in 1 .. Len(c.stacks) : i < j => Apart(st, c.stacks[j])
      BY <3>3 DEF Apart
    <3>6. QED
      BY <1>8, <2>6, <3>2, <3>4, <3>4a, <3>5 DEF st
  <2>7. QED
    BY <2>5, <2>6
<1>9. QED
  BY <1>6, <1>7, <1>8

(* Whichever backend runs a module, its runners' stacks and TLS blocks are *)
(* apart from each other and from the static data, aligned and inside what *)
(* was linked or allocated for them, for every number of runners and every *)
(* layout a linker produces (wahe_core.c:1560-1640, wahe_wamr.c:335).      *)
THEOREM StacksStayDisjoint ==
  Spec => []StacksDisjoint
<1>1. ASSUME Sound
      PROVE  StacksDisjoint
  <2> SUFFICES ASSUME NEW m \in DOMAIN ctx
               PROVE  LET c == ctx[m]
                          im == Image[c.image]
                          stack == c.stacks
                      IN  /\ \A i, j \in DOMAIN stack : i # j => Apart(stack[i], stack[j])
                          /\ \A i \in DOMAIN stack :
                               /\ Apart(stack[i], im.data)
                               /\ stack[i].lo < stack[i].hi /\ stack[i].hi % 16 = 0
                               /\ c.type # "wamr" \/ i = 1 =>
                                    Inside(stack[i], Region(im.stack_bottom, im.stack_top))
                               /\ \A k \in DOMAIN c.tls : Apart(stack[i], c.tls[k])
                          /\ \A k, l \in DOMAIN c.tls :
                               k # l => Apart(c.tls[k], c.tls[l])
                          /\ \A k \in DOMAIN c.tls :
                               Inside(c.tls[k], Region(im.heap_base, c.heap))
    BY DEF StacksDisjoint
  <2> DEFINE c == ctx[m]
             im == Image[c.image]
  <2>1. c \in ModuleRecord /\ RecordSound(c, im)
    BY <1>1, CurrentFields DEF Sound, Base, RecordsSound
  <2> HIDE DEF c
  <2>2. /\ c.stacks \in Seq(Regions) /\ c.tls \in Seq(Regions) /\ c.heap \in Nat
        /\ c.image \in DOMAIN Image
    BY <2>1, RecordFields
  <2>3. /\ DOMAIN c.stacks = 1 .. Len(c.stacks) /\ Len(c.stacks) \in Nat
        /\ DOMAIN c.tls = 1 .. Len(c.tls) /\ Len(c.tls) \in Nat
    BY <2>2, ListFields
  <2>4. \A k \in 1 .. Len(c.tls) : c.tls[k].lo \in Nat /\ c.tls[k].hi \in Nat
    <3>1. \A k \in 1 .. Len(c.tls) : c.tls[k] \in Regions
      BY <2>2, ListFields
    <3>2. QED
      BY <3>1 DEF Regions
  <2>5. im.heap_base \in Nat /\ im.memory_size \in Nat
    BY <2>2, ImageFields
  <2>6. \A k \in 1 .. Len(c.tls) :
          /\ im.heap_base <= c.tls[k].lo
          /\ c.tls[k].hi <= c.heap /\ c.tls[k].hi <= im.memory_size
    BY <2>1 DEF RecordSound, TlsGiven
  <2>7. \A k, l \in 1 .. Len(c.tls) : k < l => c.tls[k].hi <= c.tls[l].lo
    BY <2>1 DEF RecordSound, TlsGiven
  <2>8. ASSUME NEW i \in 1 .. Len(c.stacks)
        PROVE  LET st == c.stacks[i] IN
               /\ st.lo \in Nat /\ st.hi \in Nat
               /\ st.lo < st.hi /\ st.hi % 16 = 0
               /\ Apart(st, im.data)
               /\ \/ Inside(st, LinkedStackOf(im)) /\ st.hi <= im.heap_base
                  \/ /\ c.type = "wamr" /\ i # 1 /\ im.memory_size <= st.lo
                     /\ st.hi - st.lo = im.stack_top - im.stack_bottom
               /\ \A j \in 1 .. Len(c.stacks) : i < j => Apart(st, c.stacks[j])
    BY <2>1, StacksApart DEF RecordSound
  <2> HIDE DEF im
  <2>9. ASSUME NEW i \in 1 .. Len(c.stacks), NEW j \in 1 .. Len(c.stacks), i # j
        PROVE  Apart(c.stacks[i], c.stacks[j])
    <3>1. i < j \/ j < i
      BY <2>9
    <3>2. QED
      BY <2>8, <3>1 DEF Apart
  <2>10. ASSUME NEW i \in 1 .. Len(c.stacks), NEW k \in 1 .. Len(c.tls)
         PROVE  Apart(c.stacks[i], c.tls[k])
    <3> DEFINE st == c.stacks[i]
               b == c.tls[k]
    <3>1. /\ st.lo \in Nat /\ st.hi \in Nat
          /\ st.hi <= im.heap_base \/ im.memory_size <= st.lo
      BY <2>8
    <3>2. b.lo \in Nat /\ b.hi \in Nat /\ im.heap_base <= b.lo /\ b.hi <= im.memory_size
      BY <2>4, <2>6
    <3> HIDE DEF st, b
    <3>3. Apart(st, b)
      BY <2>5, <3>1, <3>2 DEF Apart
    <3>4. QED
      BY <3>3 DEF st, b
  <2>11. ASSUME NEW k \in 1 .. Len(c.tls), NEW l \in 1 .. Len(c.tls), k # l
         PROVE  Apart(c.tls[k], c.tls[l])
    <3>1. k < l \/ l < k
      BY <2>11
    <3>2. QED
      BY <2>7, <3>1 DEF Apart
  <2>12. \A k \in 1 .. Len(c.tls) : Inside(c.tls[k], Region(im.heap_base, c.heap))
    BY <2>6 DEF Inside, Region
  <2>13. \A i \in 1 .. Len(c.stacks) :
           c.type # "wamr" \/ i = 1 =>
             Inside(c.stacks[i], Region(im.stack_bottom, im.stack_top))
    BY <2>8 DEF LinkedStackOf
  <2>14. /\ \A i, j \in DOMAIN c.stacks : i # j => Apart(c.stacks[i], c.stacks[j])
         /\ \A i \in DOMAIN c.stacks :
              /\ Apart(c.stacks[i], im.data)
              /\ c.stacks[i].lo < c.stacks[i].hi /\ c.stacks[i].hi % 16 = 0
              /\ c.type # "wamr" \/ i = 1 =>
                   Inside(c.stacks[i], Region(im.stack_bottom, im.stack_top))
              /\ \A k \in DOMAIN c.tls : Apart(c.stacks[i], c.tls[k])
         /\ \A k, l \in DOMAIN c.tls : k # l => Apart(c.tls[k], c.tls[l])
         /\ \A k \in DOMAIN c.tls : Inside(c.tls[k], Region(im.heap_base, c.heap))
    BY <2>3, <2>8, <2>9, <2>10, <2>11, <2>12, <2>13
  <2>15. QED
    BY <2>14 DEF c, im
<1>2. QED
  BY <1>1, AlwaysSound, PTL

-----------------------------------------------------------------------------
(* The objects that are held.                                              *)

LEMMA ObjectsDiffer ==
  \A k1, i1, k2, i2 : R(k1, i1) = R(k2, i2) <=> k1 = k2 /\ i1 = i2
<1>1. ASSUME NEW k1, NEW i1, NEW k2, NEW i2, R(k1, i1) = R(k2, i2)
      PROVE  k1 = k2 /\ i1 = i2
  <2>1. /\ R(k1, i1).kind = k1 /\ R(k1, i1).i = i1
        /\ R(k2, i2).kind = k2 /\ R(k2, i2).i = i2
    BY DEF R
  <2>2. QED
    BY <1>1, <2>1, Zenon
<1>2. QED
  BY <1>1

LEMMA IndexedObjects ==
  ASSUME NEW kind, NEW n \in Nat
  PROVE  Cardinality({R(kind, i) : i \in 0 .. n - 1}) = n
<1> DEFINE S == 0 .. n - 1
           T == {R(kind, i) : i \in S}
           f == [i \in S |-> R(kind, i)]
<1>1. IsFiniteSet(S) /\ Cardinality(S) = n
  <2>1. IsFiniteSet(S) /\ Cardinality(S) = IF 0 > n - 1 THEN 0 ELSE n - 1 - 0 + 1
    BY FS_Interval
  <2>2. (IF 0 > n - 1 THEN 0 ELSE n - 1 - 0 + 1) = n
    OBVIOUS
  <2>3. QED
    BY <2>1, <2>2
<1> HIDE DEF S
<1>2. f \in [S -> T] /\ (\A a, b \in S : f[a] = f[b] => a = b)
      /\ (\A t \in T : \E s \in S : f[s] = t)
  BY ObjectsDiffer
<1>3. f \in Bijection(S, T)
  BY <1>2 DEF Bijection, Injection, Surjection, IsInjective
<1>4. ExistsBijection(S, T)
  BY <1>3 DEF ExistsBijection
<1>5. Cardinality(T) = n
  BY <1>1, <1>4, FS_Bijection
<1>6. QED
  BY <1>5 DEF S

LEMMA NextObject ==
  ASSUME NEW i \in Nat
  PROVE  /\ Environments(0) = {} /\ Instances(0) = {}
         /\ Environments(i + 1) = Environments(i) \cup {R("environment", i)}
         /\ Instances(i + 1) = Instances(i) \cup {R("instance", i)}
         /\ Environments(1) = {R("environment", 0)}
<1>1. 0 .. -1 = {} /\ 0 .. 1 - 1 = {0} /\ 0 - 1 = -1
  OBVIOUS
<1>2. \A j : j \in 0 .. i + 1 - 1 <=> j \in 0 .. i - 1 \/ j = i
  OBVIOUS
<1>3. Environments(0) = {} /\ Instances(0) = {}
  BY <1>1 DEF Environments, Instances
<1>4. /\ Environments(i + 1) = Environments(i) \cup {R("environment", i)}
      /\ Instances(i + 1) = Instances(i) \cup {R("instance", i)}
  <2>1. \A h : h \in Environments(i + 1) <=>
               h \in Environments(i) \/ h = R("environment", i)
    BY <1>2 DEF Environments
  <2>2. \A h : h \in Instances(i + 1) <=> h \in Instances(i) \/ h = R("instance", i)
    BY <1>2 DEF Instances
  <2>3. QED
    BY <2>1, <2>2
<1>5. Environments(1) = {R("environment", 0)}
  BY <1>1 DEF Environments
<1>6. QED
  BY <1>3, <1>4, <1>5

LEMMA ObjectsOf ==
  ASSUME NEW n \in Nat
  PROVE  /\ \A j : R("environment", j) \in Environments(n) <=> j \in 0 .. n - 1
         /\ \A j : R("instance", j) \in Instances(n) <=> j \in 0 .. n - 1
         /\ \A h \in Environments(n) : \E j \in 0 .. n - 1 : h = R("environment", j)
         /\ \A h \in Instances(n) : \E j \in 0 .. n - 1 : h = R("instance", j)
  BY ObjectsDiffer DEF Environments, Instances

(* What the steps of a cleanup leave.                                      *)
LEMMA ChildrenDestroyed ==
  ASSUME NEW n \in Nat \ {0}, NEW objects,
         \/ objects \in {Opened, Running}
         \/ \E k \in 0 .. n : objects = WamrBase \cup Environments(k)
  PROVE  objects \ {R("environment", i) : i \in 1 .. n - 1}
           \in {Opened, Running, WamrBase, WamrBase \cup {R("environment", 0)}}
<1> DEFINE E == {R("environment", i) : i \in 1 .. n - 1}
<1>1. \A j : R("environment", j) \in E <=> j \in 1 .. n - 1
  BY ObjectsDiffer
<1>2. \A h \in E : \E j \in 1 .. n - 1 : h = R("environment", j)
  OBVIOUS
<1>3. /\ \A i, j : /\ R("image", i) # R("environment", j)
                   /\ R("module", i) # R("environment", j)
                   /\ R("instance", i) # R("environment", j)
                   /\ R("runners", i) # R("environment", j)
  BY ObjectsDiffer
<1> HIDE DEF E
<1>4. WamrBase \ E = WamrBase /\ Opened \ E = Opened /\ Running \ E = Running
  BY <1>2, <1>3 DEF WamrBase, Running, Opened
<1>5. CASE objects \in {Opened, Running}
  BY <1>4, <1>5 DEF E
<1>6. ASSUME NEW k \in 0 .. n, objects = WamrBase \cup Environments(k)
      PROVE  objects \ E \in {WamrBase, WamrBase \cup {R("environment", 0)}}
  <2>1. CASE k = 0
    BY <1>4, <1>6, <2>1, NextObject
  <2>2. CASE k # 0
    <3>1. k \in Nat /\ 0 \in 0 .. k - 1 /\ 0 \notin 1 .. n - 1
      BY <2>2
    <3>2. Environments(k) \ E = {R("environment", 0)}
      <4>1. ASSUME NEW h \in Environments(k), h \notin E
            PROVE  h = R("environment", 0)
        <5>1. PICK j \in 0 .. k - 1 : h = R("environment", j)
          BY <3>1, ObjectsOf
        <5>2. j \notin 1 .. n - 1
          BY <1>1, <4>1, <5>1
        <5>3. j = 0
          BY <5>2
        <5>4. QED
          BY <5>1, <5>3
      <4>2. R("environment", 0) \in Environments(k)
        BY <3>1, ObjectsOf
      <4>3. R("environment", 0) \notin E
        BY <1>1, <3>1
      <4>4. QED
        BY <4>1, <4>2, <4>3
    <3>3. objects \ E = (WamrBase \ E) \cup (Environments(k) \ E)
      BY <1>6
    <3>4. QED
      BY <1>4, <3>2, <3>3
  <2>3. QED
    BY <2>1, <2>2
<1>7. QED
  BY <1>5, <1>6 DEF E

LEMMA MainDestroyed ==
  ASSUME NEW objects,
         objects \in {Opened, Running, WamrBase, WamrBase \cup {R("environment", 0)}}
  PROVE  /\ R("environment", 0) \in objects =>
              objects \ {R("environment", 0)} = WamrBase
         /\ R("environment", 0) \notin objects =>
              objects \ {R("instance", 0)} \in {Opened, Opened \cup {R("runners", 0)}}
<1>1. /\ R("image", 0) # R("environment", 0) /\ R("module", 0) # R("environment", 0)
      /\ R("instance", 0) # R("environment", 0) /\ R("runners", 0) # R("environment", 0)
      /\ R("image", 0) # R("instance", 0) /\ R("module", 0) # R("instance", 0)
      /\ R("runners", 0) # R("instance", 0)
  BY ObjectsDiffer
<1>2. R("environment", 0) \notin Opened /\ R("environment", 0) \notin Running
      /\ R("environment", 0) \notin WamrBase
  BY <1>1 DEF WamrBase, Running, Opened
<1>3. /\ Opened \ {R("instance", 0)} = Opened /\ Running \ {R("instance", 0)} = Opened
      /\ WamrBase \ {R("instance", 0)} = Opened \cup {R("runners", 0)}
  BY <1>1 DEF WamrBase, Running, Opened
<1>4. QED
  BY <1>2, <1>3

LEMMA RestReleased ==
  /\ \A objects \in {Opened, Opened \cup {R("runners", 0)}} :
       objects \ {R("runners", 0)} = Opened
  /\ Opened \ {R("module", 0)} = {R("image", 0)}
  /\ {R("image", 0)} \cup {R("module", 0)} = Opened
  /\ Opened \cup {R("instance", 0)} = Running
  /\ Running \cup {R("runners", 0)} = WamrBase
  /\ {R("library", 0)} \cup {R("instance", 0)} = Translation
  /\ {R("library", 0), R("instance", 0)} = Translation
  /\ Translation \cup {R("runners", 0)} = TranslatedBase
<1>1. /\ R("image", 0) # R("runners", 0) /\ R("module", 0) # R("runners", 0)
      /\ R("image", 0) # R("module", 0)
  BY ObjectsDiffer
<1>2. QED
  BY <1>1 DEF Opened, Running, WamrBase, Translation, TranslatedBase

(* What the record that is being loaded holds.                             *)
HeldBy(c, objects, stage, i) ==
  /\ c.type \in {"none", "wasmtime"} => objects = {}
  /\ c.type = "native" => objects = {R("library", 0)}
  /\ c.type = "wamr" => WamrHeld(objects, stage, i, c.count)
  /\ c.type = "translated" => TranslatedHeld(objects, stage, i, c.count)

LEMMA HoldsNow ==
  ASSUME Base, HeldInOrder, load.stage # "idle"
  PROVE  /\ HeldBy(cur, held, load.stage, load.i)
         /\ cur.type = "none" => held = {}
  BY Loading DEF HeldInOrder, HeldBy

LEMMA HoldsNext ==
  ASSUME Base, InitStep, NEW r, SetCtx(r) \/ (ctx' = ctx /\ r = cur),
         HeldBy(r, held', load'.stage, load'.i)
  PROVE  HeldInOrder'
<1>1. /\ ctx' # <<>> /\ Len(ctx') = Len(ctx) /\ Len(ctx) \in DOMAIN ctx
  BY OthersSpared, CurrentFields DEF Base
<1>2. cur' = r
  <2>1. CASE SetCtx(r)
    BY <1>1, <2>1 DEF SetCtx, cur
  <2>2. CASE ctx' = ctx /\ r = cur
    BY <2>2 DEF cur
  <2>3. QED
    BY <2>1, <2>2
<1>3. QED
  BY <1>1, <1>2 DEF HeldInOrder, HeldBy

(* The stage and the turn after a step.                                    *)
LEMMA StageNext ==
  ASSUME Base
  PROVE  /\ \A stage : Goto(stage) => load'.stage = stage /\ load'.i = 0
         /\ \A stage, i : Loop(stage, i) => load'.stage = stage /\ load'.i = i
         /\ Again => load'.stage = load.stage /\ load'.i = load.i + 1
<1>1. load \in Loads
  BY DEF Base, VariablesTyped
<1>2. QED
  BY <1>1 DEF Goto, Loop, Again, Loads

(* Nothing is held before the module is opened, nor by Wasmtime.           *)
LEMMA OpeningHolds ==
  ASSUME Base, HeldInOrder,
         \/ ResolveDeclined \/ ResolveCached \/ ResolveBuild \/ ReadImage \/ NoRuntime
         \/ OpenLibrary
  PROVE  HeldInOrder'
<1>1. /\ InitStep /\ load.stage \in {"resolve", "build", "image", "library"}
  BY DEF InitStep, ResolveDeclined, ResolveCached, ResolveBuild, ReadImage, NoRuntime,
         OpenLibrary, At
<1>2. cur \in ModuleRecord /\ cur.type = "none" /\ held = {}
  BY <1>1, Loading, HoldsNow DEF Progress, Untouched
<1>3. CASE ResolveDeclined \/ ResolveCached \/ ResolveBuild \/ NoRuntime
  <2>1. held' = {}
    BY <1>2, <1>3, ChoiceTyped DEF NoRuntime
  <2>2. ASSUME NEW r, r.type = "none"
        PROVE  HeldBy(r, held', load'.stage, load'.i)
    BY <2>1, <2>2 DEF HeldBy
  <2>3. \E r : (SetCtx(r) \/ (ctx' = ctx /\ r = cur)) /\ r.type = "none"
    <3>1. /\ \A mode : [cur EXCEPT !.mode = mode].type = "none"
          /\ \A mode, translated :
               [cur EXCEPT !.translated = translated, !.mode = mode].type = "none"
          /\ \A waited, translated :
               [cur EXCEPT !.translated = translated, !.waited = waited].type = "none"
      BY <1>2 DEF ModuleRecord
    <3>2. QED
      BY <1>2, <1>3, <3>1 DEF ResolveDeclined, ResolveCached, ResolveBuild, NoRuntime
  <2>4. QED
    BY <1>1, <2>2, <2>3, HoldsNext
<1>4. CASE ReadImage
  <2> DEFINE type == IF info.found THEN host.runtime ELSE "none"
             r == [cur EXCEPT !.type = type,
                          !.stack_base = ReadStackPointer(img.binary),
                          !.shares = info.found /\ info.shared,
                          !.memory_safe = info.found /\ MemorySafe]
  <2>1. SetCtx(r)
    BY <1>4 DEF ReadImage
  <2>2. r.type = type
    BY <1>2 DEF ModuleRecord
  <2> HIDE DEF r
  <2>3. host.runtime \in {"wasmtime", "wamr"}
    BY <1>4, ModeTyped DEF ReadImage, has_runtime, Base
  <2>4. CASE MemoryAccepted
    <3>1. type = host.runtime
      BY <2>4 DEF MemoryAccepted
    <3>2. /\ held' = IF type = "wamr" THEN {R("image", 0)} ELSE {}
          /\ type = "wamr" => load'.stage = "load"
      BY <1>4, <2>4, <3>1, StageNext DEF ReadImage
    <3>3. HeldBy(r, held', load'.stage, load'.i)
      BY <2>2, <2>3, <3>1, <3>2 DEF HeldBy, WamrHeld
    <3>4. QED
      BY <1>1, <2>1, <3>3, HoldsNext
  <2>5. CASE ~MemoryAccepted
    <3>1. held' = {} /\ load'.stage = "failed"
      BY <1>2, <1>4, <2>5, StageNext DEF ReadImage
    <3>2. HeldBy(r, held', load'.stage, load'.i)
      BY <2>2, <2>3, <3>1 DEF HeldBy, WamrHeld
    <3>3. QED
      BY <1>1, <2>1, <3>2, HoldsNext
  <2>6. QED
    BY <2>4, <2>5
<1>5. CASE OpenLibrary
  <2> DEFINE type == IF cur.translated THEN "translated" ELSE "native"
             r == [cur EXCEPT !.type = type]
  <2>1. r.type = type
    BY <1>2 DEF ModuleRecord
  <2>2. \/ SetCtx(r) /\ held' = {R("library", 0)} /\ Goto("native_symbols")
        \/ ctx' = ctx /\ held' = {} /\ Goto("failed")
    BY <1>2, <1>5 DEF OpenLibrary
  <2> HIDE DEF r
  <2>3. CASE SetCtx(r) /\ held' = {R("library", 0)} /\ Goto("native_symbols")
    <3>1. load'.stage = "native_symbols"
      BY <2>3, StageNext
    <3>2. HeldBy(r, held', load'.stage, load'.i)
      BY <2>1, <2>3, <3>1 DEF HeldBy, TranslatedHeld
    <3>3. QED
      BY <1>1, <2>3, <3>2, HoldsNext
  <2>4. CASE ctx' = ctx /\ held' = {} /\ Goto("failed")
    <3>1. HeldBy(cur, held', load'.stage, load'.i)
      BY <1>2, <2>4 DEF HeldBy
    <3>2. QED
      BY <1>1, <2>4, <3>1, HoldsNext
  <2>5. QED
    BY <2>2, <2>3, <2>4
<1>6. QED
  BY <1>3, <1>4, <1>5

LEMMA WasmtimeHolds ==
  ASSUME Base, HeldInOrder, Compile \/ InitWasmtimeRunner
  PROVE  HeldInOrder'
<1>1. /\ InitStep /\ load.stage \in {"compile", "runner"} /\ held' = held
  BY DEF InitStep, Compile, InitWasmtimeRunner, At
<1>2. cur \in ModuleRecord /\ cur.type = "wasmtime"
  BY <1>1, Loading DEF Progress
<1>3. held' = {}
  BY <1>1, <1>2, HoldsNow DEF HeldBy
<1>4. \A r : r.type = "wasmtime" => HeldBy(r, held', load'.stage, load'.i)
  BY <1>3 DEF HeldBy
<1>5. \E r : (SetCtx(r) \/ (ctx' = ctx /\ r = cur)) /\ r.type = "wasmtime"
  <2>1. CASE Compile
    BY <1>2, <2>1 DEF Compile
  <2>2. CASE InitWasmtimeRunner
    <3> DEFINE base == StackBaseOf(load.i)
               writes == IF load.i = 0 \/ ~OnlyPassiveData(img.binary)
                         THEN cur.writes + 1 ELSE cur.writes
               r == [cur EXCEPT !.stack_base = base,
                       !.stacks = Append(cur.stacks, StackOf(base, load.i)),
                       !.writes = writes]
    <3>1. SetCtx(r) \/ SetCtx([r EXCEPT !.stacks = cur.stacks])
      BY <2>2 DEF InitWasmtimeRunner
    <3>2. r.type = "wasmtime" /\ [r EXCEPT !.stacks = cur.stacks].type = "wasmtime"
      BY <1>2 DEF ModuleRecord
    <3>3. QED
      BY <3>1, <3>2
  <2>3. QED
    BY <2>1, <2>2
<1>6. QED
  BY <1>1, <1>4, <1>5, HoldsNext

(* WAMR's objects, as they are acquired ...                                *)
LEMMA WamrOpens ==
  ASSUME Base, HeldInOrder, LoadImage \/ Instantiate \/ AllocateRunners
  PROVE  HeldInOrder'
<1>1. /\ InitStep /\ load.stage \in {"load", "instantiate", "objects"}
      /\ LoadImage => load.stage = "load"
      /\ Instantiate => load.stage = "instantiate"
      /\ AllocateRunners => load.stage = "objects"
  BY DEF InitStep, LoadImage, Instantiate, AllocateRunners, At
<1>2. /\ cur \in ModuleRecord /\ cur.type = "wamr"
      /\ WamrHeld(held, load.stage, load.i, cur.count)
  BY <1>1, Loading, HoldsNow DEF Progress, HeldBy
<1>3. CASE LoadImage
  <2>1. held' = Opened
    BY <1>1, <1>2, <1>3, RestReleased DEF LoadImage, WamrHeld
  <2>2. load'.stage \in {"undo_children", "instantiate"} /\ ctx' = ctx
    BY <1>3, StageNext DEF LoadImage
  <2>3. HeldBy(cur, held', load'.stage, load'.i)
    BY <1>2, <2>1, <2>2 DEF HeldBy, WamrHeld
  <2>4. QED
    BY <1>1, <2>2, <2>3, HoldsNext
<1>4. CASE Instantiate
  <2> DEFINE r == [cur EXCEPT !.writes = cur.writes + 1]
  <2>1. SetCtx(r) /\ r.type = "wamr"
    BY <1>2, <1>4 DEF Instantiate, ModuleRecord
  <2>2. held' = Running /\ load'.stage = "objects"
    BY <1>1, <1>2, <1>4, RestReleased, StageNext DEF Instantiate, WamrHeld
  <2> HIDE DEF r
  <2>3. HeldBy(r, held', load'.stage, load'.i)
    BY <2>1, <2>2 DEF HeldBy, WamrHeld
  <2>4. QED
    BY <1>1, <2>1, <2>3, HoldsNext
<1>5. CASE AllocateRunners
  <2>1. held' = WamrBase /\ load'.stage = "environment" /\ load'.i = 0 /\ ctx' = ctx
    BY <1>1, <1>2, <1>5, RestReleased, StageNext DEF AllocateRunners, WamrHeld
  <2>2. held' = WamrBase \cup Environments(load'.i)
    BY <2>1, NextObject
  <2>3. HeldBy(cur, held', load'.stage, load'.i)
    BY <1>2, <2>1, <2>2 DEF HeldBy, WamrHeld
  <2>4. QED
    BY <1>1, <2>1, <2>3, HoldsNext
<1>6. QED
  BY <1>3, <1>4, <1>5

LEMMA CreateEnvironmentHolds ==
  ASSUME Base, HeldInOrder, CreateEnvironment
  PROVE  HeldInOrder'
<1>1. /\ InitStep /\ load.stage = "environment"
  BY DEF InitStep, CreateEnvironment, At
<1>2. /\ cur \in ModuleRecord /\ cur.type = "wamr"
      /\ load.i \in Nat /\ cur.count \in Nat /\ load.i < cur.count
      /\ held = WamrBase \cup Environments(load.i)
  BY <1>1, Loading, HoldsNow DEF Progress, HeldBy, WamrHeld
<1> DEFINE stack == IF load.i = 0 THEN LinkedStack ELSE AuxStack(load.i)
           r == [cur EXCEPT !.stacks = Append(cur.stacks, stack)]
<1>3. \/ /\ SetCtx(r) /\ held' = held \cup {R("environment", load.i)}
         /\ IF load.i + 1 < cur.count THEN Again ELSE Goto("symbols")
      \/ Goto("undo_children") /\ ctx' = ctx /\ held' = held
  BY DEF CreateEnvironment
<1>4. r.type = "wamr" /\ r.count = cur.count
  BY <1>2 DEF ModuleRecord
<1> HIDE DEF r
<1>5. CASE Goto("undo_children") /\ ctx' = ctx /\ held' = held
  <2>1. load'.stage = "undo_children" /\ load.i \in 0 .. cur.count
    BY <1>2, <1>5, StageNext
  <2>2. HeldBy(cur, held', load'.stage, load'.i)
    BY <1>2, <1>5, <2>1 DEF HeldBy, WamrHeld
  <2>3. QED
    BY <1>1, <1>5, <2>2, HoldsNext
<1>6. CASE /\ SetCtx(r) /\ held' = held \cup {R("environment", load.i)}
           /\ IF load.i + 1 < cur.count THEN Again ELSE Goto("symbols")
  <2>1. held' = WamrBase \cup Environments(load.i + 1)
    BY <1>2, <1>6, NextObject
  <2>2. CASE load.i + 1 < cur.count
    <3>1. load'.stage = "environment" /\ load'.i = load.i + 1
      BY <1>1, <1>6, <2>2, StageNext
    <3>2. HeldBy(r, held', load'.stage, load'.i)
      BY <1>4, <2>1, <3>1 DEF HeldBy, WamrHeld
    <3>3. QED
      BY <1>1, <1>6, <3>2, HoldsNext
  <2>3. CASE ~(load.i + 1 < cur.count)
    <3>1. load'.stage = "symbols" /\ load.i + 1 = cur.count
      BY <1>2, <1>6, <2>3, StageNext
    <3>2. HeldBy(r, held', load'.stage, load'.i)
      BY <1>4, <2>1, <3>1 DEF HeldBy, WamrHeld
    <3>3. QED
      BY <1>1, <1>6, <3>2, HoldsNext
  <2>4. QED
    BY <2>2, <2>3
<1>7. QED
  BY <1>3, <1>5, <1>6

(* ... and as they are released.                                           *)
LEMMA UndoHolds ==
  ASSUME Base, HeldInOrder, \/ DestroyChildren \/ DestroyMain \/ ReleaseRunners
                            \/ UnloadModule \/ FreeImage
  PROVE  HeldInOrder'
<1>1. /\ InitStep /\ ctx' = ctx /\ load.stage # "idle"
      /\ load.stage \in {"undo_children", "undo_main", "undo_module", "undo_image"}
           \/ cur.type = "wamr"
  BY DEF InitStep, DestroyChildren, DestroyMain, ReleaseRunners, UnloadModule,
         FreeImage, At
<1>2. /\ cur \in ModuleRecord /\ cur.type = "wamr" /\ cur.count \in Nat \ {0}
      /\ WamrHeld(held, load.stage, load.i, cur.count)
  BY <1>1, Loading, HoldsNow DEF Progress, HeldBy
<1>3. SUFFICES WamrHeld(held', load'.stage, load'.i, cur.count)
  BY <1>1, <1>2, HoldsNext DEF HeldBy
<1>4. CASE DestroyChildren
  <2>1. /\ \/ held \in {Opened, Running}
           \/ \E k \in 0 .. cur.count : held = WamrBase \cup Environments(k)
        /\ held' = held \ {R("environment", i) : i \in 1 .. cur.count - 1}
    BY <1>2, <1>4 DEF DestroyChildren, WamrHeld, At
  <2>2. held' \in {Opened, Running, WamrBase, WamrBase \cup {R("environment", 0)}}
    BY <1>2, <2>1, ChildrenDestroyed
  <2>3. load'.stage = "undo_main"
    BY <1>4, StageNext DEF DestroyChildren
  <2>4. QED
    BY <2>2, <2>3 DEF WamrHeld
<1>5. CASE DestroyMain
  <2>1. load.stage = "undo_main"
    BY <1>5 DEF DestroyMain, At
  <2>2. held \in {Opened, Running, WamrBase, WamrBase \cup {R("environment", 0)}}
    BY <1>2, <2>1 DEF WamrHeld
  <2>3. CASE R("environment", 0) \in held
    <3>1. held' = WamrBase /\ load'.stage = "undo_main"
      BY <1>5, <2>1, <2>2, <2>3, MainDestroyed DEF DestroyMain
    <3>2. QED
      BY <3>1 DEF WamrHeld
  <2>4. CASE R("environment", 0) \notin held
    <3>1. /\ held' \in {Opened, Opened \cup {R("runners", 0)}}
          /\ load'.stage = "undo_runners"
      BY <1>5, <2>2, <2>4, MainDestroyed, StageNext DEF DestroyMain
    <3>2. QED
      BY <3>1 DEF WamrHeld
  <2>5. QED
    BY <2>3, <2>4
<1>6. CASE ReleaseRunners
  <2>1. held' = Opened /\ load'.stage = "undo_module"
    BY <1>2, <1>6, RestReleased, StageNext DEF ReleaseRunners, At, WamrHeld
  <2>2. QED
    BY <2>1 DEF WamrHeld
<1>7. CASE UnloadModule
  <2>1. held' = {R("image", 0)} /\ load'.stage = "undo_image"
    BY <1>2, <1>7, RestReleased, StageNext DEF UnloadModule, At, WamrHeld
  <2>2. QED
    BY <2>1 DEF WamrHeld
<1>8. CASE FreeImage
  <2>1. held' = {} /\ load'.stage = "failed"
    BY <1>2, <1>8, StageNext DEF FreeImage, At, WamrHeld
  <2>2. QED
    BY <2>1 DEF WamrHeld
<1>9. QED
  BY <1>4, <1>5, <1>6, <1>7, <1>8

(* A translation's instances.                                              *)
LEMMA TranslationHolds ==
  ASSUME Base, HeldInOrder, NativeSymbols \/ DivideStack \/ ReleaseInstances
  PROVE  HeldInOrder'
<1>1. /\ InitStep /\ load.stage \in {"native_symbols", "divide", "undo_runners"}
      /\ NativeSymbols => load.stage = "native_symbols"
      /\ DivideStack => load.stage = "divide"
  BY DEF InitStep, NativeSymbols, DivideStack, ReleaseInstances, At
<1>2. /\ cur \in ModuleRecord /\ HeldBy(cur, held, load.stage, load.i)
      /\ Progress(cur, img, load.stage, load.i)
  BY <1>1, Loading, HoldsNow
<1>3. CASE NativeSymbols /\ cur.type = "native"
  <2> DEFINE r == [cur EXCEPT !.valid = TRUE]
  <2>1. SetCtx(r) /\ held' = {R("library", 0)} /\ r.type = "native"
    BY <1>2, <1>3 DEF NativeSymbols, HeldBy, ModuleRecord
  <2> HIDE DEF r
  <2>2. HeldBy(r, held', load'.stage, load'.i)
    BY <2>1 DEF HeldBy
  <2>3. QED
    BY <1>1, <2>1, <2>2, HoldsNext
<1>4. CASE NativeSymbols /\ cur.type # "native"
  <2> DEFINE base == IF "__stack_pointer" \in img.exports THEN img.stack_top ELSE 0
             r == [cur EXCEPT !.valid = TRUE, !.writes = cur.writes + 1,
                              !.shares = info.shared, !.stack_base = base,
                              !.data_end = LinkedDataEnd]
  <2>1. cur.type = "translated"
    BY <1>1, <1>2, <1>4 DEF Progress
  <2>2. held' = Translation /\ load'.stage = "divide"
    BY <1>1, <1>2, <1>4, <2>1, RestReleased, StageNext
       DEF NativeSymbols, HeldBy, TranslatedHeld
  <2>3. SetCtx(r) /\ r.type = "translated"
    BY <1>2, <1>4, <2>1 DEF NativeSymbols, ModuleRecord
  <2> HIDE DEF r
  <2>4. HeldBy(r, held', load'.stage, load'.i)
    BY <2>2, <2>3 DEF HeldBy, TranslatedHeld
  <2>5. QED
    BY <1>1, <2>3, <2>4, HoldsNext
<1>5. CASE DivideStack
  <2>1. cur.type = "translated" /\ held = Translation /\ ctx' = ctx
    BY <1>1, <1>2, <1>5 DEF Progress, DivideStack, HeldBy, TranslatedHeld
  <2>2. \/ held' = TranslatedBase /\ Goto("slices")
        \/ held' = Translation /\ Goto("failed")
    BY <1>5, <2>1, RestReleased DEF DivideStack
  <2>3. CASE held' = TranslatedBase /\ Goto("slices")
    <3>1. /\ load'.stage = "slices" /\ load'.i = 0
          /\ held' = TranslatedBase \cup Instances(load'.i)
      BY <2>3, NextObject, StageNext
    <3>2. HeldBy(cur, held', load'.stage, load'.i)
      BY <2>1, <3>1 DEF HeldBy, TranslatedHeld
    <3>3. QED
      BY <1>1, <2>1, <3>2, HoldsNext
  <2>4. CASE held' = Translation /\ Goto("failed")
    <3>1. HeldBy(cur, held', load'.stage, load'.i)
      BY <2>1, <2>4, StageNext DEF HeldBy, TranslatedHeld
    <3>2. QED
      BY <1>1, <2>1, <3>1, HoldsNext
  <2>5. QED
    BY <2>2, <2>3, <2>4
<1>6. CASE ReleaseInstances
  <2>1. /\ held' = Translation /\ load'.stage = "failed" /\ ctx' = ctx
        /\ cur.type = "translated"
    BY <1>6, RestReleased, StageNext DEF ReleaseInstances
  <2>2. HeldBy(cur, held', load'.stage, load'.i)
    BY <2>1 DEF HeldBy, TranslatedHeld
  <2>3. QED
    BY <1>1, <2>1, <2>2, HoldsNext
<1>7. QED
  BY <1>3, <1>4, <1>5, <1>6

LEMMA TranslatedRunnerHolds ==
  ASSUME Base, HeldInOrder, TranslatedRunner
  PROVE  HeldInOrder'
<1>1. InitStep /\ load.stage = "slices"
  BY DEF InitStep, TranslatedRunner, At
<1>2. /\ cur \in ModuleRecord /\ cur.type = "translated"
      /\ load.i \in Nat /\ cur.count \in Nat \ {0} /\ load.i < cur.count
      /\ held = TranslatedBase \cup Instances(load.i)
  BY <1>1, Loading, HoldsNow DEF Progress, HeldBy, TranslatedHeld
<1> DEFINE r == [cur EXCEPT !.stacks = Append(cur.stacks, StackOf(cur.stack_base, load.i))]
<1>3. SetCtx(r) /\ held' = held \cup {R("instance", load.i)}
      /\ r.type = "translated" /\ r.count = cur.count
  BY <1>2 DEF TranslatedRunner, ModuleRecord
<1> HIDE DEF r
<1>4. held' = TranslatedBase \cup Instances(load.i + 1)
  BY <1>2, <1>3, NextObject
<1>5. CASE load.i + 1 < cur.count
  <2>1. Again
    BY <1>2, <1>5 DEF TranslatedRunner
  <2>2. load'.stage = "slices" /\ load'.i = load.i + 1
    BY <1>1, <2>1, StageNext
  <2>3. HeldBy(r, held', load'.stage, load'.i)
    BY <1>3, <1>4, <2>2 DEF HeldBy, TranslatedHeld
  <2>4. QED
    BY <1>1, <1>3, <2>3, HoldsNext
<1>6. CASE load.i + 1 = cur.count
  <2>1. Loop("tls", 1) \/ Goto("memory")
    <3>1. ~(load.i + 1 < cur.count)
      BY <1>2, <1>6
    <3>2. QED
      BY <1>6, <3>1 DEF TranslatedRunner
  <2>2. load'.stage \in {"tls", "memory"}
    BY <2>1, StageNext
  <2>3. HeldBy(r, held', load'.stage, load'.i)
    BY <1>3, <1>4, <1>6, <2>2 DEF HeldBy, TranslatedHeld
  <2>4. QED
    BY <1>1, <1>3, <2>3, HoldsNext
<1>7. QED
  BY <1>2, <1>5, <1>6

(* From here on everything a module holds is complete.                     *)
Complete == {"symbols", "memory", "tls", "blank", "register"}

LEMMA StaysComplete ==
  ASSUME NEW c, NEW objects, NEW s1 \in Complete, NEW i1, NEW s2, NEW i2,
         HeldBy(c, objects, s1, i1), c.type \in Types,
         s1 = "symbols" => c.type \in {"wasmtime", "wamr"},
         s2 \in {"memory", "tls", "blank", "register", "failed", "idle"},
         s2 = "failed" /\ c.type = "translated" => s1 # "symbols"
  PROVE  HeldBy(c, objects, s2, i2)
<1>1. CASE c.type \in {"none", "wasmtime", "native"}
  BY <1>1 DEF HeldBy
<1>2. CASE c.type = "wamr"
  BY <1>2 DEF HeldBy, WamrHeld, Complete
<1>3. CASE c.type = "translated"
  BY <1>3 DEF HeldBy, TranslatedHeld, Complete
<1>4. QED
  BY <1>1, <1>2, <1>3 DEF Types

LEMMA SharedStepsHold ==
  ASSUME Base, HeldInOrder,
         \/ RuntimeSymbols \/ InitMemory \/ InitTls \/ BlankStack \/ RegisterModule
  PROVE  HeldInOrder'
<1>1. /\ InitStep /\ held' = held /\ load.stage \in Complete
      /\ load.stage = "symbols" => RuntimeSymbols
  BY DEF InitStep, RuntimeSymbols, InitMemory, InitTls, BlankStack, RegisterModule, At,
         Complete
<1>2. /\ cur \in ModuleRecord /\ cur.type \in Types /\ load.stage # "idle"
      /\ HeldBy(cur, held, load.stage, load.i)
      /\ load.stage = "symbols" => cur.type \in {"wasmtime", "wamr"}
  BY <1>1, Loading, HoldsNow, RecordFields DEF Progress, Complete
<1>3. load'.stage \in {"memory", "tls", "blank", "register", "failed", "idle"}
  <2>1. CASE RuntimeSymbols
    BY <2>1, StageNext DEF RuntimeSymbols
  <2>2. CASE InitMemory
    BY <2>2, StageNext DEF InitMemory
  <2>3. CASE InitTls
    BY <2>3, StageNext DEF InitTls, At, AfterTls
  <2>4. CASE BlankStack
    <3>1. Goto("register") \/ Goto("failed")
      BY <2>4 DEF BlankStack
    <3>2. QED
      BY <3>1, StageNext
  <2>5. CASE RegisterModule
    BY <2>5 DEF RegisterModule, Idle
  <2>6. QED
    BY <2>1, <2>2, <2>3, <2>4, <2>5
<1>4. \E r : /\ SetCtx(r) \/ (ctx' = ctx /\ r = cur)
             /\ r.type = cur.type /\ r.count = cur.count
  <2>1. CASE RegisterModule
    BY <1>2, <2>1 DEF RegisterModule, ModuleRecord
  <2>2. CASE ~RegisterModule
    <3>1. CASE InitMemory
      BY <3>1 DEF InitMemory
    <3>2. CASE RuntimeSymbols
      <4> DEFINE d == [cur EXCEPT !.valid = TRUE, !.data_end = LinkedDataEnd]
      <4>1. SetCtx(d)
        BY <3>2 DEF RuntimeSymbols
      <4>2. d.type = cur.type /\ d.count = cur.count
        BY <1>2 DEF ModuleRecord
      <4> HIDE DEF d
      <4>3. QED
        BY <4>1, <4>2
    <3>3. CASE BlankStack
      <4> DEFINE r1 == [cur EXCEPT !.valid = FALSE]
                 r2 == [cur EXCEPT !.blanked = cur.blanked \cup
                          {BlankedRegion(cur.stack_base, cur.data_end)}]
      <4>1. SetCtx(r1) \/ SetCtx(r2) \/ ctx' = ctx
        BY <3>3 DEF BlankStack
      <4>2. r1.type = cur.type /\ r1.count = cur.count
            /\ r2.type = cur.type /\ r2.count = cur.count
        BY <1>2 DEF ModuleRecord
      <4> HIDE DEF r1, r2
      <4>3. QED
        BY <4>1, <4>2
    <3>4. CASE InitTls
      <4>1. PICK addr :
              LET size == AllocationSize(img.tls_size, img.tls_align)
                  c == [cur EXCEPT !.blanked = @ \cup AuxBlanked(load.i)]
              IN  SetCtx(IF ~NeedsTls THEN c
                         ELSE [c EXCEPT
                                 !.heap = addr + size,
                                 !.tls = Append(@, AlignedBlock(addr, img.tls_size,
                                                                img.tls_align))])
        BY <3>4 DEF InitTls
      <4> DEFINE blanked == cur.blanked \cup AuxBlanked(load.i)
                 c == [cur EXCEPT !.blanked = blanked]
                 heap == addr + AllocationSize(img.tls_size, img.tls_align)
                 tls == Append(c.tls, AlignedBlock(addr, img.tls_size, img.tls_align))
                 d == [c EXCEPT !.heap = heap, !.tls = tls]
      <4>2. SetCtx(c) \/ SetCtx(d)
        BY <4>1
      <4> HIDE DEF blanked, heap, tls
      <4>3. /\ c.type = cur.type /\ c.count = cur.count
            /\ d.type = cur.type /\ d.count = cur.count
        BY <1>2 DEF ModuleRecord
      <4> HIDE DEF c, d
      <4>4. QED
        BY <4>2, <4>3
    <3>5. QED
      BY <2>2, <3>1, <3>2, <3>3, <3>4
  <2>3. QED
    BY <2>1, <2>2
<1>5. PICK r : /\ SetCtx(r) \/ (ctx' = ctx /\ r = cur)
               /\ r.type = cur.type /\ r.count = cur.count
  BY <1>4
<1>6. HeldBy(r, held, load.stage, load.i)
  BY <1>2, <1>5 DEF HeldBy
<1>7. HeldBy(r, held', load'.stage, load'.i)
  <2>1. load'.stage = "failed" /\ r.type = "translated" => load.stage # "symbols"
    BY <1>2, <1>5
  <2>2. QED
    BY <1>1, <1>2, <1>3, <1>5, <1>6, <2>1, StaysComplete
<1>8. QED
  BY <1>1, <1>5, <1>7, HoldsNext

LEMMA FailuresHold ==
  ASSUME Base, HeldInOrder, StepFails \/ TlsRefused
  PROVE  HeldInOrder'
<1>1. /\ InitStep /\ held' = held /\ load.stage \in Fallible /\ load.stage # "idle"
      /\ Goto(UndoStage) /\ SetCtx([cur EXCEPT !.valid = FALSE])
  BY DEF InitStep, StepFails, TlsRefused, At, Fallible
<1>2. /\ cur \in ModuleRecord /\ cur.type \in Types
      /\ load.i \in Nat /\ cur.count \in Nat /\ load.i < cur.count
      /\ HeldBy(cur, held, load.stage, load.i)
      /\ Progress(cur, img, load.stage, load.i)
  BY <1>1, Loading, HoldsNow, RecordFields
<1> DEFINE r == [cur EXCEPT !.valid = FALSE]
<1>3. r.type = cur.type /\ r.count = cur.count
  BY <1>2 DEF ModuleRecord
<1>4. load'.stage = UndoStage
  BY <1>1, StageNext
<1>5. SetCtx(r)
  BY <1>1
<1> HIDE DEF r
<1>6. HeldBy(r, held', load'.stage, load'.i)
  <2>1. CASE cur.type \in {"none", "wasmtime", "native"}
    BY <1>1, <1>2, <1>3, <2>1 DEF HeldBy
  <2>2. CASE cur.type = "wamr"
    <3>1. WamrHeld(held, load.stage, load.i, cur.count)
      BY <1>2, <2>2 DEF HeldBy
    <3>2. load.i \in 0 .. cur.count
      BY <1>2
    <3>3. CASE load.stage = "load"
      <4>1. UndoStage = "undo_image"
        BY <2>2, <3>3 DEF UndoStage
      <4>2. QED
        BY <1>1, <1>3, <1>4, <2>2, <3>1, <3>3, <4>1 DEF HeldBy, WamrHeld
    <3>4. CASE load.stage \in {"instantiate", "objects", "environment"}
      <4>1. UndoStage = "undo_children"
        BY <2>2, <3>4 DEF UndoStage
      <4>2. QED
        BY <1>1, <1>3, <1>4, <2>2, <3>1, <3>2, <3>4, <4>1 DEF HeldBy, WamrHeld
    <3>5. CASE load.stage \in {"memory", "tls"}
      <4>1. UndoStage = "failed"
        BY <2>2, <3>5 DEF UndoStage
      <4>2. QED
        BY <1>1, <1>3, <1>4, <2>2, <3>1, <3>5, <4>1 DEF HeldBy, WamrHeld
    <3>6. load.stage \notin {"compile", "runner", "library", "native_symbols", "divide",
                             "slices"}
      BY <1>2, <2>2 DEF Progress, Untouched
    <3>7. QED
      BY <1>1, <3>3, <3>4, <3>5, <3>6 DEF Fallible
  <2>3. CASE cur.type = "translated"
    <3>1. TranslatedHeld(held, load.stage, load.i, cur.count)
      BY <1>2, <2>3 DEF HeldBy
    <3>2. load.i \in 0 .. cur.count /\ cur.count \in 0 .. cur.count
      BY <1>2
    <3>3. CASE load.stage \in {"slices", "tls"}
      <4>1. UndoStage = "undo_runners"
        BY <2>3, <3>3 DEF UndoStage
      <4>2. \E k \in 0 .. cur.count : held = TranslatedBase \cup Instances(k)
        BY <3>1, <3>2, <3>3 DEF TranslatedHeld
      <4>3. QED
        BY <1>1, <1>3, <1>4, <2>3, <4>1, <4>2 DEF HeldBy, TranslatedHeld
    <3>4. CASE load.stage \in {"native_symbols", "divide", "memory"}
      <4>1. UndoStage = "failed"
        BY <2>3, <3>4 DEF UndoStage
      <4>2. \/ held \in {{R("library", 0)}, Translation}
            \/ held = TranslatedBase \cup Instances(cur.count)
        BY <3>1, <3>4 DEF TranslatedHeld
      <4>3. QED
        BY <1>1, <1>3, <1>4, <2>3, <4>1, <4>2 DEF HeldBy, TranslatedHeld
    <3>5. load.stage \notin {"compile", "runner", "load", "instantiate", "objects",
                             "environment", "library"}
      BY <1>2, <2>3 DEF Progress, Untouched
    <3>6. QED
      BY <1>1, <3>3, <3>4, <3>5 DEF Fallible
  <2>4. QED
    BY <1>2, <2>1, <2>2, <2>3 DEF Types
<1>7. QED
  BY <1>1, <1>5, <1>6, HoldsNext

LEMMA InitHolds ==
  ASSUME Base, HeldInOrder, InitStep
  PROVE  HeldInOrder'
  BY OpeningHolds, WasmtimeHolds, WamrOpens, CreateEnvironmentHolds, UndoHolds,
     TranslationHolds, TranslatedRunnerHolds, SharedStepsHold, FailuresHold, Zenon
     DEF InitStep

LEMMA NextHolds ==
  ASSUME Sound, HeldInOrder, [Next]_vars
  PROVE  HeldInOrder'
<1>1. Base
  BY DEF Sound
<1>2. CASE UNCHANGED initVars
  BY <1>2 DEF initVars, HeldInOrder, cur
<1>3. CASE HostStep
  <2>1. CASE \/ OpenFile \/ EndFile \/ ModuleOptionsInvalid \/ SendLine \/ ChainLine
             \/ OrderLine \/ ConnectionLine \/ ProcessorLine \/ GroupInit \/ HostSetsMode
    BY <1>2, <2>1 DEF OpenFile, EndFile, ModuleOptionsInvalid, SendLine, ChainLine,
         OrderLine, ConnectionLine, ProcessorLine, GroupInit, HostSetsMode
  <2>2. CASE ModuleLine
    <3>1. CASE UNCHANGED initVars
      BY <1>2, <3>1
    <3>2. CASE ~UNCHANGED initVars
      <4>1. PICK path, n, backend, name, self : Begin(path, n, backend, name, self)
        BY <2>2, <3>2 DEF ModuleLine
      <4> DEFINE c == Fresh(path, n, backend, self)
      <4>2. ctx' = Append(ctx, c) /\ held' = {}
        BY <4>1 DEF Begin
      <4>3. c.type = "none"
        BY DEF Fresh
      <4> HIDE DEF c
      <4>4. ctx \in Seq(ModuleRecord) /\ Len(ctx) \in Nat
        BY <1>1, CurrentFields DEF Base, VariablesTyped
      <4>5. ctx'[Len(ctx')] = c
        BY <4>2, <4>4
      <4>6. cur'.type = "none"
        BY <4>3, <4>5 DEF cur
      <4>7. QED
        BY <4>2, <4>6 DEF HeldInOrder
    <3>3. QED
      BY <3>1, <3>2
  <2>3. CASE InitStep
    BY <1>1, <2>3, InitHolds
  <2>4. QED
    BY <1>3, <2>1, <2>2, <2>3 DEF HostStep
<1>4. CASE Restart
  BY <1>4 DEF Restart, HeldInOrder
<1>5. CASE Background \/ UNCHANGED vars
  BY <1>2, <1>5 DEF Background, vars
<1>6. QED
  BY <1>3, <1>4, <1>5 DEF Next, Ended

LEMMA AlwaysHeldInOrder ==
  Spec => []HeldInOrder
<1>1. Init => HeldInOrder
  BY DEF Init, HeldInOrder
<1>2. Sound /\ HeldInOrder /\ [Next]_vars => HeldInOrder'
  BY NextHolds
<1>3. QED
  BY <1>1, <1>2, AlwaysSound, PTL DEF Spec

(* What WAMR and a translation hold, in every stage.                       *)
WamrObjects(objects, n) ==
  \/ objects \in {{}, {R("image", 0)}, Opened, Running, Opened \cup {R("runners", 0)}}
  \/ \E k \in 0 .. n : objects = WamrBase \cup Environments(k)
TranslatedObjects(objects, n) ==
  \/ objects \in {{R("library", 0)}, Translation}
  \/ \E k \in 0 .. n : objects = TranslatedBase \cup Instances(k)

LEMMA WamrShape ==
  ASSUME Base, HeldInOrder, ctx # <<>>, cur.type = "wamr"
  PROVE  WamrObjects(held, cur.count)
<1> DEFINE n == cur.count
<1>1. WamrHeld(held, load.stage, load.i, n)
  BY DEF HeldInOrder
<1>2. n \in Nat \ {0} /\ load.stage \in Stages
  BY CurrentFields, RecordFields DEF Base, VariablesTyped, Loads
<1>3. 0 \in 0 .. n /\ 1 \in 0 .. n /\ n \in 0 .. n
  BY <1>2
<1>4. WamrBase = WamrBase \cup Environments(0)
      /\ WamrBase \cup {R("environment", 0)} = WamrBase \cup Environments(1)
  BY NextObject, <1>2
<1>5. CASE load.stage = "idle"
  BY <1>1, <1>3, <1>5 DEF WamrHeld, WamrObjects
<1>6. CASE load.stage # "idle"
  <2>1. /\ Progress(cur, img, load.stage, load.i)
        /\ load.i \in Nat /\ load.i < n
    BY <1>6, Loading
  <2>2. load.stage \notin {"resolve", "build", "image", "library", "compile", "runner",
                           "native_symbols", "divide", "slices"}
    BY <2>1 DEF Progress, Untouched
  <2>3. load.i \in 0 .. n
    BY <1>2, <2>1
  <2> HIDE DEF n
  <2>4. CASE load.stage \in {"load", "undo_image", "instantiate", "undo_module", "objects",
                             "undo_runners"}
    BY <1>1, <2>4 DEF WamrHeld, WamrObjects, n
  <2>5. CASE load.stage \in {"environment", "symbols", "memory", "tls", "blank", "register",
                             "failed"}
    BY <1>1, <1>3, <2>3, <2>5 DEF WamrHeld, WamrObjects, n
  <2>6. CASE load.stage \in {"undo_children", "undo_main"}
    <3>1. \/ held \in {Opened, Running}
          \/ \E k \in 0 .. n : held = WamrBase \cup Environments(k)
      <4>1. CASE load.stage = "undo_children"
        BY <1>1, <4>1 DEF WamrHeld
      <4>2. CASE load.stage = "undo_main"
        <5>1. held \in {Opened, Running, WamrBase, WamrBase \cup {R("environment", 0)}}
          BY <1>1, <4>2 DEF WamrHeld
        <5>2. QED
          BY <1>3, <1>4, <5>1
      <4>3. QED
        BY <2>6, <4>1, <4>2
    <3>2. QED
      BY <3>1 DEF WamrObjects, n
  <2>7. QED
    BY <1>2, <1>6, <2>2, <2>4, <2>5, <2>6 DEF Stages, n
<1>7. QED
  BY <1>5, <1>6

LEMMA TranslatedShape ==
  ASSUME Base, HeldInOrder, ctx # <<>>, cur.type = "translated"
  PROVE  TranslatedObjects(held, cur.count)
<1> DEFINE n == cur.count
<1>1. TranslatedHeld(held, load.stage, load.i, n)
  BY DEF HeldInOrder
<1>2. n \in Nat \ {0} /\ load.stage \in Stages
  BY CurrentFields, RecordFields DEF Base, VariablesTyped, Loads
<1>3. n \in 0 .. n
  BY <1>2
<1>4. CASE load.stage = "idle"
  BY <1>1, <1>3, <1>4 DEF TranslatedHeld, TranslatedObjects
<1>5. CASE load.stage # "idle"
  <2>1. /\ Progress(cur, img, load.stage, load.i)
        /\ load.i \in Nat /\ load.i < n
    BY <1>5, Loading
  <2>2. load.stage \notin {"resolve", "build", "image", "library", "compile", "runner",
                           "load", "instantiate", "objects", "environment", "symbols",
                           "undo_children", "undo_main", "undo_module", "undo_image"}
    BY <2>1 DEF Progress, Untouched
  <2>3. load.i \in 0 .. n
    BY <1>2, <2>1
  <2> HIDE DEF n
  <2>4. CASE load.stage \in {"native_symbols", "divide", "slices", "memory", "tls", "blank",
                             "register", "undo_runners", "failed"}
    BY <1>1, <1>3, <2>3, <2>4 DEF TranslatedHeld, TranslatedObjects, n
  <2>5. QED
    BY <1>2, <1>5, <2>2, <2>4 DEF Stages, n
<1>6. QED
  BY <1>4, <1>5

(* The kinds of these objects.                                             *)
LEMMA ObjectKinds ==
  ASSUME NEW n \in Nat
  PROVE  /\ \A h \in WamrBase : h.kind \in {"image", "module", "instance", "runners"}
         /\ \A h \in TranslatedBase : h.kind \in {"library", "instance", "runners"}
         /\ \A h \in TranslatedBase : h.kind = "instance" => h = R("instance", 0)
         /\ \A h \in Environments(n) : h.kind = "environment"
         /\ \A h \in Instances(n) : h.kind = "instance"
<1>1. \A kind, i : R(kind, i).kind = kind
  BY DEF R
<1>2. /\ \A h \in Environments(n) : h.kind = "environment"
      /\ \A h \in Instances(n) : h.kind = "instance"
  BY <1>1 DEF Environments, Instances
<1>3. \A h \in WamrBase : h.kind \in {"image", "module", "instance", "runners"}
  BY <1>1 DEF WamrBase, Running, Opened
<1>4. /\ \A h \in TranslatedBase : h.kind \in {"library", "instance", "runners"}
      /\ \A h \in TranslatedBase : h.kind = "instance" => h = R("instance", 0)
  BY <1>1 DEF TranslatedBase, Translation
<1>5. QED
  BY <1>2, <1>3, <1>4

LEMMA WamrOrdered ==
  ASSUME NEW n \in Nat, NEW objects, WamrObjects(objects, n)
  PROVE  /\ \A h \in objects :
              /\ h.kind = "environment" =>
                   {R("instance", 0), R("runners", 0), R("environment", 0)} \subseteq objects
              /\ h.kind = "instance" => R("module", 0) \in objects
              /\ h.kind = "module" => R("image", 0) \in objects
         /\ objects = WamrBase \cup Environments(n) =>
              Cardinality({h \in objects : h.kind = "environment"}) = n
<1>1. \A kind, i : R(kind, i).kind = kind
  BY DEF R
<1>2. CASE objects \in {{}, {R("image", 0)}, Opened, Running, Opened \cup {R("runners", 0)}}
  <2>1. /\ \A h \in objects : h.kind \in {"image", "module", "instance", "runners"}
        /\ \A h \in objects : h.kind = "instance" => objects = Running
        /\ \A h \in objects : h.kind = "module" => R("image", 0) \in objects
    <3>1. \A h \in Opened : h.kind \in {"image", "module"}
      BY <1>1 DEF Opened
    <3>2. \A h \in Running : h.kind \in {"image", "module", "instance"}
      BY <1>1, <3>1 DEF Running
    <3>3. \A h \in Opened \cup {R("runners", 0)} : h.kind \in {"image", "module", "runners"}
      BY <1>1, <3>1
    <3>4. R("image", 0) \in Opened /\ R("image", 0) \in Running
      BY DEF Opened, Running
    <3>5. \A h \in {R("image", 0)} : h.kind = "image"
      BY <1>1
    <3>6. QED
      BY <1>2, <3>1, <3>2, <3>3, <3>4, <3>5
  <2>2. objects # WamrBase \cup Environments(n) \/ n = 0
    <3>1. \A h \in objects : h.kind # "environment"
      BY <2>1
    <3>2. n # 0 => R("environment", 0) \in Environments(n)
      BY ObjectsOf
    <3>3. QED
      BY <1>1, <3>1, <3>2
  <2>3. n = 0 => Cardinality({h \in objects : h.kind = "environment"}) = 0
    <3>1. {h \in objects : h.kind = "environment"} = {}
      BY <2>1
    <3>2. QED
      BY <3>1, FS_EmptySet
  <2>4. R("module", 0) \in Running
    BY DEF Running, Opened
  <2>5. QED
    BY <2>1, <2>2, <2>3, <2>4
<1>3. ASSUME NEW k \in 0 .. n, objects = WamrBase \cup Environments(k)
      PROVE  \A h \in objects :
               /\ h.kind = "environment" =>
                    {R("instance", 0), R("runners", 0), R("environment", 0)} \subseteq objects
               /\ h.kind = "instance" => R("module", 0) \in objects
               /\ h.kind = "module" => R("image", 0) \in objects
  <2>1. WamrBase = {R("image", 0), R("module", 0), R("instance", 0), R("runners", 0)}
    BY DEF WamrBase, Running, Opened
  <2>2. ASSUME NEW h \in objects, h.kind = "environment"
        PROVE  R("environment", 0) \in objects
    <3>1. k \in Nat
      OBVIOUS
    <3>2. h \in Environments(k)
      BY <1>3, <2>2, <3>1, ObjectKinds
    <3>3. PICK j \in 0 .. k - 1 : h = R("environment", j)
      BY <3>1, <3>2, ObjectsOf
    <3>4. 0 \in 0 .. k - 1
      BY <3>1, <3>3
    <3>5. R("environment", 0) \in Environments(k)
      BY <3>1, <3>4, ObjectsOf
    <3>6. QED
      BY <1>3, <3>5
  <2>3. QED
    BY <1>3, <2>1, <2>2
<1>4. ASSUME objects = WamrBase \cup Environments(n)
      PROVE  Cardinality({h \in objects : h.kind = "environment"}) = n
  <2>1. {h \in objects : h.kind = "environment"} = Environments(n)
    BY <1>4, ObjectKinds
  <2>2. Cardinality(Environments(n)) = n
    BY IndexedObjects DEF Environments
  <2>3. QED
    BY <2>1, <2>2
<1>5. QED
  BY <1>2, <1>3, <1>4 DEF WamrObjects

LEMMA TranslatedOrdered ==
  ASSUME NEW n \in Nat \ {0}, NEW objects, TranslatedObjects(objects, n)
  PROVE  /\ \A h \in objects :
              /\ h.kind \in {"library", "instance", "runners"}
              /\ h.kind = "instance" => {R("library", 0), R("instance", 0)} \subseteq objects
         /\ objects = TranslatedBase \cup Instances(n) =>
              Cardinality({h \in objects : h.kind = "instance"}) = n
<1>1. \A kind, i : R(kind, i).kind = kind
  BY DEF R
<1>2. CASE objects \in {{R("library", 0)}, Translation}
  <2>1. \A h \in objects : /\ h.kind \in {"library", "instance"}
                           /\ h.kind = "instance" => objects = Translation
    BY <1>1, <1>2 DEF Translation
  <2>2. Translation # TranslatedBase \cup Instances(n)
    <3>1. \A h \in Translation : h.kind # "runners"
      BY <1>1 DEF Translation
    <3>2. R("runners", 0) \in TranslatedBase
      BY DEF TranslatedBase
    <3>3. QED
      BY <1>1, <3>1, <3>2
  <2>3. {R("library", 0)} # TranslatedBase \cup Instances(n)
    <3>1. R("runners", 0) \in TranslatedBase
      BY DEF TranslatedBase
    <3>2. R("runners", 0) # R("library", 0)
      BY ObjectsDiffer
    <3>3. QED
      BY <3>1, <3>2
  <2>4. QED
    BY <1>2, <2>1, <2>2, <2>3 DEF Translation
<1>3. ASSUME NEW k \in 0 .. n, objects = TranslatedBase \cup Instances(k)
      PROVE  \A h \in objects :
               /\ h.kind \in {"library", "instance", "runners"}
               /\ h.kind = "instance" => {R("library", 0), R("instance", 0)} \subseteq objects
  <2>1. k \in Nat
    OBVIOUS
  <2>2. {R("library", 0), R("instance", 0)} \subseteq TranslatedBase
    BY DEF TranslatedBase, Translation
  <2>3. QED
    BY <1>3, <2>1, <2>2, ObjectKinds
<1>4. ASSUME objects = TranslatedBase \cup Instances(n)
      PROVE  Cardinality({h \in objects : h.kind = "instance"}) = n
  <2>1. 0 \in 0 .. n - 1 /\ n \in Nat
    OBVIOUS
  <2>2. R("instance", 0) \in Instances(n)
    BY <2>1, ObjectsOf
  <2>3. {h \in objects : h.kind = "instance"} = Instances(n)
    BY <1>4, <2>1, <2>2, ObjectKinds
  <2>4. Cardinality(Instances(n)) = n
    BY <2>1, IndexedObjects DEF Instances
  <2>5. QED
    BY <2>3, <2>4
<1>5. QED
  BY <1>2, <1>3, <1>4 DEF TranslatedObjects

(* Whatever step of whatever initialisation fails, children are released   *)
(* before what they depend on, a backend that gives up keeps none of its   *)
(* objects, or all if it had finished, and only the module that is being   *)
(* loaded may be invalid (wahe_wamr.c:420-454, wahe_core.c:1704-1725).     *)
THEOREM NothingLeaks ==
  Spec => []CleanedUp
<1>1. ASSUME Sound, HeldInOrder
      PROVE  CleanedUp
  <2>1. Base
    BY <1>1 DEF Sound
  <2>2. \A kind, i : R(kind, i).kind = kind
    BY DEF R
  <2>3. \A m \in DOMAIN ctx : ctx[m].valid \/ (m = Len(ctx) /\ load # Idle)
    <3>1. DOMAIN ctx = 1 .. Len(ctx) /\ Len(ctx) \in Nat
      BY <2>1, CurrentFields DEF Base
    <3>2. \A n \in Nat : \A m \in 1 .. n : m < n \/ m = n
      OBVIOUS
    <3>3. \A m \in 1 .. Len(ctx) : m < Len(ctx) \/ m = Len(ctx)
      BY <3>1, <3>2
    <3>4. QED
      BY <2>1, <3>1, <3>3 DEF Base, LoadInStage, Loaded, Ready
  <2>4. CASE ctx = <<>>
    <3>1. held = {} /\ load.stage = "idle"
      BY <1>1, <2>1, <2>4 DEF HeldInOrder, Base, LoadInStage, Idle
    <3>2. QED
      BY <2>3, <3>1 DEF CleanedUp
  <2>5. CASE ctx # <<>>
    <3>1. cur.count \in Nat \ {0} /\ cur.type \in Types
      BY <2>1, <2>5, CurrentFields, RecordFields DEF Base
    <3>2. CASE cur.type \in {"none", "wasmtime"}
      <4>1. held = {}
        BY <1>1, <2>5, <3>2 DEF HeldInOrder
      <4>2. QED
        BY <2>3, <3>2, <4>1 DEF CleanedUp
    <3>3. CASE cur.type = "native"
      <4>1. held = {R("library", 0)}
        BY <1>1, <2>5, <3>3 DEF HeldInOrder
      <4>2. \A h \in held : h.kind = "library"
        BY <2>2, <4>1
      <4>3. QED
        BY <2>3, <3>3, <4>2 DEF CleanedUp
    <3>4. CASE cur.type = "wamr"
      <4>1. WamrObjects(held, cur.count)
        BY <1>1, <2>1, <2>5, <3>4, WamrShape
      <4>2. load.stage \in {"failed", "register"} =>
              held = {} \/ held = WamrBase \cup Environments(cur.count)
        BY <1>1, <2>5, <3>4 DEF HeldInOrder, WamrHeld
      <4>3. QED
        BY <2>3, <3>1, <3>4, <4>1, <4>2, WamrOrdered DEF CleanedUp
    <3>5. CASE cur.type = "translated"
      <4>1. TranslatedObjects(held, cur.count)
        BY <1>1, <2>1, <2>5, <3>5, TranslatedShape
      <4>2. load.stage \in {"failed", "register"} =>
              \/ held \subseteq {R("library", 0), R("instance", 0)}
              \/ held = TranslatedBase \cup Instances(cur.count)
        BY <1>1, <2>5, <3>5 DEF HeldInOrder, TranslatedHeld, Translation
      <4>3. \A h \in held : h.kind # "environment" /\ h.kind # "module"
        BY <3>1, <4>1, TranslatedOrdered
      <4>4. QED
        BY <2>3, <3>1, <3>5, <4>1, <4>2, <4>3, TranslatedOrdered DEF CleanedUp
    <3>6. QED
      BY <3>1, <3>2, <3>3, <3>4, <3>5 DEF Types
  <2>6. QED
    BY <2>4, <2>5
<1>2. QED
  BY <1>1, AlwaysSound, AlwaysHeldInOrder, PTL

-----------------------------------------------------------------------------
(* The choice between a runtime and a translation.                         *)

Resolving == ResolveDeclined \/ ResolveCached \/ ResolveBuild

(* Where a module with the record c runs.                                  *)
RunsAsAsked(c) ==
  LET im    == Image[c.image]
      wants == \/ c.backend = "native"
               \/ c.backend = "default" /\ c.wide = "always"
               \/ c.backend = "default" /\ ~has_runtime /\ c.wide # "off"
      kept  == /\ c.backend # "native" /\ has_runtime
               /\ IsMemory64(c.image)
  IN  im.wasm =>
        /\ c.translated => /\ c.backend # "sandboxed" /\ ~kept
                           /\ c.backend = "native" \/ c.wide # "off"
        /\ c.waited => wants
        /\ wants /\ ~kept /\ host.wasm2native /\ host.translator = "whole"
             /\ im.translatable => c.translated

LEMMA AskedRecords ==
  TranslationAsAsked <=>
    \A m \in DOMAIN ctx :
      (m < Len(ctx) \/ load.stage \notin {"resolve", "build"}) => RunsAsAsked(ctx[m])
  BY DEF TranslationAsAsked, RunsAsAsked

(* Once it is made for a module the choice is not touched again.           *)
SameChoice(r) ==
  /\ r.image = cur.image /\ r.backend = cur.backend /\ r.wide = cur.wide
  /\ r.translated = cur.translated /\ r.waited = cur.waited

LEMMA ChoiceStands ==
  ASSUME Base, InitStep, ~Resolving
  PROVE  /\ \E r : (SetCtx(r) \/ (ctx' = ctx /\ r = cur)) /\ SameChoice(r)
         /\ load.stage \notin {"resolve", "build"}
         /\ load'.stage \notin {"resolve", "build"}
<1>1. load.stage # "idle" /\ cur \in ModuleRecord
  BY InitLoads, Loading
<1> DEFINE Goal == \E r : (SetCtx(r) \/ (ctx' = ctx /\ r = cur)) /\ SameChoice(r)
<1>2. ctx' = ctx => Goal
  BY DEF SameChoice
<1>3. ASSUME NEW r, SetCtx(r), SameChoice(r)
      PROVE  Goal
  BY <1>3
<1> HIDE DEF Goal
<1>4. /\ load.stage \notin {"resolve", "build"}
      /\ \/ Again \/ load' = Idle \/ load' = load \/ \E i : Loop("tls", i)
         \/ \E stage : Goto(stage) /\ stage \notin {"resolve", "build"}
  <2>1. CASE ReadImage \/ NoRuntime \/ Compile \/ InitWasmtimeRunner
    BY <2>1 DEF ReadImage, NoRuntime, Compile, InitWasmtimeRunner, At
  <2>2. CASE LoadImage \/ Instantiate \/ AllocateRunners \/ CreateEnvironment
    BY <2>2 DEF LoadImage, Instantiate, AllocateRunners, CreateEnvironment, At
  <2>3. CASE DestroyChildren \/ DestroyMain \/ ReleaseRunners \/ UnloadModule \/ FreeImage
             \/ ReleaseInstances
    BY <2>3 DEF DestroyChildren, DestroyMain, ReleaseRunners, UnloadModule, FreeImage,
                ReleaseInstances, At
  <2>4. CASE OpenLibrary \/ NativeSymbols \/ DivideStack
    BY <2>4 DEF OpenLibrary, NativeSymbols, DivideStack, At
  <2>5. CASE TranslatedRunner
    <3>1. load.i \in Nat /\ cur.count \in Nat
      BY <1>1, Loading
    <3>2. Again \/ Loop("tls", 1) \/ Goto("memory")
      <4>1. CASE load.i + 1 < cur.count
        BY <2>5, <3>1, <4>1 DEF TranslatedRunner
      <4>2. CASE ~(load.i + 1 < cur.count)
        BY <2>5, <3>1, <4>2 DEF TranslatedRunner
      <4>3. QED
        BY <4>1, <4>2
    <3>3. QED
      BY <2>5, <3>2 DEF TranslatedRunner, At
  <2>6. CASE RuntimeSymbols \/ InitMemory \/ InitTls
    BY <2>6 DEF RuntimeSymbols, InitMemory, InitTls, AfterTls, At
  <2>7. CASE StepFails \/ TlsRefused
    <3>1. UndoStage \notin {"resolve", "build"}
      BY DEF UndoStage
    <3>2. QED
      BY <2>7, <3>1 DEF StepFails, TlsRefused, Fallible, At
  <2>8. CASE BlankStack
    <3>1. Goto("register") \/ Goto("failed")
      BY <2>8 DEF BlankStack
    <3>2. QED
      BY <2>8, <3>1 DEF BlankStack, At
  <2>9. CASE RegisterModule
    BY <2>9 DEF RegisterModule, At
  <2>10. QED
    BY <2>1, <2>2, <2>3, <2>4, <2>5, <2>6, <2>7, <2>8, <2>9 DEF InitStep, Resolving
<1>5. load'.stage \notin {"resolve", "build"}
  BY <1>4, StageNext DEF Idle
<1>6. Goal
  <2>1. CASE ReadImage
    <3> DEFINE type == IF info.found THEN host.runtime ELSE "none"
               base == ReadStackPointer(img.binary)
               shares == info.found /\ info.shared
               safe == info.found /\ MemorySafe
               r == [cur EXCEPT !.type = type, !.stack_base = base,
                                !.shares = shares, !.memory_safe = safe]
    <3>1. SetCtx(r)
      BY <2>1 DEF ReadImage
    <3> HIDE DEF type, base, shares, safe
    <3>2. SameChoice(r)
      BY <1>1 DEF SameChoice, ModuleRecord
    <3>3. QED
      BY <1>3, <3>1, <3>2
  <2>2. CASE InitWasmtimeRunner
    <3> DEFINE base == StackBaseOf(load.i)
               stacks == Append(cur.stacks, StackOf(base, load.i))
               writes == IF load.i = 0 \/ ~OnlyPassiveData(img.binary)
                         THEN cur.writes + 1 ELSE cur.writes
               r == [cur EXCEPT !.stack_base = base, !.stacks = stacks,
                                !.writes = writes]
    <3>1. SetCtx(r) \/ SetCtx([r EXCEPT !.stacks = cur.stacks])
      BY <2>2 DEF InitWasmtimeRunner
    <3> HIDE DEF base, stacks, writes
    <3>2. SameChoice(r) /\ SameChoice([r EXCEPT !.stacks = cur.stacks])
      BY <1>1 DEF SameChoice, ModuleRecord
    <3>3. QED
      BY <1>3, <3>1, <3>2
  <2>3. CASE Instantiate
    <3> DEFINE r == [cur EXCEPT !.writes = cur.writes + 1]
    <3>1. SetCtx(r)
      BY <2>3 DEF Instantiate
    <3>2. SameChoice(r)
      BY <1>1 DEF SameChoice, ModuleRecord
    <3>3. QED
      BY <1>3, <3>1, <3>2
  <2>4. CASE CreateEnvironment
    <3> DEFINE stacks == Append(cur.stacks, IF load.i = 0 THEN LinkedStack
                                                          ELSE AuxStack(load.i))
               r == [cur EXCEPT !.stacks = stacks]
    <3>1. SetCtx(r) \/ ctx' = ctx
      BY <2>4 DEF CreateEnvironment
    <3> HIDE DEF stacks
    <3>2. SameChoice(r)
      BY <1>1 DEF SameChoice, ModuleRecord
    <3>3. QED
      BY <1>2, <1>3, <3>1, <3>2
  <2>5. CASE OpenLibrary
    <3> DEFINE type == IF cur.translated THEN "translated" ELSE "native"
               r == [cur EXCEPT !.type = type]
    <3>1. SetCtx(r) \/ ctx' = ctx
      BY <2>5 DEF OpenLibrary
    <3> HIDE DEF type
    <3>2. SameChoice(r)
      BY <1>1 DEF SameChoice, ModuleRecord
    <3>3. QED
      BY <1>2, <1>3, <3>1, <3>2
  <2>6. CASE NativeSymbols
    <3> DEFINE base == IF "__stack_pointer" \in img.exports THEN img.stack_top ELSE 0
               shares == info.shared
               writes == cur.writes + 1
               end == LinkedDataEnd
               r1 == [cur EXCEPT !.valid = TRUE]
               r2 == [cur EXCEPT !.valid = TRUE, !.writes = writes, !.shares = shares,
                                 !.stack_base = base, !.data_end = end]
    <3>1. SetCtx(r1) \/ SetCtx(r2)
      BY <2>6 DEF NativeSymbols
    <3> HIDE DEF base, shares, writes, end
    <3>2. SameChoice(r1) /\ SameChoice(r2)
      BY <1>1 DEF SameChoice, ModuleRecord
    <3>3. QED
      BY <1>3, <3>1, <3>2
  <2>7. CASE TranslatedRunner
    <3> DEFINE stacks == Append(cur.stacks, StackOf(cur.stack_base, load.i))
               r == [cur EXCEPT !.stacks = stacks]
    <3>1. SetCtx(r)
      BY <2>7 DEF TranslatedRunner
    <3> HIDE DEF stacks
    <3>2. SameChoice(r)
      BY <1>1 DEF SameChoice, ModuleRecord
    <3>3. QED
      BY <1>3, <3>1, <3>2
  <2>8. CASE RuntimeSymbols
    <3> DEFINE end == LinkedDataEnd
               r == [cur EXCEPT !.valid = TRUE, !.data_end = end]
    <3>1. SetCtx(r)
      BY <2>8 DEF RuntimeSymbols
    <3> HIDE DEF end
    <3>2. SameChoice(r)
      BY <1>1 DEF SameChoice, ModuleRecord
    <3>3. QED
      BY <1>3, <3>1, <3>2
  <2>9. CASE InitTls
    <3>1. PICK addr :
            LET size == AllocationSize(img.tls_size, img.tls_align)
                c == [cur EXCEPT !.blanked = @ \cup AuxBlanked(load.i)]
            IN  SetCtx(IF ~NeedsTls THEN c
                       ELSE [c EXCEPT
                               !.heap = addr + size,
                               !.tls = Append(@, AlignedBlock(addr, img.tls_size,
                                                              img.tls_align))])
      BY <2>9 DEF InitTls
    <3> DEFINE blanked == cur.blanked \cup AuxBlanked(load.i)
               c == [cur EXCEPT !.blanked = blanked]
               heap == addr + AllocationSize(img.tls_size, img.tls_align)
               tls == Append(c.tls, AlignedBlock(addr, img.tls_size, img.tls_align))
               d == [c EXCEPT !.heap = heap, !.tls = tls]
    <3>2. SetCtx(c) \/ SetCtx(d)
      BY <3>1
    <3> HIDE DEF blanked, heap, tls
    <3>3. SameChoice(c) /\ SameChoice(d)
      BY <1>1 DEF SameChoice, ModuleRecord
    <3>4. QED
      BY <1>3, <3>2, <3>3
  <2>10. CASE StepFails \/ TlsRefused
    <3> DEFINE r == [cur EXCEPT !.valid = FALSE]
    <3>1. SetCtx(r)
      BY <2>10 DEF StepFails, TlsRefused
    <3>2. SameChoice(r)
      BY <1>1 DEF SameChoice, ModuleRecord
    <3>3. QED
      BY <1>3, <3>1, <3>2
  <2>11. CASE BlankStack
    <3> DEFINE blanked == cur.blanked \cup {BlankedRegion(cur.stack_base, cur.data_end)}
               r1 == [cur EXCEPT !.valid = FALSE]
               r2 == [cur EXCEPT !.blanked = blanked]
    <3>1. SetCtx(r1) \/ SetCtx(r2) \/ ctx' = ctx
      BY <2>11 DEF BlankStack
    <3> HIDE DEF blanked
    <3>2. SameChoice(r1) /\ SameChoice(r2)
      BY <1>1 DEF SameChoice, ModuleRecord
    <3>3. QED
      BY <1>2, <1>3, <3>1, <3>2
  <2>12. CASE RegisterModule
    <3> DEFINE name == load.name
               r == [cur EXCEPT !.name = name]
    <3>1. SetCtx(r)
      BY <2>12 DEF RegisterModule
    <3> HIDE DEF name
    <3>2. SameChoice(r)
      BY <1>1 DEF SameChoice, ModuleRecord
    <3>3. QED
      BY <1>3, <3>1, <3>2
  <2>13. CASE \/ NoRuntime \/ Compile \/ LoadImage \/ AllocateRunners \/ DestroyChildren
              \/ DestroyMain \/ ReleaseRunners \/ UnloadModule \/ FreeImage \/ DivideStack
              \/ ReleaseInstances \/ InitMemory
    BY <1>2, <2>13 DEF NoRuntime, Compile, LoadImage, AllocateRunners, DestroyChildren,
         DestroyMain, ReleaseRunners, UnloadModule, FreeImage, DivideStack,
         ReleaseInstances, InitMemory
  <2>14. QED
    BY <2>1, <2>2, <2>3, <2>4, <2>5, <2>6, <2>7, <2>8, <2>9, <2>10, <2>11, <2>12, <2>13
       DEF InitStep, Resolving
<1>7. QED
  BY <1>4, <1>5, <1>6 DEF Goal

(* The mode does not change while a module is being loaded.                *)
LEMMA ModeStands ==
  ASSUME Base, host' = host, settings' \in {settings, Chosen}
  PROVE  CurrentMode' = CurrentMode
<1>1. settings \in [mode_set : BOOLEAN, mode : Modes, cache_dir : Dirs \cup {DefaultDir}]
  BY DEF Base, VariablesTyped
<1>2. CASE settings' = settings
  BY <1>2 DEF CurrentMode
<1>3. CASE settings' = Chosen
  <2> DEFINE mode == CurrentMode
  <2>1. settings' = [settings EXCEPT !.mode_set = TRUE, !.mode = mode]
    BY <1>3 DEF Chosen
  <2> HIDE DEF mode
  <2>2. settings'.mode_set = TRUE /\ settings'.mode = mode
    BY <1>1, <2>1
  <2>3. CurrentMode' = mode
    BY <2>2 DEF CurrentMode
  <2>4. QED
    BY <2>3 DEF mode
<1>4. QED
  BY <1>2, <1>3

LEMMA ChoiceRespected ==
  ASSUME NEW c, c.backend \in Backends, c.wide = CurrentMode,
         \/ /\ StaysInRuntime(c.image, c.backend)
            /\ ~c.translated /\ ~c.waited
         \/ /\ ~StaysInRuntime(c.image, c.backend)
            /\ c.waited => ModeFor(c.backend) = "always"
            /\ host.translator = "whole" /\ ModeFor(c.backend) = "always"
                 /\ Image[c.image].translatable => c.translated
  PROVE  RunsAsAsked(c)
<1>1. CASE c.backend = "native"
  BY <1>1 DEF RunsAsAsked, StaysInRuntime, ModeFor
<1>2. CASE c.backend = "sandboxed"
  BY <1>2 DEF RunsAsAsked, StaysInRuntime, ModeFor
<1>3. CASE c.backend = "default"
  BY <1>3 DEF RunsAsAsked, StaysInRuntime, ModeFor
<1>4. QED
  BY <1>1, <1>2, <1>3 DEF Backends

(* One attempt to load the translator tells whether it can be used.        *)
LEMMA TranslatorKnown ==
  ASSUME Base, ChoiceKept
  PROVE  host.translator = "whole" => LibraryLoaded
  BY DEF ChoiceKept, LibraryLoaded, Base, VariablesTyped

(* What the steps that choose leave behind.                                *)
LEMMA ChoiceMade ==
  ASSUME Base, ChoiceKept, Resolving
  PROVE  /\ host' = host /\ settings' \in {settings, Chosen} /\ load'.backend = load.backend
         /\ lib' = "absent" => host.translator # "whole"
         /\ \E r : /\ SetCtx(r)
                   /\ r.image = cur.image /\ r.backend = cur.backend /\ r.wide = cur.wide
                   /\ load'.stage # "resolve"
                   /\ load'.stage # "build" => RunsAsAsked(r)
                   /\ load'.stage = "build" =>
                        /\ ~r.translated /\ ~r.waited
                        /\ img.wasm /\ ~StaysInRuntime(cur.image, load.backend)
                        /\ r.mode = ModeFor(load.backend) /\ r.mode # "cached"
<1>1. InitStep /\ load.stage \in {"resolve", "build"}
  BY DEF InitStep, Resolving, ResolveDeclined, ResolveCached, ResolveBuild, At
<1>2. /\ cur \in ModuleRecord /\ cur.backend = load.backend /\ cur.wide = CurrentMode
      /\ ~cur.translated /\ ~cur.waited /\ cur.backend \in Backends
      /\ lib = "absent" => host.translator # "whole"
      /\ img = Image[cur.image]
  BY <1>1, Loading, RecordFields DEF ChoiceKept
<1>3. \A stage : Goto(stage) => load'.stage = stage /\ load'.backend = load.backend
  BY DEF Goto, Base, VariablesTyped, Loads
<1>4. \A translated : OpeningStage(translated) \notin {"resolve", "build"}
  BY DEF OpeningStage
<1>5. CASE ResolveDeclined
  <2> DEFINE mode == IF host.wasm2native THEN ModeFor(load.backend) ELSE "off"
             r == [cur EXCEPT !.mode = mode]
  <2>1. SetCtx(r) /\ Goto(OpeningStage(FALSE))
    BY <1>5 DEF ResolveDeclined
  <2> HIDE DEF mode
  <2>2. /\ r.image = cur.image /\ r.backend = cur.backend /\ r.wide = cur.wide
        /\ r.translated = cur.translated /\ r.waited = cur.waited
    BY <1>2 DEF ModuleRecord
  <2> HIDE DEF r
  <2>3. RunsAsAsked(r)
    <3>1. CASE img.wasm
      <4>1. StaysInRuntime(cur.image, load.backend)
        BY <1>5, <3>1 DEF ResolveDeclined, DeclineTranslation
      <4>2. QED
        BY <1>2, <2>2, <4>1, ChoiceRespected
    <3>2. CASE ~img.wasm
      BY <1>2, <2>2, <3>2 DEF RunsAsAsked
    <3>3. QED
      BY <3>1, <3>2
  <2>4. host' = host /\ settings' \in {settings, Chosen} /\ lib' = lib
    BY <1>5 DEF ResolveDeclined, DeclineTranslation, translationVars
  <2>5. load'.stage \notin {"resolve", "build"} /\ load'.backend = load.backend
    BY <1>3, <1>4, <2>1
  <2>6. QED
    BY <1>2, <2>1, <2>2, <2>3, <2>4, <2>5
<1>6. CASE ResolveCached
  <2> DEFINE mode == ModeFor(load.backend)
             translated == Translated(cur.image)
             r == [cur EXCEPT !.translated = translated, !.mode = mode]
             stage == CASE translated -> OpeningStage(TRUE)
                        [] ~LibraryLoaded \/ mode = "cached" -> OpeningStage(FALSE)
                        [] OTHER -> "build"
  <2>1. /\ img.wasm /\ SetCtx(r) /\ Goto(stage)
        /\ ~StaysInRuntime(cur.image, load.backend)
        /\ settings' = Chosen /\ lib' = IF LibraryLoaded THEN "loaded" ELSE "absent"
        /\ host' = host
    BY <1>6 DEF ResolveCached, LookUpTranslation
  <2>2. translated \in BOOLEAN
    BY DEF Translated
  <2> DEFINE mode0 == mode
             translated0 == translated
  <2>3. r = [cur EXCEPT !.translated = translated0, !.mode = mode0]
    OBVIOUS
  <2>4. translated0 = translated /\ mode0 = mode /\ mode0 = ModeFor(load.backend)
    OBVIOUS
  <2> HIDE DEF mode0, translated0
  <2>5. /\ r.image = cur.image /\ r.backend = cur.backend /\ r.wide = cur.wide
        /\ r.translated = translated0 /\ r.waited = cur.waited /\ r.mode = mode0
    BY <1>2, <2>3 DEF ModuleRecord
  <2>6. stage # "resolve"
    <3>1. CASE translated
      BY <1>4, <3>1
    <3>2. CASE ~translated /\ (~LibraryLoaded \/ mode = "cached")
      BY <1>4, <3>2
    <3>3. CASE ~translated /\ ~(~LibraryLoaded \/ mode = "cached")
      BY <3>3
    <3>4. QED
      BY <2>2, <3>1, <3>2, <3>3
  <2>7. stage = "build" => ~translated /\ LibraryLoaded /\ mode # "cached"
    <3>1. CASE translated
      BY <1>4, <3>1
    <3>2. CASE ~translated /\ (~LibraryLoaded \/ mode = "cached")
      BY <1>4, <3>2
    <3>3. CASE ~translated /\ ~(~LibraryLoaded \/ mode = "cached")
      BY <3>3
    <3>4. QED
      BY <2>2, <3>1, <3>2, <3>3
  <2>8. stage # "build" => translated \/ ~LibraryLoaded \/ mode = "cached"
    BY <2>2
  <2> DEFINE stage0 == stage
  <2>9. Goto(stage0) /\ stage0 = stage
    BY <2>1
  <2> HIDE DEF stage0, r, translated, mode
  <2>10. load'.stage = stage0 /\ load'.backend = load.backend
    BY <1>3, <2>9
  <2>11. stage0 # "build" => RunsAsAsked(r)
    <3>1. ASSUME stage0 # "build"
          PROVE  RunsAsAsked(r)
      <4>1. \/ translated0 \/ host.translator # "whole"
            \/ ModeFor(load.backend) = "cached"
        BY <2>4, <2>8, <2>9, <3>1, TranslatorKnown
      <4>2. ~r.waited /\ r.backend = load.backend /\ r.wide = CurrentMode
            /\ r.backend \in Backends /\ r.image = cur.image
        BY <1>2, <2>5
      <4>3. host.translator = "whole" /\ ModeFor(r.backend) = "always" => r.translated
        BY <2>5, <4>1, <4>2
      <4>4. QED
        BY <2>1, <4>2, <4>3, ChoiceRespected
    <3>2. QED
      BY <3>1
  <2>12. lib' = "absent" => host.translator # "whole"
    BY <2>1, TranslatorKnown
  <2>13. stage0 = "build" => /\ ~r.translated /\ ~r.waited
                             /\ r.mode = ModeFor(load.backend) /\ r.mode # "cached"
    <3>1. stage0 = "build" => r.mode = ModeFor(load.backend) /\ r.mode # "cached"
      BY <2>4, <2>5, <2>7, <2>9
    <3>2. ~r.waited
      BY <1>2, <2>5
    <3>3. stage0 = "build" => ~translated
      BY <2>7, <2>9
    <3>4. r.translated = translated
      BY <2>4, <2>5
    <3>5. stage0 = "build" => ~r.translated
      BY <3>3, <3>4, Zenon
    <3>6. QED
      BY <3>1, <3>2, <3>5
  <2>14. QED
    BY <2>1, <2>5, <2>6, <2>9, <2>10, <2>11, <2>12, <2>13
<1>7. CASE ResolveBuild
  <2> DEFINE translated == cur.mode = "always" /\ img.translatable
             waited == cur.mode = "always"
             r == [cur EXCEPT !.translated = translated, !.waited = waited]
  <2>1. SetCtx(r) /\ Goto(OpeningStage(translated))
    BY <1>7 DEF ResolveBuild
  <2>2. load.stage = "build" /\ UNCHANGED <<host, settings, lib>>
    BY <1>7 DEF ResolveBuild, At, BuildNow, BuildInBackground
  <2>3. translated \in BOOLEAN /\ waited \in BOOLEAN
    OBVIOUS
  <2>4. /\ cur.mode = ModeFor(load.backend) /\ ~StaysInRuntime(cur.image, load.backend)
    BY <2>2 DEF ChoiceKept
  <2>5. /\ waited => ModeFor(load.backend) = "always"
        /\ ModeFor(load.backend) = "always" /\ img.translatable => translated
    BY <2>4
  <2> HIDE DEF translated, waited
  <2>6. /\ r.image = cur.image /\ r.backend = cur.backend /\ r.wide = cur.wide
        /\ r.translated = translated /\ r.waited = waited
    BY <1>2 DEF ModuleRecord
  <2> HIDE DEF r
  <2>7. RunsAsAsked(r)
    BY <1>2, <2>4, <2>5, <2>6, ChoiceRespected
  <2>8. load'.stage \notin {"resolve", "build"} /\ load'.backend = load.backend
    BY <1>3, <1>4, <2>1
  <2>9. QED
    BY <1>2, <2>1, <2>2, <2>6, <2>7, <2>8
<1>8. QED
  BY <1>5, <1>6, <1>7 DEF Resolving

LEMMA InitKeepsChoice ==
  ASSUME Base, ChoiceKept, TranslationAsAsked, InitStep
  PROVE  ChoiceKept' /\ TranslationAsAsked'
<1>1. /\ ctx' \in Seq(ModuleRecord) /\ Len(ctx') = Len(ctx) /\ Len(ctx) \in Nat \ {0}
      /\ DOMAIN ctx = 1 .. Len(ctx) /\ DOMAIN ctx' = 1 .. Len(ctx)
      /\ \A m \in 1 .. Len(ctx) - 1 : ctx'[m] = ctx[m]
      /\ host' = host /\ cur \in ModuleRecord /\ img = Image[cur.image]
      /\ Len(ctx) \in DOMAIN ctx
  BY OthersSpared, InitOutside, InitLoads, Loading, CurrentFields, ListFields DEF Base
<1>2. \A c : RunsAsAsked(c)' <=> RunsAsAsked(c)
  BY <1>1 DEF RunsAsAsked, has_runtime
<1>3. ASSUME NEW r, SetCtx(r) \/ (ctx' = ctx /\ r = cur)
      PROVE  cur' = r /\ ctx'[Len(ctx)] = r
  BY <1>1, <1>3 DEF SetCtx, cur
<1>4. ASSUME NEW r, SetCtx(r) \/ (ctx' = ctx /\ r = cur),
             load'.stage \notin {"resolve", "build"} => RunsAsAsked(r)
      PROVE  TranslationAsAsked'
  <2>1. ASSUME NEW m \in 1 .. Len(ctx),
               m < Len(ctx) \/ load'.stage \notin {"resolve", "build"}
        PROVE  RunsAsAsked(ctx'[m])
    <3>1. CASE m = Len(ctx)
      BY <1>3, <1>4, <2>1, <3>1, <1>1
    <3>2. CASE m # Len(ctx)
      <4>1. \A n \in Nat : m \in 1 .. n /\ m # n => m \in 1 .. n - 1 /\ m < n
        OBVIOUS
      <4>2. ctx'[m] = ctx[m] /\ m < Len(ctx)
        BY <1>1, <3>2, <4>1
      <4>3. RunsAsAsked(ctx[m])
        BY <1>1, <4>2, AskedRecords
      <4>4. QED
        BY <4>2, <4>3
    <3>3. QED
      BY <3>1, <3>2
  <2>2. \A m \in DOMAIN ctx' :
          (m < Len(ctx') \/ load'.stage \notin {"resolve", "build"}) => RunsAsAsked(ctx[m])'
    BY <1>1, <1>2, <2>1
  <2>3. TranslationAsAsked' <=>
          \A m \in DOMAIN ctx' :
            (m < Len(ctx') \/ load'.stage \notin {"resolve", "build"}) => RunsAsAsked(ctx[m])'
    BY DEF TranslationAsAsked, RunsAsAsked
  <2>4. QED
    BY <2>2, <2>3
<1>5. CASE Resolving
  <2>1. /\ settings' \in {settings, Chosen} /\ load'.backend = load.backend
        /\ lib' = "absent" => host.translator # "whole"
    BY <1>5, ChoiceMade
  <2>2. PICK r : /\ SetCtx(r)
                 /\ r.image = cur.image /\ r.backend = cur.backend /\ r.wide = cur.wide
                 /\ load'.stage # "resolve"
                 /\ load'.stage # "build" => RunsAsAsked(r)
                 /\ load'.stage = "build" =>
                      /\ ~r.translated /\ ~r.waited
                      /\ img.wasm /\ ~StaysInRuntime(cur.image, load.backend)
                      /\ r.mode = ModeFor(load.backend) /\ r.mode # "cached"
    BY <1>5, ChoiceMade
  <2>3. cur' = r /\ img' = img
    <3>1. cur' = r
      BY <1>3, <2>2
    <3>2. QED
      BY <1>1, <2>2, <3>1 DEF img
  <2>4. CurrentMode' = CurrentMode
    BY <1>1, <2>1, ModeStands
  <2>5. load.stage \in {"resolve", "build"}
    BY <1>5 DEF Resolving, ResolveDeclined, ResolveCached, ResolveBuild, At
  <2>6. cur.backend = load.backend /\ cur.wide = CurrentMode
    BY <2>5 DEF ChoiceKept
  <2>7. ChoiceKept'
    <3>1. load'.stage \in {"resolve", "build"} =>
            /\ cur'.backend = load'.backend /\ cur'.wide = CurrentMode'
            /\ ~cur'.translated /\ ~cur'.waited
      BY <2>1, <2>2, <2>3, <2>4, <2>6
    <3>2. load'.stage = "build" =>
            /\ img'.wasm /\ ~StaysInRuntime(cur'.image, load'.backend)
            /\ cur'.mode = ModeFor(load'.backend) /\ cur'.mode # "cached"
      BY <2>1, <2>2, <2>3
    <3>3. load'.stage = "build" =>
            /\ img'.wasm /\ ~StaysInRuntime(cur.image, load.backend)'
            /\ cur'.mode = ModeFor(load.backend)' /\ cur'.mode # "cached"
      <4>1. StaysInRuntime(cur.image, load.backend)' <=>
              StaysInRuntime(cur'.image, load'.backend)
        BY <1>1, <2>4 DEF StaysInRuntime, ModeFor, has_runtime
      <4>2. ModeFor(load.backend)' = ModeFor(load'.backend)
        BY <1>1, <2>4 DEF ModeFor, has_runtime
      <4>3. QED
        BY <3>2, <4>1, <4>2
    <3>4. QED
      BY <1>1, <2>1, <3>1, <3>3 DEF ChoiceKept
  <2>8. TranslationAsAsked'
    BY <1>4, <2>2
  <2>9. QED
    BY <2>7, <2>8
<1>6. CASE ~Resolving
  <2>1. PICK r : (SetCtx(r) \/ (ctx' = ctx /\ r = cur)) /\ SameChoice(r)
    BY <1>6, ChoiceStands
  <2>2. /\ load.stage \notin {"resolve", "build"}
        /\ load'.stage \notin {"resolve", "build"}
    BY <1>6, ChoiceStands
  <2>3. RunsAsAsked(cur)
    BY <1>1, <2>2, AskedRecords DEF cur
  <2>4. RunsAsAsked(r)
    BY <2>1, <2>3 DEF SameChoice, RunsAsAsked
  <2>5. TranslationAsAsked'
    BY <1>4, <2>1, <2>4
  <2>6. lib' = lib
    BY <1>6 DEF InitStep, Resolving, ReadImage, NoRuntime, Compile, InitWasmtimeRunner,
         LoadImage, Instantiate, AllocateRunners, CreateEnvironment, DestroyChildren,
         DestroyMain, ReleaseRunners, UnloadModule, FreeImage, OpenLibrary, NativeSymbols,
         DivideStack, TranslatedRunner, ReleaseInstances, RuntimeSymbols, InitMemory,
         InitTls, StepFails, TlsRefused, BlankStack, RegisterModule, translationVars
  <2>7. ChoiceKept'
    BY <1>1, <2>2, <2>6 DEF ChoiceKept
  <2>8. QED
    BY <2>5, <2>7
<1>7. QED
  BY <1>5, <1>6

LEMMA ModuleLineKeepsChoice ==
  ASSUME Base, ChoiceKept, TranslationAsAsked, ModuleLine
  PROVE  ChoiceKept' /\ TranslationAsAsked'
<1> DEFINE needed == Len(parse.symb_module) + 1
<1>1. /\ Parsing("module") /\ group \in Groups
      /\ Len(parse.symb_module) = Len(ctx) /\ Len(ctx) \in Nat
  BY LineFields DEF ModuleLine
<1>2. CASE UNCHANGED <<translationVars, initVars, group>>
  <2>1. /\ ctx' = ctx /\ load' = load /\ host' = host /\ settings' = settings /\ lib' = lib
    BY <1>2 DEF translationVars, initVars
  <2>2. QED
    BY <2>1 DEF ChoiceKept, TranslationAsAsked, cur, img, CurrentMode, StaysInRuntime,
                ModeFor, has_runtime
<1>3. CASE /\ needed <= ReserveCount
           /\ group' = WithSlots(needed)
           /\ Begin(line.path, line.runners, line.backend, line.name,
                    <<group'.reserved, needed>>)
  <2>1. group'.reserved \in Nat
    <3>1. needed \in Nat /\ needed > 0
      BY <1>1
    <3> HIDE DEF needed
    <3>2. group' \in Groups
      BY <1>1, <1>3, <3>1, SlotsGiven
    <3>3. QED
      BY <3>2 DEF Groups
  <2> DEFINE r == Fresh(line.path, line.runners, line.backend,
                        <<group'.reserved, Len(ctx) + 1>>)
             ld == [stage |-> "resolve", name |-> line.name, backend |-> line.backend,
                    runners |-> line.runners, i |-> 0]
  <2>2. /\ load = Idle /\ load' = ld /\ UNCHANGED translationVars
        /\ r.backend = line.backend /\ r.wide = CurrentMode
        /\ ~r.translated /\ ~r.waited
        /\ ctx' \in Seq(ModuleRecord) /\ Len(ctx') = Len(ctx) + 1
        /\ cur' = r /\ \A m \in 1 .. Len(ctx) : ctx'[m] = ctx[m]
    BY <1>1, <1>3, <2>1, ModuleBegins
  <2>3. ld.stage = "resolve" /\ ld.backend = line.backend
    OBVIOUS
  <2> HIDE DEF r, ld
  <2>4. ChoiceKept'
    <3>1. /\ host' = host /\ settings' = settings /\ lib' = lib
      BY <2>2 DEF translationVars
    <3>2. CurrentMode' = CurrentMode
      BY <3>1 DEF CurrentMode
    <3>3. QED
      BY <2>2, <2>3, <3>1, <3>2 DEF ChoiceKept
  <2>5. TranslationAsAsked'
    <3>1. ASSUME NEW m \in 1 .. Len(ctx) + 1, m < Len(ctx) + 1
          PROVE  RunsAsAsked(ctx'[m])
      <4>1. m \in 1 .. Len(ctx) /\ DOMAIN ctx = 1 .. Len(ctx)
        BY <1>1, <3>1, CurrentFields DEF Base
      <4>2. RunsAsAsked(ctx[m])
        BY <2>2, <4>1, AskedRecords DEF Idle
      <4>3. QED
        BY <2>2, <4>1, <4>2
    <3>2. host' = host /\ DOMAIN ctx' = 1 .. Len(ctx) + 1
      BY <2>2, ListFields DEF translationVars
    <3>3. \A c : RunsAsAsked(c)' <=> RunsAsAsked(c)
      BY <3>2 DEF RunsAsAsked, has_runtime
    <3>4. \A m \in DOMAIN ctx' :
            (m < Len(ctx') \/ load'.stage \notin {"resolve", "build"}) => RunsAsAsked(ctx[m])'
      BY <2>2, <2>3, <3>1, <3>2, <3>3
    <3>5. QED
      BY <3>4 DEF TranslationAsAsked, RunsAsAsked
  <2>6. QED
    BY <2>4, <2>5
<1>4. QED
  BY <1>2, <1>3 DEF ModuleLine

LEMMA NextKeepsChoice ==
  ASSUME Sound, ChoiceKept, TranslationAsAsked, [Next]_vars
  PROVE  ChoiceKept' /\ TranslationAsAsked'
<1>1. Base
  BY DEF Sound
<1>2. CASE UNCHANGED initVars /\ UNCHANGED <<host, settings, lib>>
  <2>1. ctx' = ctx /\ load' = load
    BY <1>2 DEF initVars
  <2>2. QED
    BY <1>2, <2>1 DEF ChoiceKept, TranslationAsAsked, cur, img, CurrentMode,
                      StaysInRuntime, ModeFor, has_runtime
<1>3. CASE HostStep
  <2>1. CASE \/ OpenFile \/ EndFile \/ ModuleOptionsInvalid \/ SendLine \/ ChainLine
             \/ OrderLine \/ ConnectionLine \/ ProcessorLine \/ GroupInit
    BY <1>2, <2>1 DEF OpenFile, EndFile, ModuleOptionsInvalid, SendLine, ChainLine,
         OrderLine, ConnectionLine, ProcessorLine, GroupInit, translationVars
  <2>2. CASE ModuleLine
    BY <1>1, <2>2, ModuleLineKeepsChoice
  <2>3. CASE HostSetsMode
    <3>1. /\ parse.il = 0 /\ UNCHANGED initVars /\ host' = host /\ lib' = lib
      BY <2>3 DEF HostSetsMode, SetMode
    <3>2. ctx' = ctx /\ load' = load /\ load = Idle
      BY <1>1, <3>1 DEF Base, FilesFollowed, initVars
    <3>3. QED
      BY <3>1, <3>2 DEF ChoiceKept, TranslationAsAsked, Idle, has_runtime
  <2>4. CASE InitStep
    BY <1>1, <2>4, InitKeepsChoice
  <2>5. QED
    BY <1>3, <2>1, <2>2, <2>3, <2>4 DEF HostStep
<1>4. CASE Restart
  <2>1. /\ ctx' = <<>> /\ load' = Idle /\ lib' = "untried" /\ DOMAIN <<>> = {}
    BY <1>4 DEF Restart, RestartTranslation
  <2>2. QED
    BY <2>1 DEF ChoiceKept, TranslationAsAsked, Idle
<1>5. CASE Background
  BY <1>2, <1>5 DEF Background, BackgroundBuildEnds
<1>6. CASE UNCHANGED vars
  BY <1>2, <1>6 DEF vars, translationVars
<1>7. QED
  BY <1>3, <1>4, <1>5, <1>6 DEF Next, Ended

(* In every launch, with whatever is in the cache, a sandboxed module or a *)
(* 64-bit one that has not asked for it is never translated on a host with *)
(* a runtime, only a module that has to be translated waits for a build,   *)
(* and one that has to be and can be is (wahe_wasm2native.c:191-256).      *)
THEOREM ChoiceIsAsAsked ==
  Spec => []TranslationAsAsked
<1>1. Init => ChoiceKept /\ TranslationAsAsked
  <2>1. ASSUME Init
        PROVE  ChoiceKept /\ TranslationAsAsked
    <3>1. /\ ctx = <<>> /\ load = Idle /\ lib = "untried" /\ DOMAIN <<>> = {}
      BY <2>1 DEF Init
    <3>2. QED
      BY <3>1 DEF ChoiceKept, TranslationAsAsked, Idle
  <2>2. QED
    BY <2>1
<1>2. Sound /\ ChoiceKept /\ TranslationAsAsked /\ [Next]_vars
        => ChoiceKept' /\ TranslationAsAsked'
  BY NextKeepsChoice
<1>3. QED
  BY <1>1, <1>2, AlwaysSound, PTL DEF Spec

-----------------------------------------------------------------------------
(* What is blanked.                                                        *)

LEMMA BlankedWithin ==
  ASSUME NEW c \in ModuleRecord, NEW im, im = Image[c.image], LayoutTold(im),
         RecordSound(c, im), NEW b \in c.blanked
  PROVE  /\ Apart(b, im.data)
         /\ \A k \in 1 .. Len(c.tls) : Apart(b, c.tls[k])
         /\ \/ Inside(b, LinkedStackOf(im))
            \/ \E k \in 1 .. Len(c.stacks) : Inside(b, c.stacks[k])
<1> DEFINE pointer == ReadStackPointer(im.binary)
           end == DataEndOf(im)
           linked == LinkedStackOf(im)
<1>1. /\ c.image \in DOMAIN Image /\ c.count \in Nat \ {0}
      /\ c.stacks \in Seq(Regions) /\ Len(c.stacks) \in Nat
      /\ c.tls \in Seq(Regions) /\ Len(c.tls) \in Nat
  BY RecordFields, ListFields
<1>2. /\ im.stack_bottom \in Nat /\ im.stack_top \in Nat /\ im.heap_base \in Nat
      /\ im.memory_size \in Nat /\ im.data.lo \in Nat /\ im.data.hi \in Nat
      /\ pointer \in Nat /\ LaidOut(im)
  BY <1>1, ImageFields
<1>3. /\ pointer # 0 => im.stack_bottom < pointer /\ pointer <= im.stack_top
      /\ im.stack_bottom # 0 => /\ end = im.data.hi
                                /\ ~ReadMemoryInfo(im.binary).shared
      /\ end \in {0, im.data.hi}
  BY DEF LayoutTold, DataEndOf
<1>4. \A k \in 1 .. Len(c.tls) :
        /\ c.tls[k].lo \in Nat /\ c.tls[k].hi \in Nat
        /\ im.heap_base <= c.tls[k].lo /\ c.tls[k].hi <= im.memory_size
  <2>1. \A k \in 1 .. Len(c.tls) : c.tls[k] \in Regions
    BY <1>1, ListFields
  <2>2. \A k \in 1 .. Len(c.tls) :
          im.heap_base <= c.tls[k].lo /\ c.tls[k].hi <= im.memory_size
    BY DEF RecordSound, TlsGiven
  <2>3. QED
    BY <2>1, <2>2 DEF Regions
<1>5. /\ linked.lo = im.stack_bottom /\ linked.hi = im.stack_top
  BY DEF LinkedStackOf, Region
<1> HIDE DEF pointer, end
<1>7. ASSUME NEW top \in {im.stack_top, pointer}, top # 0, b = BlankedRegion(top, end)
      PROVE  /\ Inside(b, linked) /\ Apart(b, im.data)
             /\ \A k \in 1 .. Len(c.tls) : Apart(b, c.tls[k])
  <2>1. top \in Nat /\ im.stack_bottom < top /\ top <= im.stack_top
    BY <1>2, <1>3, <1>7 DEF LaidOut
  <2>2. b.hi = top /\ b.lo = IF end < top THEN end ELSE 0
    BY <1>7 DEF BlankedRegion, Region
  <2>3. CASE im.stack_bottom = 0 /\ im.stack_top <= im.data.lo
    <3>1. b.lo = 0
      BY <1>2, <1>3, <2>1, <2>2, <2>3 DEF LaidOut
    <3>2. im.stack_top <= im.heap_base /\ im.data.lo <= im.data.hi
      BY <1>2 DEF LaidOut
    <3> HIDE DEF linked
    <3>3. Inside(b, linked) /\ Apart(b, im.data)
      BY <1>2, <1>5, <2>1, <2>2, <2>3, <3>1 DEF Inside, Apart
    <3>4. /\ b.hi <= im.heap_base /\ b.hi \in Nat /\ im.heap_base \in Nat
      BY <1>2, <2>1, <2>2, <3>2
    <3>4a. ASSUME NEW k \in 1 .. Len(c.tls)
           PROVE  Apart(b, c.tls[k])
      <4>1. b.hi <= c.tls[k].lo
        BY <1>4, <3>4
      <4>2. QED
        BY <4>1 DEF Apart
    <3>5. QED
      BY <3>3, <3>4a
  <2>4. CASE im.data.hi = im.stack_bottom
    <3>1. end = im.data.hi
      BY <1>2, <1>3, <2>4
    <3>2. b.lo = im.data.hi
      BY <1>2, <2>1, <2>2, <2>4, <3>1
    <3>3. im.stack_top <= im.heap_base
      BY <1>2 DEF LaidOut
    <3> HIDE DEF linked
    <3>4. Inside(b, linked) /\ Apart(b, im.data)
      BY <1>2, <1>5, <2>1, <2>2, <2>4, <3>2 DEF Inside, Apart
    <3>5. \A k \in 1 .. Len(c.tls) : Apart(b, c.tls[k])
      BY <1>2, <1>4, <2>1, <2>2, <3>3 DEF Apart
    <3>6. QED
      BY <3>4, <3>5
  <2>5. QED
    BY <1>2, <2>3, <2>4 DEF LaidOut
<1>8. ASSUME c.type = "wamr", pointer # 0, NEW k \in 2 .. Len(c.stacks),
             pointer <= c.stacks[k].hi,
             b = Region(c.stacks[k].hi - pointer, c.stacks[k].hi)
      PROVE  /\ Inside(b, c.stacks[k]) /\ Apart(b, im.data)
             /\ \A l \in 1 .. Len(c.tls) : Apart(b, c.tls[l])
  <2> DEFINE st == c.stacks[k]
  <2>1. \A n \in Nat : k \in 2 .. n =>
          /\ k \in 1 .. n /\ n > 1 /\ k # 1 /\ k - 1 \in Nat \ {0}
    OBVIOUS
  <2>2. /\ k \in 1 .. Len(c.stacks) /\ Len(c.stacks) > 1 /\ k # 1
        /\ k - 1 \in Nat \ {0}
    BY <1>1, <1>8, <2>1
  <2>3. /\ c.count # 1 /\ ReadMemoryInfo(im.binary).shared
        /\ st = StackAt(c, im, k)
    <3>1. Len(c.stacks) <= c.count /\ Len(c.stacks) > 0
      BY <1>1, <2>2 DEF RecordSound, StacksGiven
    <3>2. c.count > 1
      BY <1>1, <2>2, <3>1
    <3>3. QED
      BY <1>8, <2>2, <3>1, <3>2 DEF RecordSound, StacksGiven
  <2>4. st = AuxStackOf(im, k - 1)
    BY <1>8, <2>2, <2>3 DEF StackAt
  <2>5. /\ im.stack_bottom = 0 /\ im.heap_base <= im.memory_size
        /\ im.memory_size % 16 = 0 /\ im.data.hi <= im.heap_base
        /\ im.stack_bottom < im.stack_top
        /\ im.stack_bottom % 16 = 0 /\ im.stack_top % 16 = 0
    BY <1>2, <1>3, <2>3 DEF LaidOut
  <2> DEFINE l == k - 1
             aux == AuxStackOf(im, l)
  <2>6. l \in Nat \ {0} /\ st = aux
    BY <2>2, <2>4
  <2> HIDE DEF l
  <2>7. /\ im.memory_size + 16 <= aux.lo /\ aux.lo < aux.hi
        /\ aux.lo \in Nat /\ aux.hi \in Nat
        /\ aux.hi - aux.lo = im.stack_top - im.stack_bottom
    BY <1>2, <2>5, <2>6, AuxStacksPlaced
  <2>8. b.hi = st.hi /\ b.lo = st.hi - pointer
    BY <1>8 DEF Region
  <2>9. pointer <= im.stack_top
    BY <1>3, <1>8
  <2> DEFINE low    == aux.lo
             high   == aux.hi
             top    == im.stack_top
             memory == im.memory_size
             heap   == im.heap_base
             last   == im.data.hi
  <2>10. /\ memory + 16 <= low /\ low < high /\ low \in Nat /\ high \in Nat
         /\ high - low = top /\ pointer <= top /\ pointer \in Nat /\ top \in Nat
         /\ heap <= memory /\ last <= heap
         /\ heap \in Nat /\ memory \in Nat /\ last \in Nat
         /\ st.lo = low /\ st.hi = high /\ b.hi = high /\ b.lo = high - pointer
    BY <1>2, <2>5, <2>6, <2>7, <2>8, <2>9
  <2>11. /\ im.data.hi = last
         /\ \A n \in 1 .. Len(c.tls) : c.tls[n].hi \in Nat /\ c.tls[n].hi <= memory
    BY <1>4
  <2> HIDE DEF st, aux, low, high, top, memory, heap, last
  <2>12. Inside(b, st) /\ last <= b.lo /\ memory <= b.lo
    BY <2>10 DEF Inside
  <2>13. Apart(b, im.data) /\ \A n \in 1 .. Len(c.tls) : Apart(b, c.tls[n])
    BY <2>10, <2>11, <2>12 DEF Apart
  <2>14. QED
    BY <2>12, <2>13 DEF st
<1>9. \/ \E top \in {im.stack_top, pointer} : top # 0 /\ b = BlankedRegion(top, end)
      \/ /\ c.type = "wamr" /\ pointer # 0
         /\ \E k \in 2 .. Len(c.stacks) :
              /\ pointer <= c.stacks[k].hi
              /\ b = Region(c.stacks[k].hi - pointer, c.stacks[k].hi)
  BY DEF RecordSound, BlankedOnly, pointer, end
<1>10. \A k \in 2 .. Len(c.stacks) : k \in 1 .. Len(c.stacks)
  BY <1>1
<1>11. QED
  BY <1>7, <1>8, <1>9, <1>10

(* The static data of a module is written at most once, however many       *)
(* runners it has, and blanking touches nothing but its stacks: neither    *)
(* these data nor a TLS block, on any backend and with any number of       *)
(* runners, provided that the module tells where its stack and its data    *)
(* are (wahe_core.c:587-610, 1560-1587, 1785, wahe_wamr.c:391-418).        *)
(* Without that proviso it is not true: see DataFirstBlank.cfg.            *)
THEOREM StaticDataStays ==
  ASSUME LayoutsTold
  PROVE  Spec => []StaticDataIntact
<1>1. ASSUME Sound
      PROVE  StaticDataIntact
  <2>1. /\ VariablesTyped /\ RecordsSound
    BY <1>1 DEF Sound, Base
  <2>2. ASSUME NEW m \in DOMAIN ctx
        PROVE  LET c == ctx[m]
                   im == Image[c.image]
                   linked == Region(im.stack_bottom, im.stack_top)
                   areas == {linked} \cup {c.stacks[i] : i \in DOMAIN c.stacks}
               IN  /\ c.writes <= 1
                   /\ \A b \in c.blanked :
                        /\ Apart(b, im.data)
                        /\ \A k \in DOMAIN c.tls : Apart(b, c.tls[k])
                        /\ \E a \in areas : Inside(b, a)
    <3> DEFINE c == ctx[m]
               im == Image[c.image]
    <3>1. /\ c \in ModuleRecord /\ RecordSound(c, im)
      BY <2>1, <2>2, CurrentFields DEF RecordsSound
    <3>2. /\ LayoutTold(im) /\ DOMAIN c.tls = 1 .. Len(c.tls)
          /\ DOMAIN c.stacks = 1 .. Len(c.stacks)
      BY <3>1, RecordFields, ListFields DEF LayoutsTold
    <3>3. im = Image[c.image]
      OBVIOUS
    <3> HIDE DEF c, im
    <3>4. ASSUME NEW b \in c.blanked
          PROVE  /\ Apart(b, im.data)
                 /\ \A k \in DOMAIN c.tls : Apart(b, c.tls[k])
                 /\ \E a \in {LinkedStackOf(im)} \cup {c.stacks[i] : i \in DOMAIN c.stacks} :
                      Inside(b, a)
      BY <3>1, <3>2, <3>3, BlankedWithin
    <3>5. c.writes <= 1
      BY <3>1 DEF RecordSound
    <3>6. QED
      BY <3>4, <3>5 DEF c, im, LinkedStackOf
  <2>3. QED
    BY <2>2 DEF StaticDataIntact
<1>2. QED
  BY <1>1, AlwaysSound, PTL
=============================================================================
