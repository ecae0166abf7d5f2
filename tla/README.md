# Verification of rtg

rtg is a compiler for a subset of Go, written in that subset, that compiles
itself. It reads packages, lowers the syntax tree to the code of a small stack
machine, and generates machine code for x86-64, i386, aarch64 and wasm32, C
source, or runs the stack machine itself. The programs it compiles link a
runtime, also written in the subset, whose maps, slices and strings are built on
a bump allocator that never frees.

This directory holds TLA+ models of rtg, the configurations TLC checks them
with, and proofs checked by TLAPS. Every action names the function it models;
`PROJECT.json` gives the lines.

## Components

| component | source | state | operations | modelled in |
|---|---|---|---|---|
| heap | `std/runtime/runtime.go` | bounds of the current chunk | `Alloc` | RuntimeHeap |
| maps | `std/runtime/runtime.go`, `ir.go` | header, table, range index | `MapMake`, `MapGet`, `MapSet`, `MapDelete`, `MapEntryKey`, range loops | RuntimeMap |
| slices | `std/runtime/runtime.go`, `ir.go` | shared headers, arrays | `SliceMake`, `SliceAppend`, `SliceAppendSlice`, `SliceCopy`, `SliceReslice`, range loops | RuntimeSlice |
| strings | `std/runtime/runtime.go` | none | `StringConcat`, `StringSlice`, conversions | CompiledRun, as single steps |
| scanner and parser | `parser.go` | position in the text, whether `{` opens a literal | one function per construct | Parser, PackageDecls |
| driver | `main.go` | temporary files, options, stage | `main`, `runCleanup` | Build, BuildTags |
| packages | `frontend.go` | packages, imports, symbols | `ResolveModule`, `resolveImports`, `topologicalSort` | Build |
| lowering | `ir.go` | scopes, slots, labels, defers, static stack depth, types by name | one function per statement and expression | Lowering |
| dead code elimination | `dce.go` | set of reachable functions, worklist | `eliminateDeadFunctions` | Build |
| intermediate code | `ir.go`, `backend_vm.go` | operand stack, frames, globals, memory | the opcodes and intrinsics | IRCode, IRMachine |
| interpreter | `backend_vm.go` | frame stack, slabs, descriptor and directory tables | `execFunc`, host intrinsics | CompiledRun; host intrinsics are not |
| x86-64 generator | `backend.go`, `backend_x64.go` | pending register, registers, machine stack | `compileInst` and all it calls | X64Stack |
| wasm32 generator | `backend_wasm32.go` | open blocks, types of operands, a temporary local | `stackify`, `emitStructured`, `compileInst` | WasmCode, StackMaps, CompiledRun |
| other generators | `backend_i386.go`, `backend_aarch64.go`, `backend_c.go`, `backend_windows_*.go` | as x86-64 | as x86-64 | not modelled |
| processes | `std/os/exec` | descriptor tables, a pipe, two processes | `Run`, `Output` | Exec |
| files | `std/os/os_*.go` | descriptors | `ReadFile`, `WriteFile`, `RemoveAll` | not modelled |
| build tool | `tools/build.go` | targets done | run a target after those it needs | not modelled |
| object writers | `elf_*.go`, `macho_*.go`, `pe*.go`, `codesign.go` | bytes of a file | one pass | not modelled |
| library, system call stubs | `fmt`, `strings`, `sort`, `path`, `embed`, `std/runtime/*_*.go` | none | pure functions, declarations | not modelled |
| playground | `web/` | user interface | | not modelled |

How they meet. The lowering emits opcodes and calls of runtime functions; it
relies on the runtime returning headers it may drop (assignment to a map
element) or must store (append). A generator turns one function's opcodes at a
time into code; opcodes meet only in the operand stack, the frame and memory, so
that a generator is correct when each opcode's code has the effect the stack
machine gives it and leaves the shared state in the form the next one expects.
The runtime stands on `Alloc`, and through `Syscall` on the kernel. The compiler
runs the programs it makes through `os/exec`.

What is hard. There is one thread; the difficulty lies in long sequences of
small steps that share state no type describes.

* Headers of slices are shared by assignment and changed in place by append; a
  table changes its order when an entry is deleted, while a loop walks it.
* A generator defers pushes: what the top of the stack is depends on a note made
  at compile time, which must agree on every way into a label.
* Values wait on the machine stack across calls.
* The lowering knows types by the names of variables and keeps a static depth of
  the stack; both must fit every way the program can take.
* wasm32 has no jumps: labels and jumps become blocks, and what the code had on
  the stack when a block ends is lost or must be pushed again.
* The files of a target are chosen by name and constraint in six directories for
  17 targets, and what a generator calls on its own must survive the removal of
  dead functions.
* System calls fail, answer short, or drop an error on the way (`Alloc`,
  `Output`).
* `os/exec` is the one place with two processes: redirections done in turn, a
  pipe whose end of file needs every writer closed, a wait.

What makes each correct is in the runs below; what can go wrong, line by line,
is the list of hazards in `PROJECT.json`.

## Modules

`RuntimeHeap` — `heapPtr` and `heapEnd` are the allocator's globals; `mapped`
and `blocks` record what the kernel granted and what callers got; `failed` notes
a failed `SysMmap`, which the code forgets. `Alloc` is three actions by its
branches: the request fits (`AllocInChunk`), a new chunk (`AllocNewChunk`), a
chunk the kernel refused (`AllocMmapFailed`: address 0 becomes the chunk).

`AbstractMap`, `RuntimeMap` — the abstract map is a function with an Absent
value. `RuntimeMap` has the table as a function of slots, and the range loop the
compiler emits: `idx` is `$idx`, the length is read before each iteration, the
body is every set, delete and lookup between two `RangeNext`. `seen`, `stay` and
`gone` are history. String keys are words with a text, so that two headers may
be one key, and the word 0 is a key of its own. An assignment to a nil map does
nothing: `MapSet` fills a table whose header is dropped.

`AbstractSlice`, `RuntimeSlice` — in Go a slice is a window of an array, a
value. In rtg it is a pointer to a header that append changes and assignment
shares. `RuntimeSlice` has the headers; the refinement maps each variable to the
window its header holds now, and the range loop to the window of the header it
keeps. The two agree under conditions on programs, fields of the kind `prog` of
the program that runs: `own` (append only through the one variable that holds
the header, and give the result back to it) and not `overlap` (copy no elements
up into their own window). A program that is of such a kind may still append to
the slice it ranges over (`grows`): the loop reads the length anew from the
header that append changed, and goes on through what was appended, where Go's
loop stops (`ir.go:2507`). Of those programs `ImplementsGo` says everything but
what the loop does (`LoopBlind`). The run Slices has programs of each
sort.
`SliceReslice` checks no bound; indices Go rejects are left out of the programs.

`IRCode`, `IRMachine` — the stack machine. No program is fixed: any opcode whose
operands are there may come next, so that a behaviour is a run of some program.
Arithmetic is a parameter. Words up to `Low` are no addresses (the interpreter's
4096, `backend_vm.go:806`). Nil is an operand like any other: loads from it, the
words of a nil header and its elements' base are 0, a store through it is found
by no load, `Tostring` of it is nil, and of another small number its digits.

`X64Stack` — one step runs the code generated for one opcode: `cpu` holds the
operand stack in memory, the registers, the generator's note `pend` of a push it
has not emitted, and the machine stack. `flush`, `opPush`, `opPop`, `opLoad`,
`opDrop` are those of `backend.go`; jumps and calls lose the note (`Arrive`).
`ImplementsIR` maps the memory stack with the pending register on top to the
stack of `IRMachine`: every step is one of the interpreter's machine, or one of
`Faults`, where the process is killed for using nil as an address and the
interpreter goes on: STORE, INDEX_ADDR, the intrinsics ReadPtr, Sliceptr, Stringptr
and WritePtr, and Tostring, there of any number up to `Low`. Only LOAD, LEN and CAP
test for nil in both. Flags are not modelled: a compare is followed by a
conditional jump whose flush pushes with `lea` and `mov`, which leave flags
alone. Frame layout, encodings and fixups are below this level. The interpreter
and the generator disagree on a few operands, which the model leaves to `Alu`
and `Stale`: shifting right is arithmetic in one and logical in the other,
division by zero traps, a local is zeroed in one and holds what was there in the
other, and the test whether a value is a box or a string differs above type id
256.

`Lowering` — `compilePackage` and all it calls, as operators on the compiler's
state `c`: scopes (name to slot), widths of slots, labels, the targets of
`break` and `continue`, deferred calls, the static depth, and the types the
compiler remembers by name (element type, strings, maps and their values,
concrete types, addresses). One operator per function of `ir.go`, with its name;
the code is a sequence of instructions, each with the depth the compiler takes
the stack to have. A package is its structs, interfaces, constants, globals and
functions; the syntax tree is nested tuples.

`SourceMeaning` — the reference: what a Go program of this subset puts out,
defined on the syntax tree by evaluation with an environment, a store and
outcomes (`break`, `continue`, return, panic), with Go's order of evaluation.

`Parser`, `PackageDecls`, `SourceText` — the scanner with its inserted
semicolons, the parser for statements, expressions and types with its
`noCompLit`, and the declarations with what `compileTopDecl` makes of them.
`SourceText` is the other way: it prints a package as text, without a
parenthesis or a type Go lets one leave out, so that `ParsesBack` compares the
two. A token's spelling is one element of the text.

`WasmCode` — `stackify` and `emitStructured`: labels to blocks and loops,
forward jumps to `if`, short circuits, the values pushed again; and `Valid`, the
rules by which an engine accepts code, after the WebAssembly specification.

`Instructions`, `Compilation`, `CompiledRun` — `Instructions` is what the
compiler emits and the machine executes; `Compilation` composes the parts: text,
parser, lowering, wasm32, and the stack maps of the code. `CompiledRun` runs the
result, an instruction a step: on the
VM (`execFunc`, its frame stack that grows down and can overflow) or on wasm32
(structured control, a shadow stack, a temporary local per call). A program puts
out things through intrinsic functions; `tr` collects them. The runtime
functions are single steps on a heap of cells with the headers of
`RuntimeSlice`, whose sharing is therefore visible to the programs.

`StackMaps` — code whose operand stack is known without running it. A map gives,
for each instruction a run may come to, how many operands the function has there
and which blocks are open. `CodeVerifies` says that every instruction keeps the
map with its neighbours alone, on every path, taken or not, and that a call finds
the results its function leaves. The compiler counts operands as it emits
(`emit`); this is what its count is worth.

`LoweringPrograms` — the programs: all nestings of two compound statements (if,
for, range, switch, blocks) around a break, continue, return, defer, panic or an
effect; every operator over operands with effects, in a condition, a value or an
argument; and written ones for calls, defers, methods, interfaces, variadics,
closures of scope, slices, maps, strings, bytes and pointers.

`BuildTags`, `Build` — the target's options and tags, the choice of files by
name and `//go:build` line; then the build: `main`'s arguments, `ResolveModule`,
the closure of imports, `topologicalSort` (its visits under way are the variable
`walk`, a step begins or ends one), symbols and qualified names, the
functions of the intermediate code (name and calls), the roots and worklist of
`eliminateDeadFunctions`, the start code that calls initialisers and `main`, and
the program's calls until it ends, dies for a missing function, or overflows its
stack. The std library's files and constraints are those of the repository.

`Exec` — two processes and what the kernel keeps for them: a table of
descriptors each, the pipe of `Output`, the status a process leaves. An action is
one system call of `Run` or `Output` in the parent, of their child up to
`execve`, or of the program the child becomes, which is external: it writes to
descriptors 1 and 2, exits, or is killed. The parent may begin with any of its
descriptors closed, so that the pipe can come to lie there, and the `Cmd`
may name any open file for each redirection, also one that an earlier redirection
replaces. The properties say where that matters: `InOrder` leaves out a `Cmd`
whose file is a descriptor already redirected, `PipeIsStderr` the case where the
pipe's write end is itself the program's standard error. A read that fails ends
the loop of `Output` as the end of file does (`lost` notes it), and a program
that was killed has exit code 0, hence a nil error; both are the code's.
This is the Linux version; on Windows a process is made in one call.

The `MC` modules instantiate these for TLC.

## Runs

| run | question | bounds |
|---|---|---|
| RuntimeHeap | are blocks disjoint, aligned, granted; what does a failed mmap damage | 5 requests of 0 to 7 bytes, chunks of 6, alignment 2, four regions of which two meet and two overlap: a chunk is filled exactly, a tail abandoned, a request exceeds a chunk, mmap fails at any call |
| RuntimeMap | is the table a map; what does a loop miss | 4 keys of 3 texts, 2 values, tables of 1, 2 and 4 slots (two growths), 2 deletions of visited keys |
| RuntimeMapNilKey | expected to fail: are texts of keys unique | the nil string, an empty one and another |
| Slices | are slices Go's values for programs that own their headers; what is left of it when a loop's body appends to the slice; what holds when headers are shared at will | 2 variables, 3 headers, 2 or 3 arrays of up to 3 elements, a nil slice grown and an array grown, windows cut anywhere, loops during appends, assignments and either windows or copies; programs that own their headers, those that also append to what they range over, and those that share headers |
| SliceCopyOverlaps | expected to fail: does copy move every element | elements copied up into their own window |
| X64Operators | operators, variables, jumps, calls, loads, stores, headers, literals | words 0 to 2, `Low` 0, 2 operands, 2 frames of a slot, 2 words of memory; operators that are not commutative |
| X64Iface | boxes, dynamic calls, the paths of Tostring, nil and small numbers included, intrinsics in the callee, globals, system calls | words 0 to 7, `Low` 3 and 4 words of memory above it, 3 operands, 2 frames of 3 slots; two types with methods of two arguments |
| Exec | are redirections, descriptors and the program's output as asked; does `Output` return | 6 descriptors, chunks of 2, a pipe of 3, 4 writes, exit codes 0, 1 and 256; pipe, fork, read and wait may fail at any call |
| Lowering | is a program's text read back as the program; does the code put out what the source means and end; is the compiler's count of operands right on every path of every function, and the stack of a run as high; do frames lie on the calls that are active; would an engine accept the wasm32 code | 571 programs on the VM, 440 of them on wasm32 also; bytes wrap at 16, 30 words of frames |
| WasmSwitch | expected to fail: is what wasm32 pushes again the value switched on | one switch with a negative case |
| Build | do initialisers run in the order of imports; is nothing live removed; does each target find one file for everything; does the driver leave no temporary file; does every build end; are names unique, and does a call that no import stands for go to a package whose turn has come, or that imports nothing, as the runtime (`Linkable`) | 17 targets from every option, embedded and on disk; a dozen worlds of packages that import, miss and contain each other, convert without importing the runtime, do not parse, cannot be read or written; 6 calls deep |
| BuildTwoInits | expected to fail: is what is removed never missed, in a package with two functions `init` | one package; the function only the first of them calls |

Opcodes touch at most four operands, three registers and one block. In
X64Operators two operands, each in memory or pending, show their order and which
registers an opcode spoils, in X64Iface a third shows what lies below the
arguments of a call; the proofs show that nothing depends on the bounds.

In Exec the pipe fills before the program is done, a chunk leaves bytes behind,
and the two ends of the pipe take any place below 6; one more write or descriptor
adds no new case.

A byte of 16 values wraps at every operator as one of 256 does. The two
nestings are what `break`, `continue` and defers need to meet a switch in a loop
or a loop in a switch; the order of operands shows with two of them. 440 of the
571 run on wasm32: those left out are the operators (single opcodes, checked on
the VM), bytes, which do not wrap there, and the program that overflows the frame
stack, of which wasm32 has no check.

Fairness. `Exec`, for `Returns`: weak fairness of the parent and of the
child, because the kernel schedules both. It stands for a program that writes a
bounded number of bytes and exits: for one that does not, `Run` waits, as it
should. Failures of calls and signals are steps that may happen and are outside
of the fairness, so nothing relies on them. `CompiledRun`, for `Ends`, and
`Build`, for `Finishes`: there is one thread and it goes on, so weak fairness of
`Next`; `GoesOn` says it without ENABLED. The programs of the runs are such that
they end in Go. All other properties are about
safety. Runs of the runtime modules stop at their bounds and of the
machine at `halted`, so they do not check deadlock.

### Where code and comment disagree

* `mapStrEqual` "compares two string header pointers by content", but a nil
  string and an empty one differ (RuntimeMapNilKey).
* `SliceCopy` "copies elements from src to dst", but repeats some when they are
  copied up into their own window (SliceCopyOverlaps), and so does append of a
  slice.
* `emitStructured` says "The last DUP saved it to tempLocal, so re-push", but
  what is written between the DUP and the end of the block may use `tempLocal`:
  the negation of a case, a load, a length (WasmSwitch).
* `eliminateDeadFunctions` "removes unreachable functions" and takes the "init
  functions" for roots, but knows functions by name. A package may have several
  `init` (`pkg.Inits`), all compiled to one name, of which `funcIndex` keeps the
  last: what only an earlier one calls is removed while the call stays. Native
  code then does not link ("unresolved calls"), and the interpreter stops at the
  call (BuildTwoInits).
* `Alloc` "allocates size bytes via mmap" and drops the error: BlocksMapped holds
  only until `failed`.

### What the programs leave out

The runs compare programs on which rtg and Go agree. Where they do not, no
comment claims otherwise, and `LoweringPrograms` avoids it; `Lowering` has the
code's behaviour in each case:

* A defer is compiled into every later return, ran or not, and once in a loop;
  its results stay on the stack, the receiver of a deferred method is not kept.
* `break` in a switch leaves the loop around it; a default that is
  not last takes all values that come to it; a bare return of named results returns nothing.
* `x op= y` and `x++` compute the operand's address twice, `x[low:]` evaluates x
  twice, the right side of an assignment comes before the index of the left, and
  of several targets the last is set first. `m[k]++` writes into the header.
* `:=` declares a name before its right side is compiled, and several names
  always anew. Types are remembered by name: an inner variable leaves its type to
  an outer one of the same name.
* A concrete value becomes an interface only in a return and as a variadic
  argument; a method without a result, called through an interface with two
  implementations, drops an operand that is not there.
* The address of a local is that of its frame, also after it; a nil map assigned
  to stays nil.
* Shift to the right is logical; global initialisers run in the order of the
  text; a constant that refers to a later one sees it with iota 0.
* wasm32: bytes do not wrap, division by zero traps, the shadow stack has no
  limit and locals start as what was there.
* The parser takes an unknown character for the end of the file, keeps one of
  two directives, and refuses `for ; c; p`, a function that returns
  `(pkg.T, error)`, a grouped local `var` and a switch with an init statement.
* A range loop whose body appends to the slice it ranges over goes on through
  what was appended, for ever if each round appends (`RuntimeSlice`, `grows`).
* A local of the name of a package-level slice, itself no slice, is indexed with
  that slice's element size; a local slice is not. `*p += 1` and `(*p)++` end
  the compiler (ICE in `compileLValueGet`), which in `Lowering` is a CASE without
  a value, as are the other ICEs.
* A package that converts or appends in an initialiser and does not import
  `runtime` may be started before the runtime: the compiler adds the calls, not
  the import, and `topologicalSort` starts in map order (`CallsGoBack`).
* A file with errors is left out and the build goes on; names in `Symbols` are
  bare, so that a method can hide a function; an import that cannot be resolved
  is skipped, and import cycles are not noticed: what one package of a cycle calls
  in another may run before its initialisers. A later `-T` does not undo the
  generator of an earlier one.
* The VM's exits for a full frame stack and the step limit do not run the
  driver's clean-up, so that temporary files stay: `TempFilesRemoved` leaves the
  first out (stage `overflow`); the second, and panics of the compiler, are not
  modelled.

Some hazards are met by the programs only in part for this reason: methods of
interfaces have one result, defers are on every way to the returns after them,
no `break` is in a switch in a loop, shadowed names agree in type, and no operand
of `x[low:]` has effects.

## Proofs

Every theorem holds for all values of the constants that satisfy the named
assumptions of the modules, which TLC evaluates in every run.

`RuntimeHeapProofs` — `HeapInv` is inductive for any alignment, chunk size,
sizes, kernel choices and failures. Disjointness alone is not: it needs that the
rest of the chunk is granted and in no block (`FreeInChunk`, `FreeUnused`) and
that regions are disjoint. Each action is a lemma; after a failure only types and
regions are left to keep. Three more invariants are proved on top of it.

* Blocks are aligned because the next free byte is (`AlignInv`): a chunk begins on
  a boundary because `PageAssumption` says that pages do.
* A block outside granted memory comes after one at address 0. What is inductive
  is that the current chunk is granted unless such a block exists (`NilInv`).
* After a failure, what overlaps is not granted memory (`OverlapInv`: wild blocks
  lie below every address the kernel chooses, `WildLow`). The theorem has a
  hypothesis, `FailuresStayLow`: no request is so large that the chunk the code
  believes to begin at 0 reaches up to those addresses. On 64 bits none is; a
  32-bit program that asks for gigabytes breaks it, and `Alloc` would not notice.

`RuntimeMapProofs` — `TypeOK /\ KeysUnique` is inductive, and the table
implements `AbstractMap`: a search from slot 0 finds the one entry of a key,
growth keeps the entries, and deletion moves the last one into the hole. Both
hold for every number of keys, either kind of key, any initial capacity. For the
range loop `LoopInv` counts `Holes`, the slots passed that hold no key the loop
produced: one appears only when a produced key is deleted, and a key still in the
table and not produced is in a slot to come or in a hole. From it follow that no
key is produced twice (but for keys deleted and set again during the loop) and
that no more keys are missed than produced ones deleted.
Neither half is inductive alone, since a deletion moves an entry the loop has yet
to see into the part it has passed.

`X64StackProofs` — `TypeOK`, `PendingIsOperand` and `MachineStackBalanced`
together are inductive, and `ImplementsIR` holds for every word size, arity,
set of types, memory and `Low`, with the interpreter's nil and small numbers and the
faults of native code there (`FaultKeeps`). One lemma per helper says what it does to the operands
(`View`); one per opcode puts them together.

`SetInduction` — the library's rule of induction takes an operator, which the
provers cannot instantiate. Said of a set, the rule can be used: the set of
numbers for which a formula is true. It follows from the set being well
founded, and from it that functions defined by recursion over numbers exist.

`RuntimeSliceProofs` — what `Memcopy` does, by that induction: nothing
outside the places written changes, and the elements arrive, unless they are
copied up into their own window. `SliceInv` is inductive: headers reach inside
their arrays (`Fits`), and a range loop is never past the end of its header,
since no operation shortens one. An append goes through a state in which its
header has room for the new elements and the old ones in place (`Ready`), by the
old array or a new one; that the elements are the old ones and the new follows.

The second half of the module: the byte-level slices implement Go's
(`AbstractSlice`), for all programs that own the headers they append to and copy
nothing up, loops over a slice that its body appends to excepted (`SeenOfLoop`,
`UnseenLoop`). One lemma per operation; arrays only grow in number, and rows are
compared element by element (`RowOf`, `Padded`). The conditions on programs are
those of the run, so a program of the other kind makes the theorem say nothing
of it, and HeadersStayInArrays still holds.

`CompiledRunProofs` — code that verifies runs as its maps say, on either target,
whatever the program and however deep its calls: the operand stack is at the
depth the compiler took it to have, and is empty when the program exits
(`DepthIsStatic`); frames lie one below the other, one for each active call and
no larger than its function needs, within the stack of frames
(`FramesAreOfCalls`). Neither is inductive. `AsMapped` is: each active call
stands where the map of its function has been, with as many operands above those
of its callers and the same open blocks, shifted by where the call began; a
caller waits at a call whose results the function below will leave. One lemma
per kind of instruction; only lengths and positions are followed, so nothing
depends on what words hold, nor on the runtime's functions but for the number of
their results. The hypothesis is `CodeVerifies`, a property of the code the
compiler produced: the run Lowering checks it of all its programs.

`BuildProofs` — what a build does with packages, functions and files, over all
worlds of packages.

* `NoFileLeft` speaks of the driver's exits: files exist only in -run mode, whose
  ways out run the clean-up, but for the interpreter's stop at a full stack. `TempInv` adds why the exits
  without a clean-up are harmless: they come before there is a file, or need that
  no package is found, and the temporary program is one.
* `RemovedIsNeverMissed`: under `NamesKnown`, which says that names are unique and
  that dynamic calls go to methods, no function that was removed is missed by
  the linker or by the program. While marking, each function marked is on the
  worklist or all it needs is marked (`MarkInv`); hence, after the sweep, the
  instructions left need marked names only (`LinkInv`). The worklist is a fold
  over a set, of which only the elements matter (`ListedAll`). BuildTwoInits shows
  that the theorem would be false without unique names.
* `ImportsComeFirst`: each package is put out once, and after all it imports. That
  is not inductive; `SortInv` adds that the packages under visit are a path of
  imports, all different and not yet put out, and that what a visit has passed in its
  list of imports is put out. The hard step is an import that was visited
  before: it is put out, or under visit itself and then the path closes a cycle.
  Where there is a cycle only the first half holds.
* `InitialisersComeFirst`: the order of packages becomes that of their
  initialisers. Compiled functions lie in blocks by package (`FlattenedBlocks`), the
  sweep keeps the order of what it leaves (`KeptInOrder`), and the start code calls
  initialisers as they lie (`FuncsInv`). `RunInv` is what the program keeps: no
  active call is of a package ahead of the one being started, unless that imports
  nothing (`Due`), because a call goes to what its package imports, which comes
  before it, or back, or to the runtime (`CallGoesBack`). What imports nothing
  waits for no initialiser (`BelowNothing`).
  Hence the initialisers of all that an active function's package imports
  have been started, and they have returned, since one at a time is under way.
* `NamesStayUnique`: names are unique in every build whose packages declare no
  name twice (`DeclaredOnce`), cycle or not: no package is in the order twice, names
  carry their package, and no function written in Go has the name
  of the generated initialiser. A second `init` is what breaks `DeclaredOnce`.

These have hypotheses that are no assumptions on constants but properties of
what is compiled. `NoCycle` is Go's rule for imports, which rtg does not check.
`Linkable` holds `NamesKnown`, `CallsGoBack` (an interface call reaches a method
of a package that made the value; the runtime, which imports nothing, may be
called at any time, also before its own initialisers) and `PackagesAreLists`, which says of lists that they are lists, where the library's
operators are out of the provers' reach. The run Build checks it in its worlds.

`ExecProofs` — all safety properties of Exec, whatever the sizes and whatever
fails. `ExecInv` says which descriptors each process has at every place in the
code (`ParentFds`, `ChildFds`), when the child exists and what its end says
(`Lives`), and that what was read followed by what is in the pipe is what was
written (`Streams`). `ChainLeads` works out the three redirections; the end of
file tells that the program has ended because a living child holds the write end
(`AliveWrites`).

Model-checked only:

* liveness, that is `Returns`, `Finishes` and `Ends`, and everything about fairness;
* the lowering, the parser and the wasm32 generator: that the text is read back
  (`ParsesBack`), that the code verifies (`CodeVerifies`), that an engine accepts
  it (`EngineAccepts`) and that it puts out what the source means
  (`TraceIsOfSource`). These modules are recursive over the syntax tree with
  RECURSIVE operators, out of the prover's reach; `TypeOK` of `CompiledRun`, which
  bounds addresses, depends on what the runtime functions compute there;
* `EveryTargetBuilds`, which speaks of one library, and of `Linkable` what is more
  than `NamesStayUnique`: where interface calls go.

## Plan

1. `Files`: the read and write loops of `std/os`, `MkdirAll` and `RemoveAll`
   against a kernel that answers short or fails. Two hazards wait for it: a
   path that is a file, and a directory that cannot be read.
2. The interpreter's host intrinsics: descriptors, of which each is used once and
   there are 256, and directory tables.
3. The order of targets in the build tool; the builds of `os/exec` for Darwin and
   Windows; 64-bit values on wasm32.

Not planned: i386, aarch64 and Windows generators, which share the bookkeeping
of `X64Stack` and differ in registers and encodings; the C generator and the
object writers, which print; library, system call stubs and playground.

## Not modelled, and why

Encodings of instructions, layout of frames and fixups of jumps are below the
models' words. Numbers are unbounded but for bytes; overflow at 32 and 64 bits
is the same in every generator but those listed above. A type id of 256 or more
is taken for a string by the x86-64 code (`backend_x64.go:614`): no bounded run
has that many types. Slices keep no check of bounds, so programs that Go would
stop are left out. The wording of messages, `-size` reports and debug output are
left out.
