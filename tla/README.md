# a816 in TLA+

a816 is a 65c816 (Super NES) assembler, linker and language server written in
Python.  This directory holds TLA+ models of its stateful parts, TLC
configurations that check them on small instances, and TLAPS proofs about the
freespace allocator, the address arithmetic, machine code, object files and their
linking, incremental builds and the language server.  Paths below are relative to the repository (`src/`).

## 1. The system

Source text is scanned, parsed and turned by code generation into a list of
*nodes*.  A `Program` walks these nodes several times against a `Resolver`
(symbols, scopes, pools) and either writes an image directly or an *object
file*; the `ModuleBuilder` finds the imported modules, compiles what is out of
date and gives the object files to the `Linker`.  A language server runs the
front end on the documents an editor has open.

| Component | State it keeps | Operations | What makes it correct |
|---|---|---|---|
| Freespace pools (`a816/pool.py`) | ranges, requests, free chunks, `_allocated` | declare, `request`, `reclaim`, `allocate`, report | spans disjoint, inside the ranges, no space lost; `pack` independent of source order; pins first |
| Object writer (`a816/writers.py`) | sections, the open section, pending block, tables | `start_section`, `write_block`, `add_*`, `end` | every emitted byte in one section, once; offsets and section indices stay right when empty sections are dropped |
| Direct assembly (`a816/program/core.py`, `emit.py`) | resolver, running address, pending block, file | two passes, allocator between them, emission | a label is the address of its bytes; every byte once, in its place |
| Object compilation (`a816/program/`, `a816/parse/nodes/`, `a816/parse/codegen/pool.py`) | resolver, running address, sandbox cursors | codegen, two resolver passes, symbol export, emission | labels mean the address of the bytes they stand before |
| Linker (`a816/linker.py`) | merged pools, slots, linked sections, symbol map, per-object locals, pending aliases | merge, request, allocate, ingest, fold aliases, check, relocate | symbols, references and aliases follow their bytes; bodies do not meet; private names stay private |
| Module builder (`a816/module_builder.py`) | import graph; `.o` and `.deps` files that outlive it | discover, sort, decide, compile, record, link | an incremental build equals a clean one; imports come first; only real cycles are refused |
| Resolver and scopes (`a816/symbols.py`) | tree of scopes, exports, externals | define, look up, export | names resolve as scoping says |
| Import, macro and data code generation (`a816/parse/codegen/`) | macros, imported paths; writes the resolver | expand | a name means its nearest declaration, wherever a macro or loop puts it |
| Scanner, parser (`a816/parse/`) | place in the text or the tokens, errors so far | text to tree, recovery | statements are the lines; positions are right; always ends |
| Expressions (`a816/parse/ast/expression.py`) | operator stack, value stack | order, evaluate | precedence and association |
| Object file format (`a816/object_file.py`) | none | write, read | reading gives back what was written |
| Address mapping (`a816/cpu/mapping.py`) | bus mappings | logical to physical | the mapping is injective where it has to be |
| Instruction encoding (`a816/cpu/cpu_65c816.py`, `a816/parse/nodes/opcode.py`) | the table; register widths | measure, emit | measured and emitted alike |
| Disassembler (`a816/cpu/disassembler.py`) | addresses to decode, addresses seen, flags | decode, list, walk a function | decode undoes encode; a function is found whole |
| Output writers (`a816/writers.py`) | file, recorded blocks | `write_block` as IPS or SFC | no two blocks overlap; records stay in the format |
| Language server (`a816/lsp/`) | open documents, workspace index | didOpen, didChange, didSave, didClose, requests | the index and the diagnostics are those of the text the editor shows |
| Formatter, linter (`a816/formatter`, `a816/fluff`) | none | rewrite text | idempotent, meaning kept |
| Debug info, inspection tools, command line | none | read and print | – |

Interactions.  The code generator declares pools and reclaims ranges in the
resolver; alloc nodes ask the resolver's cursors for sandbox addresses; the
emitter writes sections and requests to the object writer; object files carry
pool declarations, requests, symbols, aliases and relocations to the linker,
which runs the allocator on the merged pools.  The builder's only shared state
between runs is the object directory and the time stamps of files.  Everything
but the language server is one thread of one process.

Hard behaviour.  Whatever is placed late: a body is laid out at a *sandbox*
address in one walk, emitted in another, moved by the linker, and its symbols
are moved by a lookup of their address alone.  Whatever is shared by name:
pools, requests and private symbols of several modules.  Whatever is
remembered between runs: cached objects.  Whatever is computed in one pass and
used in the next: labels, sizes, register widths, the scope tree.  Whatever has
no end mark: statements, of which no token says where they stop.  Whatever is awaited: the handlers of
the language server.  `PROJECT.json` lists the hazards with their lines.

## 2. The modules

### Freespace pools

| Module | Models |
|---|---|
| `PoolOps` | `PoolRange`, `_normalize_ranges`, `_carve`/`_shrink_chunk` (`Remainder`), `_place`, `_subtract_one` (`Gaps`), `Allocation`, the sort orders |
| `Pool` | one pool from declaration to the end of `allocate()`; each turn of its two loops is an action |
| `PoolLayout` | `allocate()` as a function, for the models of the linker and of direct assembly |
| `PoolPromise` | abstract specification: every request gets a sound span, or none does |
| `PoolProperties`, `MCPool` | properties, instance |
| `LayoutProofs` | TLAPS proofs about `allocate()` as a function: what it is given and leaves, in any order |
| `PoolProofs` | TLAPS proofs about the loops |

State: `ranges`, `strategy`, `requests`, `addr` (the `addr` fields of the
allocations) and the local list `free` of `allocate()`.  The code's lists of
ranges are sorted and disjoint, so sets stand for them and "first" is "least
start".  An exception in the middle of `allocate()` is the state `failed`, in
which the requests placed so far keep their address, as in the code.

### Objects and linking

| Module | Models |
|---|---|
| `Folding` | a left fold that evaluates its accumulator once, functions put together (no code) |
| `ObjectWriter` | `ObjectWriter` and the block buffer of the emission loop, as operators on one record |
| `ObjectCompile` | the walks of `assemble_with_object_emitter`: one action per node kind and walk |
| `Linker` | `Linker.link()`, one action per phase and object, pool or sweep; EXTENDS `ObjectCompile` and calls `PoolLayout` |
| `LinkProperties`, `MCLink` | properties, 285 programs |
| `FoldSteps`, `LinkProofs`, `PooledProofs` | TLAPS proofs: what a fold does, step by step; object files and relocatable modules; the merged pools |

A program is a sequence of modules, a module a sequence of nodes (pool, alloc,
pinned alloc, reclaim, label, bytes with references, `.res`, `*=`, `.label`,
`.extern`, alias, IPS patch).  Bytes are counted; each emitted node leaves a
*debug line* (section offset, source position), as in the code, and each
reference a relocation.  The properties compare symbols with debug lines: two
records the code produces independently.

### Incremental builds

| Module | Models |
|---|---|
| `ImportGraph` | what a module reaches and the circular imports, for reference |
| `ModuleBuild` | `ModuleBuilder.build` over files, object files and sidecars: discovery module by module, the depth-first sort call by call (`path` is the stack of `visit`), then decide, compile, record, load; between builds files are edited, removed, and caches deleted |
| `CleanBuild` | abstract specification: the image is what the files mean now |
| `BuildProperties`, `MCBuild` | properties, instances |
| `BuildProofs` | TLAPS proofs |

An object's content is *what it was made from*: the text, the contents of the
assets, the objects of the modules it imports or names constants of (`Inputs`).
The two are not the same: `_compile_module` is given the constants of every module
built so far in this build, imported or not, so a text says apart what it imports
and what it names (`names`), and compiles if what it names was built before it
(`Compilable`).  Time stamps are the relation `newer` (file written after object),
all the code asks of them.

### Language server

| Module | Models |
|---|---|
| `Workspace` | `A816Document` (text, the three parts of `analyze()`, what it adds to) and `WorkspaceIndex` (prune, store, remove, undeclared pools) as operators on records |
| `LanguageServer` | handlers of didOpen, didChange, didSave, didClose; awaited work in threads; `self.documents`, the index, what was published |
| `ServerProperties`, `MCServer` | properties, instance |
| `ServerProofs` | TLAPS proofs: the handlers and their documents; the index |

The event loop runs one stretch of code at a time; `asyncio.to_thread` work
interleaves with it and with other threads.  A thread's step is one call that
runs to its end in one go (`_prune_previous_entries`, `_store_document`, a
parse, a read); a switch inside one of these is not modelled.  `didClose` has
no await and blocks the loop (`LoopFree`), not the threads.  Documents are
references into `heap`, because a handler goes on with the document it was given
when the file is closed or opened again.  Initially the index
is what `rebuild()` makes of the files: every handler asks for that first.

### Front end

| Module | Models |
|---|---|
| `Scanner` | `Scanner` and the states of `scanner_states.py` on a record (text, start, position, line, tokens, errors); one turn of `scan()` is `ScanTurn` |
| `Grammar` | `Parser` and every state of `parser_states/`, on a record (tokens, position, tree); recovery in `parse_initial` (`ParseTurn`); `.include` reads `Files` |
| `Expressions` | `shunting_yard` and `eval_expression`, values and errors, casts through struct layouts, `reconstruct_expression` |
| `FrontEnd` | the state machine: scan a token, parse a statement, bind a name (constants, assignments, structs), and the ends in between |
| `FrontProperties`, `MCFront` | properties and their reference definitions, instance |

Here the text *is* the data, since how characters become statements is the
question: `lines` is the program as its author laid it out, `scanner` and `run`
are the records of scanner and parser, `diagnostics` the positions of
`ParserResult.parse_errors`, `symbols` and `layouts` what was bound.  A tree node
is its class name, its text and its parts.  `crashed` stands for a Python
exception that is not a diagnostic.

### Direct assembly

| Module | Models |
|---|---|
| `Scopes` | the scope tree of `symbols.py`: lookup, definition, export of a named scope, bubbling of an anonymous one |
| `Bus` | `Mapping`, `Bus.map`, `Address.physical`, `Address.__add__`, the LoROM and HiROM maps |
| `CodeGen` | `_code_gen` in direct mode, a statement at a time: scopes, macros with their arguments, `.if`, `.for`, pools, allocs, pins, reservations, relocations, imports, includes, patches |
| `DirectMode` | both passes of `resolve_labels`, the allocator between them, `emit` with its pending block, and the overlap check |
| `DirectProperties`, `MCDirect` | properties and the reference meaning of names, 1,950 programs |

`todo` is the recursion of `_code_gen` as a stack of statements; `out` the list of
nodes per open body; `resolver` the scopes, the scope and address the walk is
at, the pools and the slots; `emitter` the pending block and what was written.  A
byte is <<node, index, value>>, so that an overwritten, lost or doubled byte is
seen.  `declared` is a record the code does not keep: which statement declared
what in which scope, from which the properties derive what a name should mean.

### Instructions

| Module | Models |
|---|---|
| `Instructions` | `snes_opcode_table`, entry by entry; the choice of an encoding; operand sizes and masks; branch distances; block moves |
| `MachineCode` | straight-line code through two passes and the emission, with the register widths the resolver remembers |
| `Disassembler` | the table turned around, `disassemble` instruction by instruction, `disassemble_function` pop by pop |
| `MachineProperties`, `MCMachine` | properties, instance |
| `MachineProofs` | TLAPS proofs: labels and bytes |

A program is a sequence of nodes with a label before each: instruction (mnemonic,
mode, index, size suffix, value or label), `.db`, `.a8`/`.a16`, `.i8`/`.i16`.
`regs` are the widths the resolver believes in, `code` the bytes, node by node,
`listing` and `output` what the disassembler returned.  `NoByteTwice`, an
assumption TLC evaluates, says that no two entries of the table share a byte.

## 3. What is checked

Properties of passing runs each have a mutant: a plausible bug in a mapped
definition under which TLC finds the property violated.

| Run | Shows |
|---|---|
| `pool` | 9 properties of the allocator on banks of 4 bytes, 4 declarations, 3 reclaims, 8 kinds of request, up to 3 requests |
| `link` | 7 properties of compiling and linking 285 programs of one to three modules |
| `build` | 6 properties of builds and edits without a bound on their number: two entry points, modules a, b and c in every order of imports or in a circle, constants named directly and through an import, one asset |
| `lsp` | 5 properties of the language server with handlers of two files at work at once |
| `machine` | 3 properties of the assembler and disassembler: 8,356 programs and width settings |
| `direct` | 5 properties of direct assembly on 1,950 programs |
| `front` | 5 properties of scanner, parser and expressions on 10,646 programs |
| `link_private` | finding: private allocs of one name in two modules share one slot of the first one's size |
| `build_stale` | finding: a module left out of the build that recompiled its import keeps the import's old constants |
| `lsp_edits` | finding: an edit that reaches the server before the last notification is dealt with is lost |
| `machine_widths` | finding: register widths act on the emission and not alike on the passes that bind labels |
| `direct_labels` | finding: a body's public labels, and the fields of a reservation, keep their measuring address outside |

The properties that matter most:

- `NoOverlap`, `Conservation`, `KeepsPromise` (pool): no byte handed out twice
  nor lost, all requests or none.  `LayoutReported`: the leftover recomputed by
  subtraction is the free list the allocator ended with.  `RefusalsExplained`: a
  pool only refuses for want of room or a taken pin.  `PackStable`: reordering
  requests does not change a `pack` layout, nor, unless two are pinned at one address,
  the reason to refuse one.
- `SymbolsFollowTheirBytes`, `NamesReachTheirTarget` (link): every name has the
  address its bytes got, however often they moved.  `PooledBodiesPlaced`,
  `RelocatableModulesApart`: placement across modules.  `SectionsKeepTheirBytes`:
  object files.
- `BuildsLikeClean` (build): the incremental build refines the clean one.
  `OrderIsSound`: imports first, and only real cycles refused.
  `RecompiledTogether`: the look at direct imports is enough for imports of
  imports, and what was compiled was made from the objects it is linked with.
- `OpenFilesFollow`, `IndexFollowsEditor` (language server): when nothing is under
  way, the documents, the published diagnostics and the shared index are those of
  the texts the editor shows.  `PoolErrorsAreReal`: a pool reported undeclared is
  declared nowhere.
- `SteadyLabels`: what the passes measured is what the emission put there.
  `ListingIsTheProgram`, `WalkFindsTheFunction`: the disassembler gives back the
  source, linearly and along the flow of control.
- `ReferencesReach` (direct): a name is the nearest declaration in the text;
  `LabelsWhereEmitted`, `BytesOnceInPlace`, `ModulesAtImport`.
- `TokensCoverText`, `LinesAreStatements`, `ExpressionsByPrecedence` (front).

### Bounds

*Pool*: three requests and three ranges give every kind of neighbour (head, tail,
both, none), two pins that meet, a tie on size and on name, a merge within a bank
and none across.  *Link*: two modules with every subset of their optional nodes,
in both orders, and hand-picked odd ones, among them each error path; a third
module to make a merge depend on what was merged before.  *Build*: two entry
points and three libraries give chains, diamonds, cycles, imports of imports and an
object `__main__` shared by two sources; there are no counters, so the number of
builds and edits is not bounded.  *Language server*: the editor opens the entry point and b, which is
on disk or not saved yet; c and d are reached by crawls only, the pool is declared
two imports away; two handlers at a time, five notifications.  With two files that
can be open and one shared name, two handlers give every pair of a prune, a store
and a crawl over common files.

*Machine*: every entry of the table with every size suffix and operands at the
edges of one, two and three bytes and below zero, branches at both ends of their
reach; every immediate behind every rep and sep; ten functions with loops, calls,
data in the middle and code entered with two widths.  `MaxInstructions` (14) is
more than any of them needs, except where the walk is meant to run into it.
*Direct*: 23 fragments of one feature each, alone, each inside braces, a named
scope, an alloc body, a loop and a macro applied twice, in every ordered pair, and
the eleven of `Core` in every ordered triple, always between an origin and a label
at the end that everything may refer to; and 26 programs that must be refused.
*Front*: 71 lines, right, wrong or cut short, each before each; 17 parts of statements
(a trailing comma, a leading sign, a brace on a line of its own ...) in every order of
three; expressions with every pair of the 13 operators in four shapes; values are cut to 16 bits, since TLC has
no room for the complement of 32, and mnemonics are in lower case.

### Conditions

Programs stay within conditions that the code needs and does not check; outside
them a property fails, in a violation run or in the list at the end of section 5.

- *link*: a module's sandboxes fit their pool's first range, away from other code;
  no two modules have private allocs of one name and different sizes; no label
  follows a `.res` outside a reservation and stands before bytes; no code follows
  an IPS patch.
- *build*: every module is in the graph of every entry point; what a text names
  constants of, it imports or its imports do; and no text has errors other than a
  missing asset, which raises before anything is written.  These keep the builds
  `Undisturbed` (section 4), which TLC agrees with on the instance.  Cached files of
  b only are deleted (`Losable`).
- *lsp*: the editor waits for the handlers of a file before it sends more about it
  (`Patient`); a file that may be opened is indexed from the start or not on disk.
  Of a name that two files can have, only that it leads to a definition is asked,
  since the last file to store it owns it and takes it along.
- *machine*: `SteadyLabels` is about programs without width directives
  (`NoDirective`) that leave the widths as they found them (`Restores`); the other
  two are about immediates as wide as their register is (`WidthAgrees`), and the
  walk about code that does not run into data.
- *direct*: no binary before a relocatable import, no `.alloc at` twice on one
  line (`Steady`); no absolute object and no reservation inside an alloc body
  (`Wrapped`).  `ReferencesReach` leaves out references into a body that moved and
  to the symbols of an import another scope repeats: `ReferencesLexical` is the
  property without these exceptions, of the run `direct_labels`.
- *front*: a line goes on with the one before it (`AddLine`) when that one is cut
  short, when it begins with an operator, a comma or the mark of an operand, or with
  the name `as`, `else` or `size`, and any name goes on with a `.map` line;
  `LinesAreStatements` says that there is no other way.  `ExpressionsByPrecedence`
  leaves out `~` before another sign (`Stacked`).
  Comments are closed.

### Fairness

`allocate()`, compilation, linking and one build are sequential code of a single
thread with nothing to wait for, hence weak fairness of their steps, and of these
only: nobody has to request, edit or start a build.  The front end is one thread
too; its fairness is that of `Next`, written out with `CanMove` for what ENABLED
says, because TLC would evaluate the scanner many times over.  In the language
server each handler has weak fairness: the event loop serves tasks in turn, threads
are scheduled, and no step waits for anything but the loop, which `didClose` gives
back.  The editor owes nothing and may stop.  `DirectMode` and `MachineCode` state
no fairness: a walk over a list of nodes ends, and nothing is asked of it.

`MCBuild` keeps the deadlock check: one can always edit or build.  The others
switch it off: an allocator, a link, an assembly, a front end and a listing are
done at some point, and the editor of the language server may stop.

### Agreement with the program

Beyond the checks, the models of direct assembly and of the front end were run
against the program itself: all 1,950 programs of `direct` assemble to the bytes
and offsets of the model or are refused in both, and 13,761 random programs and
some 5,000 expressions of the vocabulary of `front` give the same tokens, trees,
diagnostics and values.

## 4. What is proved

`PoolProofs` proves, for every bank size, every set of declarations, reclaims
and requests, and without a bound on addresses:

| Theorem | Says |
|---|---|
| `AllocatorInvariant` | `IInv`: `TypeOK` and `LayoutInv` always hold |
| `SpansNeverOverlap` | `NoOverlap` |
| `SpaceConserved` | `Conservation` |
| `PlacementsStayInBank` | `StaysInBank` |
| `AllocatorKeepsPromise` | `KeepsPromise`: the refinement of `PoolPromise` |

Assumptions: `BankSizeAssumption` (positive) and `PoolAssumption` (ranges and
requests are such as the constructors accept).  `NoOverlap` and `Conservation`
are not inductive: a step takes bytes out of one chunk, so one must know that
chunks lie inside ranges, apart from each other and from every span, and that
every byte of a range is in one of them.  That is `LayoutInv`, which also says
that ranges are disjoint and fully merged.  The lemmas about `Normalize` (in
`LayoutProofs`: type, validity, disjointness, same bytes, nothing left to merge) carry the
`Reclaim` step; `RemainderFacts` and `ShrinkFacts` carry the two placing steps,
which share `PlacementInv`.  The refinement maps `placing` to `open`: steps of
the loops stutter, and `FinishAllocate` publishes a layout that `LayoutInv`
makes sound.

Under the same assumptions `RefusalsHaveReasons` states `RefusalsExplained`.  The layout alone does not tell why a request found no chunk.
`RefusalInv` (TLC agrees with it on the instance of `pool`) says what the free list
looks like while `allocate()` runs: a chunk that ends before its range does ends
where a placement begins (`ChunksMaximal`); while a pin waits, only pins are placed
(`PinsFirst`), so that a pin that lies in a range and finds its bytes taken has met
another pin; and in one range without pins what is free is the tail of the range,
less the sizes placed (`TailFree`).  The last is about a sum over the requests, and
the section *Sums of sizes* proves of that sum what is needed: that it exists, grows by
a request's size with each request, only grows, and is the fold of `BytesAsked`.  These
are inductions over the number of requests; as the induction theorems of the library are
out of reach, each takes the smallest set that would be a counterexample (smallest
by `FS_StrictSubsetOrderingWellFounded`) and removes one element from it.

`LayoutProofs` is about `allocate()` as the function that the models of the linker and
of direct assembly call: a fold over the requests (`Turn`), of which `Served` says which
one has its turn.  Chunks and spans stay in place along it (`RunInPlace`), as
`LayoutInv` says they do along the loops.  Two theorems of `PoolProofs` rest on it:

| Theorem | Says |
|---|---|
| `LayoutIgnoresOrder` | `PackStable` |
| `LoopsReported` | `LayoutReported` |

For the first, the fold over the requests in one order and in another are followed side
by side.  `Shuffled` relates two pools whose requests and addresses are a permutation of
each other and whose chunks are the same; the request served next is the same one in
both, since under `pack` size and name leave no tie (`ShuffledServed`), so a turn keeps
the relation (`ShuffledTurn`).  The proof attempt found an exception: of two requests
pinned at one address, the one requested first gets its place, and whether the other
one is refused for an overlap or for lying outside depends on its size.  Nothing is
placed in either order (`TiesRefused`), which is what `PlacedAlike` now asks of
`PinnedTwice`.  For the second theorem, `RunsAlong` says that the fold passes, after as many
turns as requests are placed, through the pool the variables make up (`Here`); that is an
invariant because a guard of `NextPinned` or `NextFloating` picks the request `Served`
does and `Carve` or `Place` the chunk the turn does (`PinServed`, `FloatServed`), and an
error ends the fold as it ends the loops (`ErrorStays`).  `ChunksAreGaps` (TLC agrees with it
on the instance of `pool`) says that a chunk begins where its range or behind a
placement does and ends likewise; `GapsFound` proves that the cursor of `_subtract_one`
finds exactly such gaps, an induction over the spans it has passed.

The last section of `MachineProofs` proves of every mapping of `Bus` with a mask of one
bit and of every address, without a bound:

| Theorem | Says |
|---|---|
| `FileOffsetsHaveAddresses` | every file offset has an address in the mapping, and `physical_address` leads back |
| `AddressesHaveTheirOffset`, `AddressesApart` | `logical_address` undoes `physical_address`; no two addresses of a mapping share a byte of the file |
| `PlusFollowsTheFile` | n bytes on from an address in ROM are n bytes on in the file, over the ends of banks too |

This is what the emission takes for granted when it counts addresses on and writes
at file offsets (`BytesOnceInPlace`).  The argument is division: bank and place are
quotient and remainder, and both masks keep the remainder (`SplitMask`, `JoinMask`).

`ServerProofs` proves of the language server, for any files and texts, any number
of handlers at a time and any number of notifications:

| Theorem | Says |
|---|---|
| `ServerTypes` | `TypeOK`, whether or not the editor waits |
| `OpenFilesFollowed` | `OpenFilesFollow`, when it does (`Patient`, an assumption of the theorem) |

`TypeInv` adds to the types that the heap holds what a name or a handler refers to
and nothing else, so that a handler without a document always finds a free
reference (`FreshIsNew`, by counting), and that a document bears the name of the
file it is held for.  For the second theorem one must say how far a handler has come
(`PatientInv`): it is the only one at work for its file; while it opens the file no
document is in place, afterwards its own is; before the parser it has the text the
editor shows, behind the linter the diagnostics too.  A step about one file cannot
disturb the others, since no two documents of different files are one reference
(`OneFile`); so each action is looked at for its own file only.  Assumptions:
`ServerAssumption` (finite sets) and `TextAssumption` (imports name files of the
workspace, and no text looks like a file that is closed or not there).

The second half of `ServerProofs` goes on with the index all handlers share, under the
same conditions:

| Theorem | Says |
|---|---|
| `IndexFollowed` | `IndexFollowsEditor` |
| `PoolErrorsReal` | `PoolErrorsAreReal` |

Both suppose `AllReached` of the first state: the entrypoint leads to every file
the editor may open that is there.  Without it a crawl may read a file that is
opened and edited before the crawl stores what it read (the hazard at
`workspace.py:301`), and the index goes back to the older text.  The index agrees
with the texts only between handlers, so `WorkspaceInv` says what is owed: `Due` are
the files whose handler has still to store them, `Awaited` those a crawl has queued
or read.  What is not due is recorded with exactly the labels of its text
(`Recorded`); whoever owns a name has it recorded, and a file that has just been
pruned has no record (`Owned`); what an indexed file imports is indexed or awaited
(`Followed`); a file that may be opened and is there is always indexed (`Shelved`),
so a crawl passes it over and reads only what nobody edits (`Crawling`).
`DocumentsRead` says that what a handler stores has been extracted from its text,
all of it and nothing older.  A step of one handler changes what is due by its own
file only, because no other handler is at work for it (`DueBefore`, `DueStored`,
`DueCrawling`, `DueTaken`); the two delicate ones are pruning, which must not take a
name that is another file's own (`PrunedOwners`), and storing, which takes names
over (`StoredOwners`).

`BuildProofs` proves of incremental builds, for any modules, files, texts and any
number of builds and edits:

| Theorem | Says |
|---|---|
| `BuildTypes` | `TypeOK` |
| `SortIsSound` | `OrderIsSound`: `topological_sort` gives what the source reaches, once, imports first, and refuses only real cycles |
| `NothingDirty` | `NothingLeftDirty` |
| `CompiledTogether` | `RecompiledTogether` |
| `IncrementalIsClean` | the refinement `BuildsLikeClean`, of behaviours in which `Undisturbed` holds throughout |

`BuildInv` has one part per thing the builder keeps while it runs: what discovery
has found and still owes (`Found`), the order so far (`Ordered`), the calls of
`visit` under way, each reached from the one before (`Visiting`: a dependency that
is on this stack is a circular import, and there is no other reason to refuse),
the module between its object and its sidecar (`Compiled`), what is done
(`Collected`).  `Together` goes along with the loop over the modules:
what is compiled was made from the objects loaded before it, and these stay; a module
that is taken imports nothing that was compiled, so the modules not compiled are
closed under imports, and hold what each of them reaches.

The refinement needs an invariant of what outlives a build: every object that a
build *would take* was made from what the files say now, and used the objects that
are there now (`Cached`), unless it still waits for a module to be compiled again, on
which everything that reaches that module waits with it (`Waiting`).  This is not kept
by the code alone.  `_needs_recompilation` looks at files, and `dep_recompiled` at what
*this* build has compiled among direct imports, and forgets it at its end; so there are
four ways to a stale image, and `Undisturbed` says that none of them is taken:

1. a module names a constant of one that it does not reach through imports: it is
   seeded (`module_builder.py:265-273`, 312, 319), and its change is not seen (310);
2. a build ends well and has compiled a module again that an object of another entry
   point was made with (the run `build_stale`);
3. a build fails and leaves such an object out that does not reach the module it fails
   over;
4. a module fails with an error of its source and leaves a new object beside the
   sidecar of an earlier success (`program/assemble.py:169`).

The theorem says that there is no fifth: an object behind the module that fails is
compiled again when that module is.  The first way is why an object that is taken
must reach what it uses (`Reach`, a closure over the imports as they are for every
entry point); `ReachRule`, `ReachLeast` and `ReachDone` are what the proof needs of it.

`LinkProofs` proves of compiling and linking, for every program (any number of
modules, any nodes in any order, any sizes):

| Theorem | Says |
|---|---|
| `LinkInvariant` | `LinkInv` and `ResolverInv`, the inductive invariant |
| `BytesKeptInSections` | `SectionsKeepTheirBytes` |
| `RelocatablesApart` | `RelocatableModulesApart` |

Assumptions: `ProgramAssumption` (programs are sequences of modules, modules of
nodes as the parser makes them, with ranges that `PoolRange` accepts and one at least
in a `.pool`) and `BaseAssumption` (the base address is a number).  `LinkInv`, which TLC was given as an
invariant of the run `link` before it was proved, has three parts.  `CompileSound`
follows the writer through the walks: while nodes are emitted, the bytes written and
the bytes pending are together those of the nodes so far (`Total`), every request names
a section that is closed and will not be dropped (`AllocsSound`), each slot was
measured from its body (`Measured`), and a writer that was never given an address has
at most one section, at the origin (`Implicit`).  `GoesOn` says what one operation of
the writer may do to the one before: closed sections stay as they are; each operation
(`EnsureSection`, `StartSection`, `WriteBlock`, `Flush`, `EmitNode`) has a lemma with
it, and a body is a fold of them (`EmitBodyFacts`).  `ObjectsSound` is what has been
written to files.  `LinkSound` says that relocatable modules lie one behind the other
below the base address plus the running offset (`Placed`) and that none of them has a
pool slot (`SlotsSound`), since a module with a request is not relocatable.
`ResolverInv` is what the emitter takes from the resolver: addresses, and a pool for
every alloc (`PoolsKnown`) whose ranges have a first one to start the sandbox at
(`PoolTaken`), since a declaration without ranges is refused by the parser and
`_normalize_ranges` leaves at least one (`NormalizeNotEmpty`, a lemma of
`LayoutProofs`: the run of ranges that starts at the first one ends somewhere).

`PooledProofs` goes on with the pools that the linker merges:

| Theorem | Says |
|---|---|
| `PoolsInvariant` | `PoolsInv`, the inductive invariant |
| `PooledPlaced` | `PooledBodiesPlaced`, when modules agree on sizes (`SizesAgree`, an assumption of the theorem) |
| `LinkTyped` | `LinkProperties!TypeOK` |

`SizesAgree` says that two modules that ask one pool for a slot under one name ask for
the same room.  `_allocate_pools_across_modules` shares a slot by pool and name and
never looks at the second size; `link_private` is what happens without the condition,
and `MCLink` has TLC check that the programs of `link` meet it.  Nothing else is
assumed of programs but that names have a place in the order of strings
(`RankAssumption`; requests of one size are served by name).  What the bodies' places
rest on changes hands five times, and `PoolsInv` has a part for each.  Declarations: a
merged pool has proper ranges, apart, and no address that no object file declares for
it (`Covers`; `WiderPool`, over the lemmas about `Normalize`).  Requests: one per name
(`PoolSound`), each for a size some object file asks for (`AskedIn`), and a slot is the
request of its name (`SlotFits`); entering a request moves no earlier one (`Extends`).
Every object's requests are entered before the first pool is laid out (`Requested`).
`allocate()`: each request in a range of its pool and apart from the others
(`Allotted`, which is `LayoutInPlace` of `LayoutProofs`).  Sections: in their slot, no
longer than in the object file (`LinkedFits`), where `LinkInv` bounds them by the
request (`AllocsSound`).  `LinkTyped` comes last because where a linked section lies
has three origins, and each is a number for a reason of its own (`BaseNat`): the slot
`allocate()` gave it (`PoolsInv`), the running offset (`LinkInv`), or the address the
module chose, which may be the resolver's sandbox (`ResolverInv`).  `RunInv` adds what
the phases hand on: a build fails exactly when it has a reason, and while objects are
ingested there is one table of private symbols for each one so far.

`MachineProofs` proves `LabelsSteady` (`SteadyLabels`) of every program, origin and
setting of the width tracking: the address the first pass binds a label to is where
the emission, a pass later and with more known, puts the bytes behind it.  The theorem
keeps the conditions of the property, which the code needs: no width directives, which
act on the emission alone; and with tracking on, `rep` and `sep` have a number (a label
behind them is 0 to the first pass) and the widths end as they began, since no pass
starts from fresh ones.  `ProgramAssumption` says that programs are nodes and a label
refers to one of them.  The argument is that a length depends on nothing the first pass
does not know: `TableRegular`, looked at row by row, says that only an opcode with
several sizes or a long one leaves a choice, and `WrittenAsMeasured` that the choice
falls alike for a label that is not bound yet and for its address.  `Inv` follows the registers
(`Walking`: they are what the last `rep` or `sep` of each flag makes them), the labels
bound so far (`Binding`, `Chain`) and the bytes written (`Written`).

The model's folds are a recursive function, and what one computes is shown by
induction along it.  As no prover here instantiates a theorem with an operator,
`FoldSteps` takes the step as a constant operator and the other modules instantiate it
once per fold (`INSTANCE FoldSteps WITH Op <- ...`).

Only model-checked: the other properties of linking (`SymbolsFollowTheirBytes`,
`NamesReachTheirTarget`; they hold under conditions that section 3
names and the instance of `link` meets), the disassembler (`ListingIsTheProgram`,
`WalkFindsTheFunction`), all liveness (fairness and ENABLED are out of the prover's
reach), and all properties of direct assembly and the front end, whose models use
recursive operators.

## 5. What is not modelled

- *Inside the modelled parts.*  Object mode: addresses are linear and `*=` takes
  any; operand widths and range checks of relocations; named scopes, macros and
  `.relocate`, which direct mode has; file tables and the merging of mappings in
  the linker; patches of more than one block.  Direct mode: debug lines, symbol
  contexts, `.map` of other masks, `.text` and tables, `.debug`.  In the builder:
  `-D` symbols, modules without a source, a name declared `.extern` that a module
  built later defines (the linker resolves it, no object holds its value), a build
  that is killed, changes of files during one.
- *Simpler than the code.*  In object mode an alias of an alias of the same module is
  refused, which the code spells out (`symbols.py:135-147`, `expression.py:251`); an
  alias of a `.label` address is left to the linker like one of a label; and a public
  label of a body that has the name of a label of the module takes its place, which
  the code leaves as it is (`symbols.py:38`).  No program of `link` has one of these.
- *`.reclaim` in object mode* is modelled (the resolver's pool grows and the
  declaration in the object file does not), but no property is stated on it: the
  documentation does not say what it should do there.
- *Language server.*  Requests (completion, hover, rename ...) read what the
  notifications build.  Symbols, macros, allocs and docstrings follow labels.
  `.include`, which inlines another file's labels into a document, positions,
  parser recovery, files changed by others, a change of the workspace root.
- *Front end.*  The printing of diagnostics, docstrings attached to statements,
  `.text` encodings, capital mnemonics.
- *Disassembler.*  Rendering to text and the symbolic output.
- *Not modelled at all*: IPS and SFC writers and the overlap auditor's messages,
  object file format, formatter and linter, debug information, inspection tools and
  command line (see `PROJECT.json` and the plan).

Disagreements seen while modelling that no run is spent on:

- *Pools and linking.*  `order` placements follow the source order (`pool.py:225`),
  while docs/docs/freespace-pools.md:56 says that `order` "keeps placements stable
  when you reorder the source".  The sandboxes of a pool that run past its first
  range into another pool's send symbols with the wrong section (`linker.py:129`).
  A module that repeats a range already merged with its neighbour is refused as an
  overlap (`linker.py:240`).  Regions that two modules pin are never compared
  (`linker.py:118`; docs/docs/freespace-pools.md:113-115 promises a hard error).  A
  cast loses its field's offset in a relocation (`expression.py:156-165`).
- *Builds.*  A failed compile leaves an object newer than its source beside the old
  sidecar, and the next build takes it for up to date and links it
  (`program/assemble.py:169`).  A build that fails halfway forgets what it has
  compiled, so a module it did not reach keeps the old constants of its imports in
  the next one (`module_builder.py:310-314`).  A module that names a constant of a
  module built before it and not imported by it compiles, and keeps the old value
  when that module is edited (`module_builder.py:265-273`, 310, 312, 319), although
  docs/docs/modules.md:85-102 says that the rules given there leave nothing stale.
  All three were seen with the program itself.  When one entry point includes another and both are built in one object
  directory, the sidecar of `__main__` lists both, and building the second takes the
  object of the first, against the docstring of `_needs_recompilation`
  (`module_builder.py:175`); the model keeps sources and assets apart.
- *Language server.*  Each save without text publishes every diagnostic once more
  (`lsp/server.py:251`).
- *Direct mode.*  An `.incbin` or `.res` before a relocatable `.import` shifts the
  module away from its symbols (`program/core.py:190-196`).  The symbols of an
  import that is repeated in another scope keep their first value
  (`parse/nodes/module.py:144`).  An absolute object imported inside an alloc body
  loses its bytes.  `{ }` directly in a `.scope` never publishes its labels
  (`symbols.py:46-51`).  An `.alloc` that a macro puts inside an `.alloc` escapes the
  nesting check (`parse/codegen/pool.py:245-263`).  Macro arguments are evaluated in
  the macro's scope.
- *Instructions.*  An immediate that does not fit is cut, although
  `cpu_65c816.py:174-176` says it is caught before.  A listing does not always
  assemble again: absolute operands below 0x100 lose their width, and mvn and mvp
  their order of banks (`disassembler.py:172-173`).
- *Front end.*  The scanning errors of an included file are dropped, so `x = 1 | 2`
  in it assembles as `x = 1` (`directives.py:317`).  Three errors at the end of a
  file crash the printer of errors (`mzparser.py:151`).  A `.map` line takes a
  following line that begins with a name, an instruction without operand the `(`, `[`
  or `#` of the next line (`rts` before `(1)`, `opcode.py:44-53`), and the `.map low_rom` of
  docs/docs/directives.md:57-60 is refused.  An unterminated string takes the next
  line along, an unterminated comment hangs, `.db 1, { }`, `lda #1,x`, `0o17` and
  `~~1` raise Python exceptions that are no diagnostics, and `|`, `~`, `/` are no
  tokens outside operands.  `p := 5` after `p := 1 as T` leaves the fields of p.

## 6. Plan

1. Proofs of what is only model-checked: `SymbolsFollowTheirBytes`, with the conditions
   on sandboxes of section 3 as hypotheses, over `PoolsInv`; the emission of `DirectMode`.
2. `Writers`: IPS and SFC output and the overlap auditor; no offset that reads as
   the end of the patch, audit exact.
3. Object file fields at their width; relocation widths in `Linker`.
4. `.include` in the language server, and the shared names and pools that the index
   forgets or keeps (hazards at `workspace.py`).
5. Formatter and linter: fixes that are idempotent.

Order of composition: `Scopes`, `PoolOps` and `Bus` below `CodeGen`, `CodeGen` and
`PoolLayout` below `DirectMode`; `Instructions` below `MachineCode`, below
`Disassembler`, and below `Scanner`, which asks it for mnemonics; `Scanner` below
`Grammar`, below `FrontEnd` with `Expressions`; `ObjectWriter` below
`ObjectCompile`, below `Linker` with `PoolLayout`.

## 7. Running

    tlc -config MCPool.cfg MCPool          tlc -config MCLink.cfg MCLink
    tlc -config MCBuild.cfg MCBuild        tlc -config MCServer.cfg MCServer
    tlc -config MCMachine.cfg MCMachine    tlc -config MCDirect.cfg MCDirect
    tlc -config MCFront.cfg MCFront
    tlapm PoolProofs.tla                   tlapm PooledProofs.tla
    tlapm ServerProofs.tla                 tlapm BuildProofs.tla
    tlapm FoldSteps.tla                    tlapm LinkProofs.tla
    tlapm LayoutProofs.tla                 tlapm MachineProofs.tla

The other configurations (`LinkPrivate`, `BuildStale`, `LspEdits`,
`MachineWidths`, `DirectLabels`) are run with `MCLink`, `MCBuild`, `MCServer`,
`MCMachine` and `MCDirect` and end with the counterexample of their finding.
