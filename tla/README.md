# ArmCaveHook verification project

ArmCaveHook patches AArch64 Mach-O and ELF binaries on disk. Plugins written in C++ with
inline assembly declare hooks and patches; the patcher compiles them, adds a segment (a
*cave*) per plugin to a copy of the binary, builds a *dispatcher* for every hooked address
that calls the handlers and runs the overwritten instructions, and writes over the hooked
address a branch to the dispatcher.

This directory holds TLA+ models of the parts that carry that logic, the TLC
configurations that check them, and proofs checked by TLAPS. Lengths, reaches and page
sizes are parameters; the models keep the control of the code (every guard, early return,
error and the order of writes) and abstract its data (a word of the file is the tuple that
says where it comes from).

- [Inventory](#inventory): the system's parts, their state, what can go wrong
- [Modules](#modules): which module models what, and how it corresponds to the code
- [Runs](#runs): what each run checks and shows, bounds, fairness
- [Where the code and its documents disagree](#where-the-code-and-its-documents-disagree)
- [Proofs](#proofs): what is proved, from what and how
- [Not modelled](#not-modelled), and [Plan](#plan)

To check a run: `tlc -config MCPipeline.cfg MCPipeline`; to check proofs:
`tlapm PipelineProofs.tla`, and likewise each of the modules named in [Proofs](#proofs).

## Inventory

A run of the program is one process. `main.cpp` either loads a patch script
(`patch_script.cpp`, `run_patch_script`) or finds the plugins of a directory
(`run_pipeline`), then `standard_pipeline` does all the work. The only threads are the
compilers, one per plugin, joined before anything else happens; the only state that
outlives a step is the output file, the cached parse of it, and the data of
`standard_pipeline`. What makes the program hard is not concurrency but *protocol*: sizes
are needed before addresses and addresses before sizes, the file is changed in place
while a parsed image of it is kept, generated code must keep a machine state that no test
on the host looks at, and two file formats have many offsets that must move together.

| component | source | state | operations | interacts with | what makes it correct |
|---|---|---|---|---|---|
| Command line | `main.cpp` | none | choose script or direct run, exit status | pipeline | a run that did not do what was asked says so in its status |
| Patch script, choice of plugins | `patch_script.cpp`, `pipeline.cpp:894-1140` | sections being read, temporary directory | parse lines, generate a plugin per hook, apply the lists, remove the directory | pipeline | each hook is run with its own values; nothing is left behind; the lists hold |
| Pipeline | `pipeline.cpp:467-893` | compiled plugins, sites, output file | compile, resolve, capture, add segments, build, patch | everything below | no hook is live before its dispatcher and handlers are in the file; every handler is called; no patch is lost |
| Cache of the parsed binary | `pipeline.cpp:123-210` | one image, its path, size and time | parse, prime, refresh the stamp | pipeline, file system | what is read through the image is what is in the file |
| Layout of a cave | `pipeline.cpp:640-845`, `patcher.cpp` | offsets of the parts | reserve by upper bounds, build, place | relocator, dispatchers | no part overwrites another |
| Names of segments | `pipeline.cpp:212-290` | names given so far | make a name, hash if taken, check the file | writers | names are distinct and legal |
| Dispatchers and wrappers | `patcher.cpp`, `armcave.h` | generated code | save, call, restore, resume | relocator, encoder | the hooked function sees its registers and stack; handlers see their arguments |
| Relocator, encoder | `aarch64/` | items, addresses, sizes | lay out until stable, emit | cave, dispatchers | terminates, fits, keeps every target |
| Compiler driver, relocation of plugin code | `compiler.cpp`, `symbols.cpp` | relocations, bound names, veneers | read objects, bind, resolve, build | cave layout | calls and addresses reach what the source names |
| Caves in the file | `segment.cpp` | none | add, locate and fill segments | writers | what is written is found again |
| Mach-O and ELF writers | `binary_image.cpp:479-1500` | the file's bytes and tables | add sections | caves | nothing in the file is lost track of |
| Universal files | `binary_image.cpp:170-260, 1505-1543` | slices | take out, put back | writers | the other slices are kept |
| Texts of patches | `compiler.cpp:582-846`, `pipeline.cpp:397-463, 797-816` | none | name addresses, turn them into distances, assemble, compare, write | plugin code, cave layout | a patch does what its text says where it is written |
| Parsers of Mach-O and ELF | `binary_image.cpp:200-900` | the parsed image | sections, symbols, imports, slots, chained fixups | lookup, writers | a name leads to the slot the loader fills for it |
| Symbol lookup, signatures, Apple metadata | `symbols.cpp:1-335`, `signature.cpp`, `apple_metadata.cpp`, `pipeline.cpp:533-570` | none | resolve a declaration's address, bind an undefined name | parsed image, pipeline | what is hooked or called is what was named, or the run is refused |
| Decoder, control-flow graphs, function IR, diagnostics | the rest | none | reading of bytes | pipeline | see [Not modelled](#not-modelled) |

Behaviours that are hard to test, each listed with its line under `hazards` in
`PROJECT.json`:

- **Bounds before addresses.** A cave is laid out from upper bounds; `place` checks only the
  end of the segment. The relocator's layout is a fixed point that must be reached in the
  passes the loop allows.
- **Stale reads.** The image of the output is trusted while size and time stand still;
  patches keep the size. Words under a hook are read before the patches and must be read
  again after them.
- **Order of writes.** A process that dies, or a write that fails, between two writes must
  not leave a branch to a dispatcher that is not there.
- **Generated code.** Dispatchers and wrappers nest calls, far branches clobber x16, return
  addresses may be signed, moves may overwrite each other's sources.
- **Offsets.** Segments go in front of `__LINKEDIT`; every offset behind them moves, and
  fixups have offsets inside offsets. ELF tables move to the end and must be mapped.
  Universal files have 32-bit offsets that may no longer fit.
- **Names.** Cutting, hashing and shared prefixes may make two names equal. A function is
  found by its name, by part of it, mangled or not, with and without underscores; an import
  through several tables that refer to one another by index.
- **Text.** The texts of patches are rewritten before they are assembled, so the rewriting
  must know how long each line will be.
- **Partial failure.** Any compiler may fail; any of the later steps may throw.

## Modules

| module | models | state | actions |
|---|---|---|---|
| `Aarch64` | the reach of each encoding and the number of words emitted (`encoder.h/.cpp`) | - | operators, used by `Relocator`, `CavePlan`, `PluginRelocs` |
| `Relocator` | `relocate_block` | items, their addresses and sizes, the pass, what is emitted | one per loop body: `Check`, `Place`/`Placed`, `Measure`/`Measured`, `Final`/`FinalPlaced`, `Emit`/`EmitFails`/`Done`, with the errors the code throws |
| `CavePlan` | one plugin's cave in `standard_pipeline`: bounds, then building and placing | offsets reserved, code built, parts placed | `ReserveDispatcher`, `ReserveWrapper`, `ReserveCode`, `ResolveCall`, then `PlaceCode`, `PlaceExtra`, `PlaceWrapper`, `PlaceDispatcher` |
| `HookDispatch` | `build_hook_dispatch`, `build_plugin_wrapper`, `make_wrapper`, `make_cpp_func_wrapper` and the frame of `armcave.h` | registers, stack, program counter of the machine the code runs on | one per class of instruction (`StripSignature`, `Store`, `Load`, `Move`, `Jump`, `Return`), and `Handler`, which clobbers what a handler may |
| `ChainedFixups` | `parse_macho_chained_fixups`, and the same as the loader does it: they differ in where the entry of a segment is counted from (`ReadFixups`, with `base`) | - | operators, used by `MachoWriter` to compare what is read before and after |
| `MachoWriter` | the plans of `standard_pipeline`, `add_macho_sections`, `update_macho_chained_fixups`, `seg_va`, `segment_file_offset` | the file's words, segments, tables, fixups | those of `SegmentNames`, `MakePlans`, `RemoveSignature`, `HeaderRoom`, `PlaceGroups`, `Shift`, `WriteCaves`, `FixCode`, `FixData` |
| `ElfWriter` | `add_elf_sections` | the file's words, programs, sections | `CheckTables`, `FindRegion`, `PlaceGroups`, `WriteFile` |
| `FatImage` | `parse`, `serialized`, `write` of universal files, then `write_at_offset` | table of slices, words | `Parse`, `Grow`, `Write`, `Fill` |
| `SegmentNames` | `make_plugin_seg_name`, `make_plugin_data_seg_name`, `has_plugin_segment` | names given | `NamePlugin` (one plugin at a time), `CheckFile` |
| `BinaryCache` | `parse_binary`, `prime_binary_cache`, `refresh_binary_cache_stamp`, and a file system with a clock | the file, the cached image, both with size and time | operators used as parts of actions |
| `Pipeline` | `run_pipeline` and `standard_pipeline` from the copy of the input to the exit status | file and cache, worker of each plugin, words captured, dispatchers built | `Start`, `Compile`, `Join`, `Resolve`, `Capture`, `AddSegments`, `BuildCode`, `DirectPatch`, `Recapture`, `BuildSites`, `WriteCave`, `CavesWritten`, `PatchWindow`, `Finish` |
| `Ordered` | walking a `std::map`, or a vector filled by nested loops: the list of a finite set in an order | - | operators, used by `Pipeline`, `PatchScript`, `PluginRelocs`, `SegmentNames` and `MachoWriter` |
| `HookInstall` | abstract specification of the pipeline | hooks wanted, ready, live, outcome | `Prepare`, `Install`, `Succeed`, `Fail` |
| `PluginRelocs` | `append_asm_text_relocations`, `compile_plugin` (binding), `PluginBlob::build`, `resolve_plugin_relocs`, and the symbol lookup it calls | relocations read, names bound, code with veneers | `ReadAddend`, `ReadReloc`, `EndObject`, `Bind`, one for each way a relocation is resolved (`CallNear`, `CallFar`, `Pointer`, `Page`, `Low`, `LowOfSlot`, `Skip`), `Build`, and one for each refusal |
| `PatchText` | `normalize_registered_labels`, `normalize_absolute_branches`, `AsmVaRange`, `patch_payload`, `matches_expected` and the loop over the patches | code of the file, patches applied | `ApplyPatch`, `MismatchPatch`, `RefusePatch`, after those of `PluginRelocs` |
| `ImageTables` | the questions asked of a parsed image: offsets, symbols, dynamic tables of an ELF, stubs, slots | - | operators |
| `AppleMetadata` | `enumerate_objc_methods`, `find_objc_method` and what they read: classes, categories, methods, pointers of every kind | - | operators |
| `Lookup` | the parse, the addresses of the declarations in `standard_pipeline`, `find_function_address`, `find_unique_signature`, `resolve_via_symbol_table`, `resolve_import_slot` | image, addresses found, names bound | `ParseElf`, `ParseMacho`; a declaration tries `ByAddress`, `ByMethod`, `BySymbol`, `BySwiftName`, `BySignature`, `ByEntry` in turn, then `Accept` or `MissingAddress`; `Bind`, `Unresolved`, `Finish` |
| `PatchScript` | `load_patch_script`, `run_patch_script`, `discover_plugins`, the head of `run_pipeline` | script so far, hook being read, temporary directory, plugins | `Header`, `Assignment`, `InvalidLine`, `ScriptRead`, `UnsoundScript`; `StageFails`, `GenerateHook`, `GenerateFails`, `AllGenerated`; `SelectPlugins`, `NoPlugins`, `Copy`, `CopyFails`, `Patch`, `PatchFails`, `Cleanup` |

`MC<module>` gives each its inputs. `MCImageWriters` puts the three writers side by side, one
file of one format being written in a behaviour, and `MCSymbols` does so with `Lookup` and
`PatchText`: the part that is not looked at stays in its first state. `Pipeline` extends `BinaryCache` and implements
`HookInstall`; `Relocator`, `CavePlan` and `PluginRelocs` extend `Aarch64`. Components that
interact are composed: `MachoWriter` extends `SegmentNames` and `ChainedFixups` (names are
given, the caves are made under them, the file is read again), `PatchText` extends
`PluginRelocs` (patches name what was built), `Lookup` extends `AppleMetadata`, which extends
`ImageTables`.

How the models stand for the code:

- *Units.* `Relocator`, `CavePlan` and `PluginRelocs` count bytes; `Pipeline` and
  `HookDispatch` count instructions; the writers count words of 4 (Mach-O, universal) or 8
  bytes (ELF), so an offset is a number of words.
- *Reach.* The reach of a branch is a constant, so small instances have references that are
  just in reach at one address and just out of reach at the next, the case that matters.
  `CavePlan` chooses the size of veneers and dispatchers among all those the code can
  build, as where handlers and callees are is not known to it.
- *Files.* A file is a sequence of tuples like `<<"symbols", "start">>`; that an offset
  still points to the start of its table after a change is a statement about the tuple it
  finds there.
- *Errors.* Every `throw` that is modelled is a step that sets `error` and stops; a failing write
  is a choice at each write of the output in place. An error on input that the models do not
  represent (a malformed command, an unreadable file) is a fault the input names (`fault`).
  The errors that are left out, all of them before anything is written, are named at
  `MachoWriter`'s `Shift` and `ElfWriter`'s `CheckTables`.
- *The machine of `HookDispatch`* executes the instructions the generators emit. The
  registers are x0 to x7, which arguments come in, x16, which a far branch takes, x19 for the
  callee-saved ones, x29 and x30; x8 to x15, which a detour does not save either, are left out.
- *Mutants.* A definition marked `mutant` above the one it varies is not part of a model. It
  is a plausible mistake in the code, and `PROJECT.json` names the property that finds it.

## Runs

There are seven passing runs and five of disagreements. All are run without the deadlock check:
every modelled operation ends, and its end is a state without a successor. Each passing run
also checks the type invariants of its modules (`TypeOK`, and `ElfTypeOK`, `FatTypeOK`,
`LookupTypeOK` of those that are instances).

| run | what it shows | bounds, and why they are enough |
|---|---|---|
| `relocator` | Layout converges (`NeverDiverges`), planned and emitted sizes agree (`NeverMissized`), the copy fits its reservation (`FitsReservation`), each branch reaches the copy of its target or its target (`BranchesPreserved`) | Windows of 1-3 instructions, targets inside, just behind, near and far, destinations on both sides and one unaligned. Reaches above 24 bytes per instruction, as in the code. Three instructions make one that grows and pushes a second out of reach of its target, and that a third. Longer windows (the code takes up to five) are left to the proofs |
| `cave_plan` | No part of a cave overwrites another, and nothing is larger than the room reserved for all of it, whatever is built (`PartsFit`) | Up to two dispatchers, two wrappers, two calls: two of each is what makes neighbours of every pair of kinds |
| `dispatch` | Handlers are called once, in order (`HandlersInOrder`), with their operands (`ArgumentsDelivered`); the hooked code resumes with x0 to x3, or its caller gets the result of the last handler, and in both cases with the callee-saved registers, frame, return address and stack it had (`SavedIsRestored`). Nothing is said of x4 to x7, which are lost (see `detour_arguments`) | One or two handlers of up to two operands in any register class, nine operands for the limit of eight, each branch near or far, signed return addresses or not |
| `image_writers` | Mach-O: names of caves are distinct from one another and from those in the file, or the run fails (`Distinct`); every offset follows its table (`Follows`); of segments whose entry is not below the point of insertion, the parser and the loader read the same fixups as before (`FixupsFollow`); segments do not overlap in memory or file, fit their memory, and the commands stay in the room of the header (`NothingOverlaps`); each plugin finds its section by the name it was given (`FoundByName`). ELF: what is written can be loaded, the moved program table is mapped, the old contents and names are kept (`ElfLoadable`), sections are found (`ElfFoundByName`). Universal: other slices kept word for word, and a file that cannot hold the offsets left as it was; only an arm64 slice grows if there is one (`SlicesKept`) | Mach-O: six orders of tables in `__LINKEDIT`, entries counted from the starts, below the point or not, and from the blob; files without `__LINKEDIT`, room for the commands or too little by one or two; plugins whose names collide by case, cutting, dropped symbols, data suffix, with a hash of two values, so that hashes collide. ELF: two page sizes, with and without section table and a PHDR entry, one to five plugins, limit of the entries. Universal: up to four slices, three alignments, gaps or none, truncated and misaligned tables, a limit that some results pass |
| `pipeline` | The run implements `HookInstall` (`InstallsHooks`); every handler is called (`CallsHandlers`); no patch is lost (`PatchesApplied`), even under a hook (`OverwrittenIsKept`); a failure leaves a copy, or no hook live (`FailsCleanly`); every run ends (`Terminates`) | Two plugins (one owns a shared hook, one owns none), one input wrong at each step, every compiler result, a failing write at any of the writes in place (the write of the whole file, `binary_image.cpp:1545-1553`, whose result the code does not look at, succeeds or does not begin), branches of 1, 3 or 5 words; timestamps that may stand still, except where a patch meets a hook (see below) |
| `symbols` | A hook acts at the address its name, signature or method means, or the run is refused (`HooksTheNamed`); no method in a list that is read is refused, and a class's own comes before a category's (`MethodsAreFound`); a call or a slot is that of the name, and every name that is listed can be called (`CallsTheNamed`). What is built from a plugin's objects reaches what the source names, through veneers, stubs and slots, or is refused (`CallsArrive`, `DataArrives`); a patch written over the file does what its text says, and replaces what it expects (`PatchesArrive`) | Files of both formats with up to three functions (names that are part of one another, mangled, differing by underscores), every way to count the symbols of an ELF, stubs in and out of order, every kind of pointer to methods, methods in classes, metaclasses, categories and relative lists; one or two declarations of every kind. Every relocation type, alone and in pairs, in C++ and in two assembly functions; targets near, in reach of ADRP only, and farther. Patches of one to three statements of every kind the rewriting tells apart, by name and by number, in and out of reach; two patches of one place, the second expecting what the first left or not |
| `patch_script` | A script's plugins are one per hook, and what the text of each declares is what is written below that hook's header and no other: source, kind, handler, registers, and its method, signature or function; of a directory those plugins are run whose names, without extension, the lists allow, none twice (`PluginsAsAsked`); no temporary directory is left, its removal taken to succeed, and the output is not touched too early (`LeavesNothing`) | Up to three sections in each order, one thing wrong at each step, directories of up to three entries under each pair of lists |

**Bounds in the modules.** `MaxItems` (window length), `MaxSlices` and `MaxEntries` (limits
of the code, smaller), `Limit` (2^32 of the narrow table), `TextEnd` (length of the program),
`MaxName` (14 in the code), `MaxBase` (room for the plugins' common
prefix in a 16-byte segment name), `MaxMethods` (longest list of methods that is read), `HighBits`
(first bit of a pointer above its address), `StubStep` (size of a stub whose section does not
say), `Wide` (2^32, from where a number in a text is an address in any file). No counter is
unbounded: each is an index into the input.

**Fairness.** Only `Pipeline` states it, for `Terminates`. Weak fairness of the main thread
says that the process runs: no step of it waits for anything but the compilers. Weak fairness
of the compilers says that some compiler that has not returned yet returns: the code waits for
`clang` without a timeout (`pipeline.cpp:497-530`), so it ends only if they do. The set of
compilers is finite and none returns twice, so that is enough for all to be joined.

## Where the code and its documents disagree

Five have a run that shows the property violated; `PROJECT.json` quotes the sentence.

| run | property | what happens |
|---|---|---|
| `dispatch_swap` | `ArgumentsCopied` | Operands `x1, x0` arrive as `x1, x1`: the moves are not parallel (`patcher.cpp:64`, and `:104`) |
| `detour_arguments` | `ResumesWithArguments` | A detour saves x0 to x3 around its handlers (`patcher.cpp:84-98`). A function with more register arguments is resumed with what a handler left in x4 to x7; `docs/api-reference.md:9` says that it is resumed |
| `fixups_loaded` | `FixupsLoaded` | The entries of the segments in the chained fixups count from the starts, as linkers make them. The code takes them to count from the blob (`binary_image.cpp:398`, `:608`), so one below the point of insertion stays while what it leads to moves, and the loader loses the fixups of that segment. In a usual file, with the starts at 32 and four segments, entries are inserted near 48, and the first entry is 24 |
| `plugin_filenames` | `FilenamesCount` | The lists take filenames, say `docs/configuration-and-diagnostics.md:22-23`; they are compared with names that have no extension (`pipeline.cpp:932`, `:1020`), so a blacklisted `a.cpp` is run, and a whitelist of filenames selects nothing |
| `fat_image_offset` | `CaveFilled` | After the write, the image's offsets are of the slice and are used as offsets in the file (`segment.cpp:148`): another slice is overwritten and the cave stays empty |

The others are kept out of the passing runs by their inputs or by what a property speaks of.
Each is named here with the input that shows it:

- *ADRP* (`relocator.cpp:39`). `remap_target` takes the page an ADRP computes for a target in
  the window if the page starts there, and gives it the page of the copy. `relocator` has such
  windows; `BranchesPreserved` speaks of branches only.
- *Mismatch* (`pipeline.cpp:813`). `docs/configuration-and-diagnostics.md:25-26` says that
  expected-byte mismatches "cause a non-zero exit status"; they warn (`warned`), the patch is
  skipped and the status is 0. `pipeline` has such inputs; `PatchesApplied` leaves patches
  with an expectation out.
- *Close hooks* (`pipeline.cpp:863`). Two hooked addresses nearer than the branch at the first
  are not refused, and the branch at the second cuts the first. With `Detour(1), Detour(3)` in
  one plugin `CallsHandlers` is violated; the inputs of `pipeline` keep hooks six words apart.
- *Covered patch* (`pipeline.cpp:149`, `:822`). A patch under a hook, written in the clock tick
  of the segments, is not seen by the cached image when the words are read again. With
  `Detour(1), Patch(2, 1)` and a coarse clock `OverwrittenIsKept` is violated; that is why
  `MCPipeline` gives those inputs a fine one.
- *Shared segment name* (`segment.cpp:100`, `binary_image.cpp:1242-1250`). The segment of all
  the code is named after the plugins' common prefix with `_code` behind it. A plugin `n_code`
  beside a plugin `n` gets the room of the whole segment instead of its own (`n`'s). `image_writers` has
  such plugins; `FoundByName` leaves out those `Shadowed` so.
- *Hooks by symbol* (`symbols.cpp:231`). `docs/api-reference.md:12-13` speaks of a "unique target
  symbol". A name that is all of one function's and part of another's is refused, and so are
  `exit` and `_exit` in one file, which differ by an underscore. `symbols` has such names;
  `HooksTheNamed` holds because they are refused.
- *Code for signatures* (`signature.cpp:45-52`). `docs/architecture.md:53` says that a signature
  "must identify exactly one executable location". Where a file has sections with `text` in their
  name, only those are searched, so a signature that also matches in `__objc_stubs` is
  accepted. `symbols` has such a file; `HooksTheNamed` allows the one match in text sections.
- *Methods* (`apple_metadata.cpp:115`, `:164-174`). Class methods are in the metaclass, which is
  not followed, and relative lists are read as lists of pointers, so methods in either are
  refused, as are those of a category of a class outside the file. `symbols` has such methods;
  `MethodsAreFound` speaks of the lists that are read (`IsRead`).
- *Fixups for the lookup* (`binary_image.cpp:398`). Counting from the blob, the parser finds no
  fixups, or other bytes, in a file whose entries count from the starts. The inputs of
  `Lookup` have those the loader applies, so what it says of slots and pointers bound by a fixup
  holds of files on which both counts agree.
- *Data and comments in patches* (`compiler.cpp:722-737`). A directive counts as no bytes and a
  comment as an instruction, so a branch or an ADRP behind one goes beside its target.
  `docs/hook-api.md:20` and `:43` promise both branches and directives. The texts of `symbols`
  have both; `PatchesArrive` leaves such lines out (`Countable`), as it does a comparing branch behind a label
  on its own line, whose number is not taken for an address (`compiler.cpp:623`).
- *Labels* (`compiler.cpp:914`). The address of a label of an assembly function, taken by a page
  relocation, lacks the function's offset; `docs/api-reference.md:19` promises local labels.
  `symbols` has assembly functions with such a pair; `DataArrives` leaves it out.
- *Symbols* (`symbols.cpp:175`, `:459`). `docs/api-reference.md:24-26` says that functions and
  objects of the target are bound by symbol; a Mach-O function, and an object in either format,
  is found only if the file imports it. In `symbols` these end as `unresolved`.

Observed while reading, with no document to compare with:

- `stage_plugin_sources` copies a single plugin file of a script into a directory that is
  not made before, and ignores the failed copy (`pipeline.cpp:942-963`, `1087-1091`): the
  key `plugins` of a script then has no effect. `PatchScript` models it as it is.
- A load through the GOT of a datum of the plugin itself keeps the load and gets the address
  of the datum (`symbols.cpp:523`); `DataArrives` leaves such pairs out.
- If the frame of the dispatchers cannot be compiled, an empty frame is kept as valid
  (`patcher.cpp:126-134`).
- The bits of a pointer in the chained fixups are read the same way for every pointer format
  (`binary_image.cpp:359`, `:426`).
- `BinaryImage::write` truncates the output and does not look at the result of the write
  (`binary_image.cpp:1545-1553`); on a full disk the run goes on with a file that is cut. The
  writes in place are checked. `Pipeline` leaves the short write out (`AddSegments`).
- `run_patch_script` ignores a failing `remove_all` (`pipeline.cpp:1130-1139`).
- `__LINKEDIT` grows in the file by the entries added to the table of the fixups, its size in
  memory does not; `NothingOverlaps` allows it that much.
- `apple_metadata.cpp` understands pointers that count from the base of the file, which
  `symbols.cpp` does not.
- In an assembly function, a `b.cond` or comparing branch to an absolute address becomes a
  distance from address 0 (`compiler.cpp:661`, `:712`); `b`, `bl` and ADRP become relocations.
- Registered functions with register arguments are called through their wrapper from patches and
  directly from assembly functions (`pipeline.cpp:810`, `compiler.cpp:1098`).
- A patch of a size repeats its payload with the distances of the first copy
  (`pipeline.cpp:420-429`); the macros of `armcave.h` never ask for one.

## Proofs

| module | theorem | property | run |
|---|---|---|---|
| `RelocatorProofs` | `TypeCorrect` | `TypeOK` | `relocator` |
| | `Convergence` | `NeverDiverges`: the layout is stable within N + 4 passes | `relocator` |
| | `SizesAgree` | `NeverMissized`: `emit_item` writes what `item_size` planned | `relocator` |
| | `RoomIsEnough` | `FitsReservation`: the copy fits `max_relocated_size` | `relocator` |
| | `CodeInPlace` | `EmittedInPlace`: code stands at the address it was encoded for | - |
| | `ControlFlowKept` | `BranchesPreserved` | `relocator` |
| `CavePlanProofs` | `TypeCorrect` | `TypeOK` | `cave_plan` |
| | `PartsAlwaysFit` | `PartsFit`: no part of a cave overwrites another, or overflows it | `cave_plan` |
| `HookDispatchProofs` | `TypeCorrect` | `TypeOK` | `dispatch` |
| | `CallsInOrder` | `HandlersInOrder` | `dispatch` |
| | `ArgumentsArrive` | `ArgumentsDelivered` | `dispatch` |
| | `SavedStays` | `SavedIsRestored`: x0 to x3, the callee-saved registers, frame, return address and stack | `dispatch` |
| `PipelineProofs` | `TypeCorrect` | `TypeOK` | `pipeline` |
| | `CleanFailures` | `FailsCleanly` | `pipeline` |
| | `NoHookDangles` | `NoDanglingHook`: a live hook finds its dispatcher and its handlers | - |
| | `HandlersAreCalled` | `CallsHandlers`, if hooks are apart | `pipeline` |
| | `ImplementsHookInstall` | `InstallsHooks`, if hooks are apart | `pipeline` |
| | `WordsAreKept` | `OverwrittenIsKept`, if hooks are apart and the clock is fine | `pipeline` |
| | `PatchesAreApplied` | `PatchesApplied`, under the same conditions | `pipeline` |
| `PatchScriptProofs` | `TypeCorrect` | `TypeOK` | `patch_script` |
| | `RunsWhatIsAsked` | `PluginsAsAsked`: each hook is declared with all that is written for it | `patch_script` |
| | `NothingIsLeft` | `LeavesNothing` | `patch_script` |
| `PluginRelocsProofs` | `TypeCorrect` | `TypeOK` | `symbols` |
| | `CallsAlwaysArrive` | `CallsArrive`: every call of a plugin arrives | `symbols` |
| | `DataAlwaysArrives` | `DataArrives`: every page and offset is that of the datum meant | `symbols` |
| | `WithPatches` | the three together, with the patches that follow | - |
| `MachoWriterProofs` | `TypeCorrect` | `TypeOK` | `image_writers` |
| | `NamesDistinct` | `Distinct`: no two sections have one name | `image_writers` |
| | `Apartness` | `NothingOverlaps`: segments are apart in memory and in the file | `image_writers` |
| | `WhatWasThereFollows` | `Follows`: every offset follows its table | `image_writers` |
| | `PluginsAreFound` | `FoundByName`: a plugin finds its own section | `image_writers` |
| | `FixupsStay` | `FixupsFollow`: of segments whose entry is not below the point of insertion, parser and loader read the same fixups in the output | `image_writers` |

`OrderedProofs` holds the lemmas about `Ordered`.

### The relocator

For windows of every length, every source and destination, and every reach.

*Assumptions.* `ReachAssumption`: reaches and pages are positive multiples of 4 and a page
reach is whole pages. `RelocatorAssumption`: the decoder yields aligned targets for branches
and literal loads and page addresses for ADRP. `WindowAssumption`: a window, grown as much as
it can, is shorter than every reach; the code has windows of at most 5 instructions, so 120
bytes, against 32 KB for the shortest. TLC evaluates all three in the runs of `MCRelocator`.

*Argument.* `NeverDiverges` is not inductive, nor is any statement about sizes alone.
Could the layout oscillate? An item's size depends on its own address and its target; a
target inside the window is never far (`ShortReference`, from `WindowAssumption`), so its
size does not depend on where the others are. So the size an item is given in a pass
depends on the sizes of the items before it alone: after pass *n* the first *n* items are
settled. `IInv` says this with `SettledTo(pass)` (the first `pass` items have the size their
address needs) and `LinkedTo(pass + 1)` (their addresses follow one another), and with the
bounds on the addresses that `ShortReference` needs. A pass that is not stable is then one
with `pass < N`, so the N + 4 passes of the loop never run out. When a pass is stable, all
items are settled and linked, so the sizes emitted are the sizes planned
(`EmittedSize` relates `emit_item` to `item_size`, encoding by encoding), each item is
emitted at its address, and a target mapped to an item is the address of that item's copy.

### The layout of a cave

For plugins with any number of sites, handlers, wrappers and calls, any amount of code and
data, and any page size.

*Assumptions.* `ReachAssumption`, as above, and `CavePlanAssumption`: segments start on
aligned addresses, code is whole words, and a wrapper enters the plugin's code at a word of it.
`PartsFit` speaks of caves that one `B` can cross (`Near`): within 128 MB, as every cave of
the program is.

*Argument.* The offsets are known before the code that goes there, so the invariant must tie
each part to the room that was reserved for it, and each room to the next. `ReservedInv` says
that the rooms of the dispatchers, then those of the wrappers, follow one another and end by
the cursor (`InTurn`, `EndBy`); `CodeInv` that all of them end where the code starts, and the
code and its data by the end of the segment; `BuiltInv` that the code built so far, with the
longest veneer at each call resolved, is within its bound. `PlacedInv` says that each part
placed lies in its room. That is where bounds and generators meet: `DispatchFits` compares
every size that `build_hook_dispatch` can produce with `hook_dispatch_size`; `WrapperFits`
shows that a wrapper is within `plugin_wrapper_max_size` although that has no room for the
far branch a `new_cpp_func` could need, because within its cave a wrapper is near its code.
`RoomsApart` draws the conclusion pair by pair.

### Dispatchers and wrappers

For any number of handlers with any operands in any order, on either format, with return
addresses signed or not, each branch near or far.

*Assumptions.* `DispatchAssumption`: the stack pointer is a multiple of 16, as the procedure
call standard has it at every call, with 48 bytes below it for a detour's frame and arguments;
a hook has handlers, and a `new_cpp_func` has one, with operands (the wrapper is made for these
only, `pipeline.cpp:701`).

*Argument.* A proof in the style of Floyd. `IInv` says where the program is, one assertion for
each point of the generated code (`Entering`, `Between(n)`, `HalfSaved(n)`, `Calling(n)`,
`Wrapping(n, j)`, `Handling(n)`, ...: what is on the stack, and which registers still have
their values), and what holds everywhere (`Always`: the callee-saved registers, the stack of
the hooked code, the operands of the calls made). The first lemmas compute the code from the
operators that emit it (`DispatcherCode`: the *o*-th instruction of the *n*-th call is at
`First(n) + o`); the next say what each instruction does; then each point leads to the next.
The heart of `ArgumentsDelivered` is `MovingOperand`: before the *j*-th move the registers of
the *j - 1* operands before it are lost and no others. `SavedIsRestored` speaks of what the
dispatcher or a handler must save; of x4 to x7 nothing is kept. `Intact(n)` names the
registers on which a detour and a replacement differ: a replacement has lost its arguments
when the second handler is called.

### The pipeline

For any plugins with any declarations, any length of the program and any failures.

*Assumptions.* `PipelineAssumption` gives the types of the inputs. Three conditions are
hypotheses of the theorems that need them, since the code does not check them and the
properties fail without (see [above](#where-the-code-and-its-documents-disagree)).
`HooksApart`: hooked addresses are at least as far apart as the longest branch.
`~input.coarse`: the clock of the file system tells two writes apart. `PatchesFit`: a patch
that starts in the program's code ends in it; what is behind the code is not in the model.
`TypeOK`, `FailsCleanly` and `NoDanglingHook` need none of them: even with branches that
cut one another and a stale image, no hook leads to what is not in the file.

*Argument.* That a live hook is ready cannot be shown step by step from itself: at the step that
overwrites a hooked address the dispatcher has to be in the file because of writes long before,
in a loop over plugins whose order has nothing to do with that of the hooks. `IInv` has, for
that, that the file is the input until segments are added and has no branch until the windows
are patched (`CleanInv`); that the words captured are words of the program, and then as many as the branch
takes (`WindowInv`); that what was built is one dispatcher per hook, and the code of a plugin
is written together with the dispatchers it owns (`ContentInv`); that the plugins the loop has
passed are complete, code and data (`CavesInv`). After the loop all plugins that have a
cave are complete, an owner has a cave (`OwnerHasCave`) and so has every handler
(`HandlersHaveCaves`), so every hook is ready (`AllReady`).

`ApartInv` adds what needs hooks to be apart: a branch once written stays whole, and the
hooks the loop has passed are live. `CallsHandlers` and the refinement follow:
every action that writes no window makes more hooks ready or does not show, `PatchWindow`
makes one ready hook live, and `Finish` finds all live (`RefinesInit`, `RefinesNext`).
`FineInv` adds that the cached image, where its stamp matches, has the bytes of the file
(`Coherent`), and so the words captured after the patches are those that the branch
overwrites; this is what a stale image breaks. `PatchedInv` follows each patch from
`DirectPatch` on: its word is in the file or under a later patch (`Settled`), or has been
moved to the dispatcher of a hook that is live (`Moved`).

Lists are walked by index throughout, but tlapm knows nothing of `SortSeq` and `SelectSeq`.
`Ordered` defines the list of a finite set by its order instead; `HasList` shows that there is
one by giving each element its rank, the number of elements before it (`Ranks`).

### Patch scripts

For scripts of any length, directories with any plugins and any lists.

*Assumptions.* `InputsAssumption`: a directory has finitely many entries; names are in a total
order; the plugins generated for a script have names of their own (`patch_script_N.cpp`); and a
script is run without lists (`pipeline.cpp:1129`).

*Argument.* `PluginsAsAsked` compares what is run in the end with the text of the script as a whole:
which line is the last, between a header and the next, that gives a value. The reader knows only
the line it is at and the last hook. `IInv` has, line by line, that the *n*-th hook read comes
from the *n*-th header before the line and has in all its eight fields what the lines below it said so far (`Filled`), and that
a line is still below a header exactly if the reader is in that hook's section (`InSection`):
this is why no value reaches another hook. What is declared for a hook depends on these fields
only (`Declaration`, `Declares`). A line read moves the last value
(`LastIsTheLine`) or leaves it (`LastStays`). That a header adds one entry to the end of the
list of headers (`AscendingGrows`) needs that a set has one list only (`OneList`), which
follows from the least place at which two lists differ. Then there are as many files as hooks, since
their names differ (`HookFilesCount`); the choice takes each once, by the order of names
(`SelectionLists`), and with no lists takes all (`ScriptRuns`).

### Relocation of a plugin's code

For plugins of any number of objects, with any relocations in any order, names bound to anything,
any addresses of the cave and of the file's symbols, and any reach.

*Assumptions.* `ReachAssumption`, as above, and `InputsAssumption`, which is about what the
compiler's objects look like: there is at least the C++ object; what an object does not define is
in no section, and a symbol in a section is one it defines; a name that holds an address is of
no datum the plugin defines; data is not in `__text`. Nothing is assumed of the file: a symbol may be
found or not, in reach or not, at address zero or in the cave.

*Argument.* `CallsArrive` and `DataArrives` compare what was written for the *n*-th relocation with
what the objects say of it, so it must be known which one the *n*-th is. `ReadInv` says that the
entries read are the first ones in the order of objects and of relocations in them, addends left out
(`FirstAre`); since that order is total and its list leaves nothing out, the one being read is the
next in the list (`NextOrigin`), and the pending addend is that of the entry before it
(`PendingAt`). `ReadInv` has also where the objects are placed and which functions are registered
(`FunctionsBefore`). The place of an object is defined by recursion; that the recursion has a
solution is shown at the least number of objects without one (`LayoutExists`). `BoundInv` has each entry after
the binding as a function of the objects alone, so the order in which functions and handlers
were registered no longer matters (`RegisteredAre`).

The address of the data is fixed before the veneers are made, from the number of branches.
`VeneerInv` says that the veneers end within the room for the branches resolved so far, 20 bytes
each, so within what was planned when all are resolved; the data then begins where the
resolved accesses have assumed it (`ResolvedInv`, `BuiltInv`). Last, the target of an entry is compared
with what its object means, by kind and section (`OwnTarget`, `CallMeant`, `DataMeant`).

### The Mach-O writer

For any plugins with any names, any hash, any sizes of the page and of the commands, and any
file that a linker makes.

*Assumptions.* `NamesAssumption`: a name has room for the longest suffix (14 symbols in the
code). `WriterAssumption`: sizes are positive, a page is a multiple of 16 bytes, and each file
is `Linked`. What is `Sound` of it must be so after the caves are added too: no two
segments share a page in memory or a byte in the file, which holds them all; `__LINKEDIT` is
behind the others, begins a page and has the tables in it, clear of one another. Two more
conditions are of the input alone. Some section has bytes, as the header ends before the first
that has. A signature that ends the file is not all of `__LINKEDIT`: the cut would leave
a segment of no bytes, and `adjust32` moves offsets at the point of insertion or behind it, so
the segment in front could move with it. Linkers put symbol tables before the signature.
`FixupsHeld` is what `FixupsStay` needs of the input: the imports and their names are behind the
entries in the blob; whichever way the entries are counted, `__LINKEDIT` has no fixups, and no
segment has chains on a page behind its last; words that are imports or pointers have numbers in
their fields. Nothing is assumed of where an entry leads or where it is counted from, so files as
linkers make them are among the inputs. It is the property that leaves out the segments whose
entry is below the point of insertion (`EntryPoint`, `Led`): for these it is false, as
`fixups_loaded` shows.

*Argument.* `Sound` is not inductive: that the room is made in front of `__LINKEDIT`, and is
what the caves need, was decided steps before it matters. `IInv` has

- `NamesInv`: the names given are those remembered in `used`, and all are distinct; `PlansInv`:
  each plan has a given name, no two the same and none of the file's.
- `FileInv`: the file is `Sound` in every state, `__LINKEDIT` being allowed the entries added to
  the fixups; `KeptInv`: what was in front of `Border`, where `__LINKEDIT` was or the file ended,
  stays, and so does each segment but `__LINKEDIT`.
- `HeaderInv`: the load commands, with those that are still to be added, end before the
  first section and before the caves.
- `LayoutInv`: in its group each plan has a room of its own, and the data's rooms begin on the page
  behind the code's. The recursion of `place_group` is shown to have a solution at the least
  number of plans without one.
- `PlaceInv`: the caves go behind every segment and in front of `__LINKEDIT` where it is
  now; `CavesInv`: each plan has its section and its words, and every segment is the file's or a cave.

Each step has a lemma per part that it can disturb. An insertion of words moves
each offset at the point or behind it, and that `Sound` survives depends on the point being no
inner point of anything but `__LINKEDIT` and the table that grows: this is where the order of
the segments in the file is needed. The fixups' entries go into the middle of a table; that
its first and last words stay first and last needs that entries are followed by what they lead
to (`StartsHeld`). For `FoundByName`, a segment of the plugin's name is a cave that is named
so, `Shadowed` tells when it is not the plugin's own (`NamedSegment`), and otherwise the one
section that has the name is its own (`NamedIsOwn`), since names are distinct and none is the
file's.

`FixupsFollow` compares the readings of two files, so it needs to be known where each word, entry and segment
that the parse looks at has gone. `IInv` says only that they are somewhere. `FixupsInv` says where,
with `k` the entries added so far and `place` the index of the first cave:

- `SegmentsInv`: the segments in front of `place` keep their index, the others are as many
  behind as there are caves; all but `__LINKEDIT` are as they were, and what is new lies above
  the address `__LINKEDIT` had, so that the lowest address, which targets may count from, stays.
- `EntriesInv`: the entry of a segment is where the segment will be, and has grown by `k` if it
  is not below the point of insertion, else stays; the new ones are 0; each word of the blob behind the entries is `k` further on, and so
  are the offsets of the imports and of their names.

`FixupsInv` holds in every state up to the removal of the signature because the file is as it was read
(`FixupsEarly`), and every later step keeps it (`FixupsNext`), `IInv` holding before and after.
An entry that is added counts from the blob, so it moves no pointer of a segment in front of
`__LINKEDIT`, and since the index is `place - 1 + k` it comes after those added before
(`StartsFollow`). From both, the two readings agree (`FixupsAre`), from either base: a word of the blob is read at an
offset that has moved with it (`WordFollows`), and an address of a page of chains leads to one
segment only, whose bytes are the same (`PointerFollows`). A chain is a recursion over the offsets
in a page; no induction is needed, because the two definitions have equal bodies, so `CHOOSE`
takes the same function for both (`ChainFollows`).

### Only model-checked

- `Terminates`: liveness is out of this prover's reach.
- `PatchesArrive`: `WithPatches` shows that the patches leave what was built alone, not what they
  write. The texts of the patches are flattened and folded over, which is an induction over data.
- `ElfWriter`, `FatImage`, `Lookup`: their definitions filter, flatten and fold sequences, of which
  the prover knows nothing; those of the modules that are proved define lists by their order.

## Not modelled

- *Decoding of bytes*: instructions, load commands, section headers, the formatting of
  diagnostics, the text of signatures and of metadata. Pure functions of the file whose correctness
  is the tables of the formats; the models take what they yield as input.
- *Swift metadata* (`scan_swift_*`, `enumerate_swift_metadata`): has no caller. The printed
  lists of symbols; of `list_available_symbols`, `Lookup` has which names it offers.
- *Control-flow graphs, function IR, discovery and fingerprints* (`cfg.cpp`,
  `function_ir.cpp`): built with the program and documented (`docs/architecture.md:41`), but
  called by no other part of it.
- *Legacy caves*: `build_hook_cave` and `patch_hook_macho` have no caller but each other.
- *Running clang*; code signing; the progress display. In `PatchText` names of labels with a
  leading dot, and statements inside quotes, are not represented.
- *The lifetime of references to the cached image* (`pipeline.cpp:748`): models have values, not
  objects.
- *The code a handler runs*, and the macros of `armcave.h` beyond the dispatcher's frame.
- Update of a section that exists already (`add_executable_section`,
  `update_existing_section`): the pipeline refuses a file that has a plugin's segment.

## Plan

Order in which the modules are written; those above the line are here.

1. `Aarch64`, `Relocator`, `RelocatorProofs`: all else relies on copied code.
2. `BinaryCache`, `HookInstall`, `Pipeline`: the order of writes and reads.
3. `CavePlan`, `HookDispatch`: the contents of a cave.
4. `MachoWriter`, `ElfWriter`, `FatImage`, `SegmentNames`, `ChainedFixups`: where it goes in the file.
5. `PluginRelocs`, `PatchText`, `PatchScript`: what goes in, and what is asked for.
6. `ImageTables`, `AppleMetadata`, `Lookup`: which addresses are meant.
7. *Proofs*: `CavePlanProofs`, `PipelineProofs`, `HookDispatchProofs`, `PatchScriptProofs`,
   `PluginRelocsProofs`, `MachoWriterProofs`.

---

8. *More proofs.* `ElfWriter`: the layout is disjoint and aligned for every page size, with lists by
   their order as in `MachoWriter`; then `FatImage`.
