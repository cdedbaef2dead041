# A formal model of msa2, a two-pass 8086 assembler

msa2 (`src/original/src`, about 3,900 lines of C) assembles 8086 source into a flat
`bin`, a DOS `com`, a `texe` or an RDOFF2 object (`rdf`).  It is a single-threaded
program without concurrency, persistence or messages: what makes it hard is *state that
outlives the step it was meant for*.  The source is read twice by the same loop, three
stacks interleave lines from files and macros, one symbol table holds labels, constants,
macros and imports, and the second pass emits with what the first one remembered.

This directory holds TLA+ modules that model the program from its command line to the bytes
it leaves on disk, TLC configurations that check them, and TLAPS proofs of what could be
proved for every program and every limit.

    tlc -workers 2 -config MCPreprocessor.cfg MCPreprocessor.tla     # model-check
    tlc -workers 2 -config MCAssembler.cfg MCAssembler.tla
    tlc -workers 2 -config MCEncoder.cfg MCEncoder.tla
    tlapm Preprocessor_proofs.tla                                    # check the proofs
    tlapm Assembler_proofs.tla
    tlapm Passes_proofs.tla
    tlapm TwoPasses_proofs.tla
    tlapm Refinement_proofs.tla
    tlapm Encoder_proofs.tla

## 1. Inventory

| Component | State | Operations | Modelled in |
|---|---|---|---|
| Symbol table (`EXPR.C`) | `constants`: name → value, type, section, export flag, `extra` payload | `add_const`, `find_const`, `remove_const`, `qualify_label` | `SymbolTable` |
| Line reader and preprocessor (`MACRO.C`) | pending lines, saved scopes, include frames, `include_depth`, `macro_invocation_id`, `inputname`, `linenr` | `pp_next_line`, `pp_include`, `pp_close_source`, `pp_macro_slurp`, `pp_skip_macro_body`, `pp_macro_invoke`, `pp_reset_pass` | `Preprocessor` |
| Command line (`MSA.C`) | `target`, `org`, `is_org_def`, `entry_point`, `inputname`, `outname`, constants | `main`'s argument loop, `help`, `done` | `CommandLine` |
| Pass loop and exit (`MSA.C`) | pass number, `errors`, `warnings`, the output file | `main`, `check_entry_point`, `add_reloc`, `write_exe_header`, `done` | `Assembler` |
| Line loop and emission (`ASSEMBLR.C`) | `cur_section`, `outptr`, `dataptr`, `bss_amount`, `last_global`, `org`, `entry_point`, `relocs`, `next_import_id` | `assemble`, `match_params`, `do_instruction`, `do_rm_op`, `emit_word_with_reloc`, the directives | `Assembler`; one instruction's bytes: `Encoder`; the directives of the preprocessor: `Preprocessor` |
| Expressions and addresses (`MISC.C`) | none (reads the table) | `get_const`, `get_dword`, `get_type`, `get_address`, `build_address`, `split_line` | `Expressions`, `Opcodes`, `Statements`, `Encoder` |
| Lexer (`LEX.C`), opcode table (`TABLES.C`) | constant tables | `lookupLex`, the rows `match_params` searches | `Opcodes` |
| RDOFF2 writer (`RDF.C`) | none (writes the object) | `write_rdf`, `compute_header_size`, the record writers | `Rdoff` |
| Tests, documents, examples, build files | – | – | read, not modelled |

**How they interact.**  `main` reads its arguments and runs `assemble` twice.  `assemble` asks
`pp_next_line` for a line, which comes from the top of the expansion stack if it holds any, and
from the current file otherwise.  A line is a directive of the preprocessor, a macro call (which
pushes lines for the next `pp_next_line`), or a statement: a label, then a command that emits
bytes, moves a pointer or changes a symbol.  An instruction is looked up in the lexicon, matched
with the rows of the table from its prescan index on, and emitted entry by entry.  All of it
shares one table of constants and one `last_global`, the scope a `.local` name is read in; a
macro expansion installs a scope `@@<id>` of its own, and its end restores the caller's.

**What is hard here**, and the property that says it right (PROJECT.json lists every
instance with its line):

* *Two passes over one source.*  Pass 0 collects symbols, pass 1 emits with them.  Every
  variable is either reset by `main`, reset by `assemble`, or deliberately kept; one wrong
  choice and the passes lay the program out differently.  `ActsAsOnePass` (the refinement),
  `PassesAgree` (same statements), `PassesLayOutAlike` (same offsets), `ReferencesResolved`,
  `ImportIdsUnique`, `ExportsComplete`.
* *Three stacks that must move together.*  A sentinel among the pending lines ends an
  expansion and pops a saved scope; the recursion guard counts the scopes, not the
  sentinels; a counter guards the include stack.  `StackDiscipline`, `ScopeClosed`,
  `PastedInPlace`.
* *Ownership of `inputname`.*  It points to `argv`, or to a heap copy owned by whoever goes
  back to the including file.  `NamesLive`, `ArgvFreedOnlyByStop`.
* *A table entry that changes its type* while its `extra` pointer stays.  `ExtraMatchesType`.
* *A table of some 280 rows nobody reads back*, an operand parser that edits bytes already
  emitted, and prefixes cut off by fixed offsets.  `DecodesBack`, `OnlySalCrashes`.
* *Addresses of bytes not yet written.*  A relocation must name the offset its bytes land
  at in `.text` or `.data`, once, and the linker must make the right address of it.
  `LinksRight`, `RelocsOnOperand`, `RelocsPatchable`.  In `.bss` the code does not keep to this:
  `RecordsWhereBytes` (violated, see 5).
* *Sizes reckoned apart from what they are sizes of*: the object's header, each record's
  length, the .exe header written before the code.  `ObjectReadable`, `ExeHeaderFresh`.
* *Errors told and forgotten* between passes, and files left half written.
  `OutputOnlyIfClean`; `ErrorsFail` (violated, see 5).

## 2. Modules

    SymbolTable ── Expressions ── Opcodes ── Statements ──┐
         │              └──── CommandLine ────────────────┤
         ├── Rdoff ───────────────────────────────────────┴── Assembler ── TwoPasses ── MCAssembler
         │               Opcodes, Decoder ── Encoder ── MCEncoder       (OneGo == INSTANCE OnePass)
         └── Preprocessor ── MCPreprocessor                 Statements ── OnePass

    SymbolTable_proofs ──┬── Preprocessor_proofs
                         └── Opcodes_proofs ──┬── Encoder_proofs
                                              └── Assembler_proofs ── Passes_proofs
                                  Refinement_proofs ── TwoPasses_proofs ───┘

**`SymbolTable`** – names, entries and payloads.  A `Sym` is a name as it is spelled
(global, `.local`, `%%unique`, number, macro argument); `QName` is `qualify_label`; a table is
a function from qualified names to entries.  The linked list, its order and the hash are
abstracted.  `AddConst` keeps an entry's export flag, section and `extra`, as the code does.

**`Preprocessor`** – one action per handler of the read loop: `StartPass`, `OpenFails`,
the five outcomes of `pp_next_line` (`EndExpansion`, `ReadPending`, `ReadFile`, `PopInclude`,
`EndOfSource`), the directives, `InvokeMacro`, `Statement`, `CloseSource`.  A program is a
function from file names to lines.  The two ways a body is ended are kept apart: pass 0 slurps it
up to the word `%ENDMACRO`, while pass 1, skipping it, stops at any line that begins so (`BodyEnds`;
`%endmacrox` stands for a line that goes on).  A heap copy of a path is named by the include depth
that made it, `argv`'s string is 0, and `freed` records what was freed.  What the
assembler would do with a statement is reduced to the stream of names it resolves to, which
is what the properties compare between passes.

**`Expressions`** – `get_const`: a sequence of terms, each an operation and a name or number,
applied from left to right; `%define`s evaluated where they are used, up to a depth; what an
unknown name and a division by zero do.  `single_symbol_ref` and the SEG forms.

**`Opcodes`** – the lexicon, the rows of `instr86` (grouped by the patterns they repeat),
`get_type`, `match_params`, `get_address` and `build_address`, and the *chunks* an instruction
is laid out in when its bytes are not told apart.  **`Statements`** – a line as `split_line`
hands it over.

**`Encoder`** – one instruction line, on the last pass of an object: `SplitLine` (prefixes,
mnemonic, SHORT/NEAR/FAR, operands), `EmitPrefixes`, `TakeRow`/`NoMatch`, then an action per
kind of row entry.  `out` is `outprog`, with bytes already in it; `Prefixed` is the insertion of
a segment prefix, with the code's copy of exactly four bytes.  `Stale` is what the line
buffer may hold behind a REPNZ that stands alone: reading it is undefined in the code, so any of a
few texts may be found.

**`Decoder`** – the other direction, written from the 8086's opcode map and not from the table:
the bytes' prefixes, mnemonic, operands and where each operand's field lies.

**`Rdoff`** – `write_rdf` byte by byte, and, from `doc/rdoff2-spec.md`, a reader and a linker that
places the sections and imports and applies the records.

**`CommandLine`** – an argument is an option's letter or plain text, and plain text is not empty
(`CommandLinesAssumption`); one action per branch of
the argument loop, `Settle` for what follows it, `GiveUp` for `help` and `done(1)`.  `isOrgDef` is
`is_org_def`: each format but `bin` sets it, nothing clears it, and ORG asks for it and not for
the format, so that `-f com -f bin` refuses an ORG that `-f bin` takes.  A number is what it is
worth and whether it is spelled with `0x` (`NumberRead`).

**`Assembler`** – the statements, one action per command, and the emitting of an instruction
or a DB/DW/DD list one chunk at a time: `bytes`, `byte`, `word`, `long`, `rel8`, `rel16`, `far`,
`addr` (`[e]`), `based` (`[BX+e]`).  `StartPass` is the body of `main`'s loop with what
`assemble` resets on entry, `EndPass` writes the file, `Exit` is `done`; `CannotOpen` is an
`fopen` that fails on either pass and `NoSource` a command line without a source.  The
variables `image`, `trace`, `reported` and `steady` are history: no guard reads them (the bytes
written to the object are read off `image`).  `trace` keeps, for each pass, the name, scope and
section every line began with, and in `ptrs` the three pointers as they stood there and after each
of its chunks.  Macros and %include are not repeated here: the
program is the list of lines the preprocessor delivers, which `Preprocessor` shows to be the
same in both passes; the constants of `%define` are here because `get_const` evaluates them.

**`OnePass`** – the abstract specification: an assembler that knows every symbol beforehand
goes over the program once, a line at a time.  What a line says of its label is what was known,
its fields follow one another from where it begins, and each holds what its operand is worth.
It may fall silent at any time, after which it promises nothing.  **`TwoPasses`** gives the refinement
mapping: pass 0 is a stutter before `Begin`, whose `known` is the table pass 0 has left;
the chunks of a line become its fields when the line is complete; a complaint, or a program
that is not `Steady`, is silence.

The correspondence of each definition to its lines is `map` in PROJECT.json.
**`MCPreprocessor`, `MCAssembler`, `MCEncoder`** instantiate them for TLC; the modules
`*_proofs` hold the proofs.  Definitions introduced by "Defect:" or "Mutants of" are the faulty
variants used to show that each checked property can fail; no specification uses them.

## 3. Runs

| Run | Shows |
|---|---|
| `preprocessor` (MCPreprocessor.cfg) | passes; 286,659 states |
| `assembler` (MCAssembler.cfg) | passes; about 144,000 states |
| `encoder` (MCEncoder.cfg) | passes; 47,200 states |
| `argv_freed`, `labelled_call` | violations, see 5 |
| `moves`, `entry_error`, `records`, `dword_list`, `far_jump`, `option_numbers` | violations, see 5 |
| `wrong_opcode` | violation, see 5 |

**preprocessor** checks

* `TypeOK`;
* `StackDiscipline` – one sentinel per saved scope, the counter equals the include stack, both
  stay within their guards, however macros and files refer to themselves;
* `ScopeClosed` – outside expansions no `@@<id>` scope is in force;
* `NamesLive`, `ArgvFreedOnlyByStop` – `inputname` and the suspended names are distinct and
  alive, unless END or an unknown command stopped a pass within an include;
* `ExtraMatchesType` – a macro or `%define` entry has a payload of its kind;
* `Attribution` – in a program that calls no macro the line counter is the position in the file
  in hand, and each suspended file has its own to go back to;
* `PassesAgree` – the passes deliver the same statements and resolve their names alike, as far as
  the two passes see the same macros (`StableMacros`: every `%macro` has its `%endmacro`, no line of a body begins with
  `%ENDMACRO` and goes on, and no
  macro's name is defined twice, a command's, a label, `%define`d or `%undef`ined; pass 0
  registers bodies and pass 1 finds them and skips their text, so each exclusion is a program the
  passes do read differently);
* `PastedInPlace` – what a pass without errors delivers is the program pasted together: included
  files in the place of their `%include`, bodies, `SECTION` lines in them included, in the place of
  their calls, as a recursive function over the text (`Pasted`).  The file that an `%include` *in a
  body* names is pasted behind the outermost call, since pending lines are read before any file;
  `DOC.TXT:732` promises it at the line of the `%include`, as `AsDocumented` states.  Labelled
  calls are left out: `labelled_call` shows what becomes of them;
* `Termination` – every run ends: the two guards make cyclic includes and macros finite.

**assembler** checks

* `ActsAsOnePass` – the refinement: for a program it does not complain of, pass 1 lays out what one
  pass with every symbol known would have laid out.  It subsumes that labels are where pass 0
  left them, that no symbol changes while pass 1 reads it, and that `$` is the start of the line;
* `TypeOK`, the 16 bits of `outptr`, `dataptr`, `org` and the entry point included;
* `PassesLayOutAlike` – every line, and every chunk of it, begins at the same pointers, in the same
  section and scope in both passes;
* `ReferencesResolved` – what was emitted for an operand, forward references included, is its
  final value, `$` being where its line began; a displacement leads to it.  Left out are the
  displacements below -128 and the DD items that are neither a number nor a label, both of
  which the code cuts short (section 5);
* `ObjectReadable` – a reader that follows `rdoff2-spec.md` finds in the written bytes the imports,
  globals, relocations and sections that were meant: every size and length is right;
* `LinksRight` – that file, *linked* with its sections at any of the placements, holds the
  symbols' final addresses, distances and paragraphs in every field that names one, and leaves
  every other field alone; there are as many records as fields that call for one;
* `RelocsPatchable` – the records patch bytes of the object's code and data, none twice, unless a
  pointer went back or something was emitted in `.bss` (`OnlyReserved`; the run `records` is
  about that);
* `ImportIdsUnique`, `ImportsKeepIds` – no import takes the id of a section or of another import,
  nor changes its own, though the counter restarts at 3 on each pass;
* `ExportsComplete` – an exported label is a global of the object wherever its EXPORT stands;
* `ExeHeaderFresh` – the header a texe is delivered with has the size and the entry point of the
  program delivered (its first END's operand, or 0), although it is first written with those of
  the pass before;
* `OutputOnlyIfClean` – a file is left exactly by a run that complained of nothing, none half written;
* `OptionsSettle` – the passes start from what the last option of each kind says, but for two things
  in which the earlier ones tell: the origin and entry point of a `bin` that was another format
  before, and whether ORG is allowed, which it is only if nothing but `bin` was ever asked for;
* `Termination`.

**encoder** checks

* `DecodesBack` – a line taken without a complaint becomes the instruction it says: the bytes
  behind those already there decode to that mnemonic, those prefixes and those operands, all
  of them used up.  Left out are the lines of `KnownWrong`, each of which `wrong_opcode` admits;
* `RelocsOnOperand` – each record lies on the field where the processor finds the operand, after
  every prefix, and every operand that is one symbol and has a word for it has its record;
* `ChunksMeasure` – the chunks `Assembler` uses in place of bytes are as long as the bytes: the
  two models of an instruction agree about where the next one begins;
* `OnlySalCrashes` – no other row leads past the operands;
* `TypeOK`, every byte in 0..255 included.

### Preconditions of the properties

Properties about results hold for runs that are *delivered* (exit code 0), and, where the two
passes are compared, for programs that are `Steady`: names are defined once, ORG comes first and
is a number, and the operand of RESx and the displacement of `[BX+e]` are known where they
stand.  Outside `Steady` the code's passes do differ; the run `moves` shows such programs
delivered with exit code 0.  That two import ids differ is stated for programs without `%undef`, which
may remove an import between passes.  `OptionsSettle` speaks of command lines in which no option
stands where another's value is expected, of the origin and entry point of a `bin` only if no other
format came before it, and of its origin only if `-s` does not spell it with `0x` (`StartWritten`): that
is a documented use which the code gets wrong, and `option_numbers` shows it.  `RelocsPatchable`
speaks of programs in which nothing but reservations stands in `.bss` (`OnlyReserved`), since a DW
there has a record for bytes that are not written, and no pointer ever went back
(`NeverBack`): `outptr` and `dataptr` are 16 bits wide and start again behind 65535, and `RESB -4`
takes four bytes back, so that later records may lie on earlier ones.  The theorem could not be
proved before it was said; the programs of the runs go back nowhere.

### Bounds

| Constant | Value | Why it is enough |
|---|---|---|
| `MacroMax` | 2 (64 in the code) | the guard is met by nested and by recursive calls |
| `IncludeMax` | 2 (8) | a file including itself and two including each other both meet it |
| `ArgMax` | 2 (9) | too few, enough and too many arguments |
| `GetConstMaxDepth` | 2 (64) | chains of one and two, and a cycle |
| `Sources` | every main file of up to three items, with included files of a few | each pair of directives meets in each order |
| `Lines`, `MaxLines` (MCAssembler) | every program of up to 3 of 16 lines as rdf, up to 2 as bin | each definition before, on and after its use, in each section |
| `Chosen`, `Ended` | some 40 longer programs | displacements at -129…128, lists of imports, ORG's wrap, END with and without an operand, code of 511 to 514 bytes, each error |
| `CommandLines` | 33 command lines, with a program that has an ORG and one that has none | each option first, last and twice; each usage error; no source |
| `Placements` | two | sections adjacent and apart, imports above and below them |
| `Lines` (MCEncoder) | every word with no operand and with each of 17, every word that takes two with each pair, 23 forms of address, prefixes, distances | each row is taken and each is missed by one operand |
| `Before`, `Stale` | three bytes; three texts | bytes in front of the instruction; nothing, a word and an instruction behind the line's end |
| `SegOf`, `RegLike` | two names; those that begin like a register | one that exists and one that does not; each way a name can run on |

`Word`, the chunk sizes and the displacement ranges are the code's own.  `bss_amount` is an
`unsigned long` and is left unbounded; the programs keep it small.

### Fairness

`WF_vars(Next)`: the program is one thread that never waits, so as long as it has a step it
takes it.  Which step is taken where several are enabled (an `fopen` that fails, freeing
`argv`) is left open.  The passing runs stop when the program exits; deadlock checking is off
for that reason, and `Termination` shows that they stop nowhere else.

## 4. Proofs

Eight modules, all checked to the last leaf.  `SymbolTable_proofs` and `Opcodes_proofs` hold
lemmas only.

| Theorem | States, for every value of the constants | Module |
|---|---|---|
| `TypeCorrect` | `TypeOK` of `Preprocessor` | `Preprocessor_proofs` |
| `StacksGuarded` | `StackDiscipline` | `Preprocessor_proofs` |
| `ScopesRestored` | `ScopeClosed` | `Preprocessor_proofs` |
| `HeldNamesLive` | `NamesLive` | `Preprocessor_proofs` |
| `ArgvFreedByStop` | `ArgvFreedOnlyByStop` | `Preprocessor_proofs` |
| `PayloadsMatch` | `ExtraMatchesType` | `Preprocessor_proofs` |
| `LinesAttributed` | `Attribution` | `Preprocessor_proofs` |
| `TypesHold` | `TypeOK` of `Assembler` | `Assembler_proofs` |
| `OutputClean` | `OutputOnlyIfClean` | `Assembler_proofs` |
| `OptionsHold` | `OptionsSettle` | `Assembler_proofs` |
| `ImportIdsKept` | `ImportsKeepIds`, an action property | `Assembler_proofs` |
| `ImportIdsApart` | `ImportIdsUnique` | `Assembler_proofs` |
| `ExeHeaderRight` | `ExeHeaderFresh` | `Assembler_proofs` |
| `RelocsApart` | `RelocsPatchable` | `Assembler_proofs` |
| `PassesAlike` | `PassesLayOutAlike` | `Passes_proofs` |
| `ExportsAll` | `ExportsComplete` | `Passes_proofs` |
| `ReferencesRight` | `ReferencesResolved` | `TwoPasses_proofs` |
| `Implements` | `ActsAsOnePass`, the refinement | `Refinement_proofs` |
| `LineTypes` | `TypeOK` of `Encoder` | `Encoder_proofs` (with `Opcodes_proofs`) |
| `RowsInBounds` | `OnlySalCrashes` | `Encoder_proofs` |
| `ChunksHold` | `ChunksMeasure` | `Encoder_proofs` |

**Assumptions.**  Of the constants only what their `ASSUME`s say, which TLC evaluates on the
instances: the limits are naturals (`LimitsAssumption`, `DepthAssumption`), programs are functions
from names to lines without `@@<id>` labels (`SourcesAssumption`), names and keywords are strings
(`NamesAssumption`), a command line is a sequence of arguments none of which is empty text
(`CommandLinesAssumption`), the lines of an `Assembler` program are statements that do not rename
`$` or `$$`, that have the operands their directives need, and that leave `SAL` and `BOUND` to
`Encoder` (`ProgramsAssumption`, `JobsAssumption`), a line of `Encoder` is words with operands behind
a mnemonic only (`LinesAssumption`, `StaleAssumption`), its symbols a table (`SymbolsAssumption`) and
what is in front of it bytes (`BeforeAssumption`), and a name taken for a register is taken for one
of the four (`RegLikeAssumption`).  `NoTextAssumption` and `DollarAssumption` say that three
literals are strings, which the provers do not know.

**The reader.**  `TypeOK` is not inductive: that the line read next is a line needs that the file in
hand is one of the program's and is read no further than its end.  `FilesInv` says so of the file
and of each suspended one, and `TypeInv` adds it to the types; every other proof about
`Preprocessor` starts from it.  `SymbolTable_proofs` shows once what each operation does to a table
and to the payloads in it.

* `StackInv` counts the sentinels among the pending lines.  `PushExpansion`, `PushLine` and
  `PopMarks` say how the count changes as lines are pushed and popped, so that it stays equal to the
  length of the stack of scopes.
* `ScopeClosed` alone says nothing of the scope that is coming.  `ScopeInv` adds that the oldest
  saved scope is no expansion's, and that a `%%` label waits above its expansion's sentinel
  (`Covered`), so none is left to install a scope after the last one was restored.
* `NamesInv` ties what is held to where: the frame at depth d holds string d-1 and `inputname` is
  the string of the present depth.  With `CloseInv` – `pp_close_source` is reached after END or with
  no frame left – freeing another string than `argv`'s never frees one that is held.
* `ExtraMatchesType` is inductive over `TypeInv`: `%define` and `%macro` set type and payload
  together, and `add_const` of another type takes an entry out of the property's reach.
* `Attribution` holds because lines come from the file alone if none is ever pushed, and that needs
  what is in the table: `InFile` says that nothing is pending and that every macro of the table was
  defined by a `%macro` line, so that in a program no line of which names one nothing is pushed.

**The assembler's types.**  `TypeInv` strengthens `TypeOK` by what the types lean on: that the program
and the arguments are still those chosen, that a pass is under way while a line is, and
(`ImportsIn`) that an import has a natural from 3 on for its value and is not `$` or `$$`, as the
segment of a record is computed from it.  `OriginInv` adds that a format other than `bin` has
`isOrgDef` set, so that no ORG moves it.  Each line is typed once (`LineTypes`), what it reads of
the table by way of `get_const` in `GetConstType`, and what it is emitted as in `Chunk`
(`StatementChunks`, `TakenChunks`).

*Folds.*  `get_const`, the import list, a row's chunks and the sum of their sizes are
folds or recursive functions, and the provers have no induction rule with an operator for
parameter.  The lemmas about them go by the set of the prefixes for which the claim holds,
`UpTo`: it holds 0 and with each number the next, so every length is in it.  `GetConstType` (an
expression's value is an integer, whatever it names and however deep the `%define`s) uses it twice,
over the terms and over the depth.

**The run.**  `FileInv` says at each place of `main` what has been done to the output file: nothing
before the passes, opened during one, written after it.  Every step within a pass is `Inside`, which
leaves file, pass and exit code alone; what remains are the five steps of `main` and the errors
of the argument loop.

**The arguments.**  `OptionsSettle` is about the whole command line and the loop has seen part of it,
so the invariant `LoopInv` is the same statement about the arguments *passed so far*: the latest of
each option's values decides, `isOrgDef` is set exactly if one of the `-f` passed named another format
than `bin` (`FixedSoFar`), and the operands passed are the source and, if `-o` did not name
it, the output.  `Tidy` (no option stands where another's value is expected) keeps the loop from
taking a value for an option; `AllPassed` turns "so far" into "all" at the end of the loop.

**Where a pass is.**  `ReachInv`: no line before the one at hand has ended the pass, and a line whose
chunks are being emitted does not.  The first and the last of the
next three rest on it, for both say of a line of the program that each pass comes to it, or that none does.

* `ImportIdsUnique` is not inductive: pass 1 counts from 3 while the table holds pass 0's ids.  It
  holds because pass 1 gives no id at all, and `IdsInv` says why: during pass 0 every import lies
  below the counter (`FirstInv`), and every name an import line reached has listed is in the table
  (`IntroducedInv`); pass 1 reaches the same lines, so each finds its names there.  A `%undef` breaks
  exactly this.
* `RelocsPatchable`: a record is made with the piece of the image it patches, in the same section
  (`SitedInv`), so that a program that emits nothing in `.bss` has no record there.  It lies
  between the pointers its chunk began and ended with, and what is
  emitted later lies behind those if no pointer went back.  So `PatchInv` need only say that the
  records are apart and that the *present* pointers are behind them all (`Filed`); `NeverBack` after
  a step gives it before the step (`TraceInv` ties the trace to the place of the pass).  `SizeInv`
  adds that the sections written are as long as the pointers say, which needs that an rdf's origin is 0.
* `ExeHeaderFresh`: `ExeInv` carries that a texe's origin stays 0 (no option and no `ORG` moves
  it), that the entry point is the first END's once a pass without errors has ended, and that
  the header written last has the pages of the final `outptr`.

**The passes together.**  A property of two passes compares two histories, and neither pass has the
symbols of the other.  So each is compared with a third thing: the lines of a pass form a `Chain`
when every line begins where the line before it has come to (`Joins`), every chunk where the
chunk before it ends (`RunsOn`) and every name is the one its label gives (`Labelled`), all
computed from one table.  `OneLayout`: two chains over tables that say the same of the labels
are the same chain, by an induction over the lines in which a line's operands are known before it
(`KnownAlike`, from `Steady`).  `LaidInv` says that the trace of each pass, and the line under
way, is a chain over the *present* table, and that the table has each label where its line began.  What has
to be shown of a step is therefore that it lets the chains stand although it changes the table:
a line adds its own label, which no other line has (`NamesAre`, `ChainNames`, `LineNameApart`),
and pass 1 changes no value without the warning that ends the comparison (`LineDefines`,
`LineLeaves`; this is what `Settled` is for).  `PassesLayOutAlike` is then `OneLayout` at the
exit.  `ExportsComplete` adds `GlobalsInv`: pass 1 leaves every label it has been over in its
section (`PlacedInv`) and every exported name of a label of pass 0 marked (`HandledInv`), and the
object holds the table of the pass that ended (`WrittenInv`).

**The values emitted.**  `ReferencesResolved` compares what a field got when it was emitted with
what the table says in the end.  `TableStays` says why that is the same: for a `Steady` program that
nobody complained of, a line of pass 1 writes into the table only what it finds there, but for `$`
and the export marks (`SameBut`).  It rests on the invariants before it: what a
label is told is where `LaidInv` says that the table has it already (`LineThere`), the section names
keep their values, the origin and the values of EQU were computed from what has not changed
since (`SeenInv`), and an import keeps its id (`IdsInv`).  `ValueAlike` carries that over to what
any expression is worth, however deep its `%define`s.  What a chunk put down is right for the table at
that moment (`EmitsPiece`, once for each of the kinds of chunk and form of operand, with the widths
and ranges of `Cut` and `Signed` in `CutShort`), so `ImageInv` – every field emitted so far is
right for the *present* table, with `$` where the trace has its line begin – is kept by
every step of pass 1.

**The refinement.**  `Implements` shows that every behaviour of `Assembler` is one of `OnePass`.  What
`OnePass` reads of the table is `Found`, the table but for the export marks and `$`; `SameBut`
leaves it alone, so `known` stands still while pass 1 writes into `consts`, and an operand is worth
the same in both once `$` is where the line begins (`KnownReads`).  Both modules extend `Statements`
and so have its operators twice, over other variables; `SameNames` to `SameAnchors` say that they are
the same functions.

* A step that emits a chunk is a stutter, and the step that ends a line has to be a whole `LayLine`.
  `WorkInv` says meanwhile how much of it is done: the first `m` pieces of the image belong to the
  lines behind, and the rest are what `LaidOut` makes of the chunks emitted so far
  (`LineAtHand`, `RestShown`), whose last offset is the pointer.  `AddsField` and `LineAdds` carry
  it over one chunk, each kind by its case of `Holds`; `LineWhole` reads the line off it when
  `todo` is empty.
* A line without chunks is laid out by the step that reads it (`LineLeft`, `LinePast`), a line with
  chunks is begun by it (`LineBegun`).  That its label says what was known (`Foreseen`) is
  `LineForeseen`, from `LaidInv`: the table has the label already, where pass 0 left it.
* `Begin` is the step that starts pass 1 (`WorkBegins`): `ptr["TEXT"]` is `$$`, by `SeenInv`.
  `Deliver` is the exit, and only a program that has come to its end gets there (`OverInv`, `WorkDelivers`).
* The program falls silent only with a complaint of pass 1 or for want of `Steady` (`ToldIs`,
  `NotGoing`); the mapping lets nothing else be silence, although `OnePass` itself would.

**The table.**  `instr86` is proved about by the groups its rows repeat, once for all its rows.
`TableSafe`: of every mnemonic but SAL the rows address only operands they have (`SafeRow`), and
`match_params` takes a row only for as many operands as the row has types (`RowTaken`).  `ReadyRow`
says of each entry of a row taken that the operand it puts out is of the form it needs: what is a
modrm's is a register or an address, so that `do_rm_op` always finds one of its cases
(`BasedRm`), and an entry that adds to a register's number has a register.

**The bytes.**  `ChunksMeasure` speaks of a row when the whole of it is emitted, so `EmitInv` says of a
row under way (`Emitting`) how far it is: what is left to do are the entries from `k` on, and the
bytes out since the line began are as many as the first `k` entries' chunks hold.  A segment
prefix is put in front of bytes that are out and shifts four of them: it is right because
do_rm_op's entry is the second of its row, one byte behind the prefix's place (`RmBytes`,
`PrefixedBytes`).  SAL's rows are followed apart (`SalRows`), up to the operand they do not have.

**Only model-checked.**

* Both `Termination`s, which are liveness.
* `PastedInPlace` compares with a recursive function over the text, which rests on `RECURSIVE`.
* `PassesAgree` compares the names the two passes of the reader resolve; the invariant that keeps two
  expansions of the same macro abreast is not proved.
* `LinksRight` links what `ObjectReadable` reads, below.
* `ObjectReadable` has a reader walk over the bytes of the object, a recursion whose result depends
  on what the writer put at each place; `DecodesBack` and `RelocsOnOperand` depend on the contents of
  some 280 rows and of the opcode map, one by one, so that a proof would be TLC's enumeration again.

## 5. Where the code and its documents part

Each is a run that TLC finds violated; PROJECT.json quotes the lines.  The programs of
these counterexamples were also given to the assembler itself, with the same result.

| Run | What happens |
|---|---|
| `argv_freed` | END in an included file: `pp_close_source` frees the `argv` string that the outermost frame saved |
| `labelled_call` | `foo: macro` – the label is read within the expansion's scope and replaces it, not just before the body |
| `moves` | a label before `ORG 40`: 0 in pass 0, 40 in pass 1; `[BX+name]` with a name further down: one byte in pass 0, two in pass 1; exit code 0 |
| `entry_error` | `ERROR: No entry point…` is printed and then `errors = 0`: exit code 0 |
| `records` | `DW name` in `.bss`: a relocation record for bytes the object does not have; `mov al,byte [label]`: no record for bytes it has |
| `dword_list` | `dd 1,2,3` emits one value |
| `far_jump` | a far jump to a local label holds 0 where its offset belongs |
| `wrong_opcode` | `or al,5` becomes `or al,[…]`'s opcode with a stray byte; the others are the definitions behind `KnownWrong` |
| `option_numbers` | `-s 0x7c00` sets the origin to 0, since `get_const` knows only a capital `0X` (`NumberRead`); `-dNAME=VALUE` gives 0, and only as the last argument |

`ArgvNeverFreed`, `AsDocumented`, `MovesReported`, `ErrorsFail`, `RecordsWhereBytes`,
`ListsWhole`, `FarOffsetKept`, `EncodesAsWritten` and `OptionsAsWritten` state those documented claims.

Also modelled, and kept out of the properties by a named precondition or written into them: an
`%include` in a macro body is read after the outermost expansion (`Pasted`); a body with a line
`%ENDMACROX` ends there on pass 1 and not on pass 0, and a macro defined twice has on pass 1 the
second body in both places (`StableMacros`); `-f com -f bin` refuses an ORG (`isOrgDef`); a displacement below -128 gets one
byte (`FarBelow`); a DD item that is an EQU name is read as 0 (`EmitLong`); `-s` is without effect on
every format but `bin`; a `.bss` that RESB has taken below 0 is reserved as an unsigned size (`Rdoff`); RESB outside `.bss` reserves in `.bss` all the same (`Reserve`); a flat file
holds the text section only (`Flat`); a name that begins with SEG is taken for the SEG operator
(`SegOf`).

## 6. Not modelled

* Text: `strip_line`, the digits of numbers, character literals, how a DB string is cut up (an
  item of a list is an expression or a run of bytes).
* DD items with character literals in them.
* Writing past the 65000-byte buffers: the outcome is undefined; programs here are far from it.
* 32-bit overflow of an expression's value, and a global's offset beyond 31 bits.
* `SAL` with a count and `BOUND` as lines of an `Assembler` program: `Encoder` has them and shows
  that SAL reads past the operands.
* `OP_CMD_PLUSREGSEG`, which no row uses, and the rows no prescan index reaches.
* The .exe header's other fields, which are constants or wrap at 16 bits, and that its page count
  leaves its own 32 bytes out.
* `%undef $`, which frees the entry `$` keeps being written to: excluded by
  `ProgramsAssumption`.
* Failing allocations: `msa_malloc` ends the program with exit code 4.

## 7. Plan

Done: all modules above.  What is left:

1. A composition in which `Preprocessor`'s stream is `Assembler`'s program, for `%undef` and
   macro-local labels across passes.
2. `Splitter`: `strip_line` and the item loops of DB over a small alphabet of character classes,
   against a reference splitter.
3. Proofs: `PassesAgree`, with an invariant that keeps two expansions of the same macro abreast.
