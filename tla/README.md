# TLA+ models of the Miden VM chiplets, the virtual bus sum-check prover, and the assembler's name resolution and semantic analysis

This directory holds TLA+ models of the chiplet layer of the Miden VM processor, with the TLC configurations that check them. The code modelled is:

- `src/processor/src/chiplets/mod.rs`: the chiplets aggregator, its operation API, row addressing and trace composition.
- `src/processor/src/chiplets/aux_trace/mod.rs`: the two auxiliary columns, the bus `b_chip` and the virtual table `t_chip`.
- `src/processor/src/trace/virtual_bus/sum_check/prover/mod.rs`: the sum-check prover of the virtual bus.
- `src/assembly/src/sema/context.rs` and `sema/passes/const_eval.rs`: the assembler's per-module analysis context (constants, diagnostics, warnings-as-errors) and the pass that replaces constant immediates by their values.
- `src/assembly/src/sema/passes/verify_invoke.rs`: the pass that checks and rewrites invocation targets and counts import uses.
- `src/assembly/src/assembler/module_graph/name_resolver.rs`: resolving a procedure reference to its definition through re-exports.
- `src/assembly/src/assembler/module_graph/analysis/rewrite_check.rs`: deciding whether a module already in the graph needs another rewrite.

`PROJECT.json` maps every model definition to the source lines it translates. It also lists the runs, the mutants, the findings and the hazards.

## The system

The processor hands its expensive operations to four chiplets.

- **Hasher:** permutations, Merkle paths, and hashing control blocks and basic blocks.
- **Bitwise:** u32 AND and XOR.
- **Memory:** word reads and writes.
- **Kernel ROM:** kernel procedures called through SYSCALL.

Each chiplet records its own sub-trace while the program runs. `Chiplets` owns the four of them and exposes the API the executor calls. At the end, `into_trace` / `fill_trace` stack the sub-traces into one table of 18 columns:

- Each segment is tagged by a unary selector prefix: hasher `0`, bitwise `10`, memory `110`, kernel ROM `1110`, padding `1111`.
- At least one padding row always follows the segments, and then the random rows.

The auxiliary trace builder then reads the main trace together with the chiplets table.

- **`b_chip`:** a running product of requests and responses.
  - Requests come from the main trace rows that use a chiplet: block hashing, RESPAN, END, bitwise, memory, HPERM, MPVERIFY, MRUPDATE and SYSCALL.
  - Responses come from the chiplet rows.
  - For a correct execution, the requests and responses must cancel.
- **`t_chip`:** a virtual table with two parts.
  - A Merkle sibling table: MRUPDATE deposits the siblings while hashing the old path and withdraws them while hashing the new path.
  - A kernel procedure table that should include each kernel procedure once.

The virtual bus proves the sum of a composition `g(f_0, ..., f_c)` of multilinears over the hypercube with the sum-check protocol. `prove_rounds` checks its inputs, then sends one round polynomial `s_i` per variable. `sumcheck_round` computes it from the pairs of evaluations that differ in the lowest variable, by adding the same difference once per point. Between rounds, a challenge drawn from the coin reduces the claim to `s_i(r)` and folds every multilinear. `prove` ends with the openings, the multilinears at the final point.

The assembler side is separate. `AnalysisContext` holds the constants a module defines and the diagnostics its passes report. `define_constant` folds a constant expression to a field element. `ConstEvalVisitor` rewrites each immediate that names a constant into that value, provided the value fits the immediate's type. `has_failed` and `into_result` turn the pending diagnostics into a `SyntaxError` or print them as warnings.

`VerifyInvokeTargets` visits each procedure. It reports misplaced `caller`, `call` and `syscall` instructions, self-recursive and undefined local names, and missing imports. It rewrites `module::name` targets to absolute paths, counts the uses of each import, and records the set of invokes of every procedure. Later, the `NameResolver` turns a target into the concrete procedure it names. Its `find` loop follows re-exports from module to module, over the graph's modules and the pending ones, and stops at a definition, an error or a recursive alias. `MaybeRewriteCheck` borrows the resolver. For a module already in the graph, it resolves every invocation target of the body in visit order. It answers true at the first target that resolves through an alias, an import or a cached MAST root. It answers with the error at the first target that does not resolve, and false when every target is already exact.

## Modules

| Module | Models | State and actions |
|---|---|---|
| `Chiplets` | `Chiplets` in `mod.rs` | State: the sub-trace lengths, kernel, access counts, clock, phase and composed table. There is one action per API method: `permute`, `build_merkle_root`, `update_merkle_root`, `hash_control_block`, `hash_span_block`, `u32and`, `u32xor`, `memory_access`, `access_kernel_proc`, `advance_clock` and `into_trace`. `fill_trace` follows the column match arms, the `push_column_slice` / `split_at_mut` windows and the selector fills, and records in each cell which chiplet wrote it through which fragment column. |
| `ChipletsExec` | The executor as the bus sees it | State: main trace rows, hasher cycles, bitwise cycles, memory rows, memory contents, kernel access counts and the decoder's block stack. Actions: start a control block, a SYSCALL or a basic block; RESPAN (only after an operation of the current batch); END; HALT; an operation using no chiplet; and the chiplet-using operations U32AND/U32XOR, MLOAD, MSTORE, MLOADW, MSTOREW, MSTREAM, RCOMBBASE, HPERM, MPVERIFY and MRUPDATE. `ChipletCell` lays the sub-traces out exactly as `fill_trace` does. |
| `ChipletsAux` | `aux_trace/mod.rs` | Every request builder, every response builder, `get_requests_at` / `get_responses_at`, the sibling add/remove builders and the kernel table inclusion are translated over the traces of `ChipletsExec`. |
| `SemaContext` | `context.rs`, `const_eval.rs` | State: `constants` (value and defining expression per name), `procedures`, pending `errors`, `warnings_as_errors`, the immediates, and the diagnostics `delivered` in a `SyntaxError` or `emitted` as warnings. Actions: `set_warnings_as_errors`, `register_procedure_name`, `define_constant` (conflict check, then `const_eval`: rhs before lhs, Felt arithmetic mod `P`, `Felt::inv(0) = 0`, u64 `IntDiv`), `error`, `eval_const` (the visitor on one immediate), `has_failed` and `into_result`. The callers (the analysis driver and the parser) are not under `src/`, so any call order is allowed until the analysis fails or ends. |
| `VerifyInvoke` | `verify_invoke.rs` | State: whether the module is a kernel, the bodies with their targets as rewritten so far, the current procedure and instruction, the visitor's `invoked` set, each procedure's recorded invokes, the import `uses` counters and the diagnostics reported. An alias is kept as its name only, which is what `visit_mut_procedure_alias` looks up (`alias.name()`). Actions: `new` (a visitor for one procedure), `visit_inst` (the `visit_mut_inst`, `exec`, `call`, `syscall`, `procref` and `invoke_target` handlers for one instruction), `visit_procedure_end` (`extend_invoked(mem::take(..))`) and `visit_procedure_alias`. |
| `NameResolver` | `name_resolver.rs` | State: the pending modules, the current `CallerInfo`, `find`'s loop variables (`current_caller.kind`, `current_callee`, `visited`) and the result. Actions: `push_pending`, `resolve_target` (all four target kinds, with `resolve`, `resolve_local` and `resolve_import`), and `find_step` (one iteration of `find`'s loop, ending with the `get_mast_root` match of its caller). Module indices into `graph.modules ++ pending` are abstracted to paths. |
| `ResolverTypes` | `name_resolver.rs` | The resolver's constants and what depends on them alone: target and result constructors, the `get_mast_root` match, the digest lookup, `resolve_local`, `resolve_import`, and the procedures a re-export chain reaches. Shared by `NameResolver` and `Resolution`. |
| `Resolution` | What `resolve_target` promises | The abstract resolver. State: the pending modules, the caller, whether a resolution is owed, the answers it may give, and the result. Actions: `push_pending`; `call`, which answers at once or leaves a resolution owed; and `answer`, which gives one of the owed answers in one step: the definition the re-export chain reaches (with the result kind of the target; for a syscall caller only a definition of the kernel module, as `find`'s comment promises), or an error when it reaches none. Weak fairness on `answer`. |
| `RewriteCheck` | `rewrite_check.rs` | Extends `NameResolver`. State: the module being checked, the position in its body, whether a resolution is outstanding, and the answer. Actions: `check` (a fresh visitor), `visit_target` (`visit_syscall`, `visit_call` or `visit_invoke_target` calling `resolve_target`), `visit_result` (the match on the resolver's answer, then `Break` or `Continue`), `module_done` (`Ok(false)`). It also has the resolver's own steps: `find_step` during a check, and `push_pending` and free resolutions only between checks, because the check holds a shared borrow. |
| `SumCheck` | `sum_check/prover/mod.rs` | State: the entry point called, the folded multilinears, `num_rounds`, `current_round_claim`, `round_proofs`, the phase and the openings. `Init` is the call: `prove` (the number of rounds from `mls[0]`) or `prove_rounds`, its early returns in order, and the first round. Actions: `prove_round` (one loop iteration: draw, `reduce_claim`, `bind`, `sumcheck_round`, `to_poly`), `final_round` (the last draw and fold, and the openings of `prove`), and `draw_fails`. `sumcheck_round` is an operator translated with its incremental evaluation. The coin is a random oracle: every field element may be drawn. |
| `MCChiplets`, `MCChipletsAux`, `MCSemaContext`, `MCVerifyInvoke`, `MCNameResolver`, `MCRewriteCheck`, `MCSumCheck` | Model-checking instances | Constants and small operation sets for the runs. |

Field arithmetic is abstracted as follows. A value `alpha_0 + sum alpha_i * v_i` is kept as its vector of coefficients, with index -1 for the constant. A column is the product of such factors. It balances for every draw of the alphas exactly when the request factors and the response factors are equal as multisets, so the properties compare bags of factors. A gated factor `v*s + (1-s)` is one factor when `s = 1`, none when `s = 0`, and the literal linear form otherwise.

The hasher, bitwise, memory and kernel ROM chiplets, the decoder and the `MainTrace` accessors are not under `src/`. Their trace shapes are modelled from the chiplet specification and marked `spec_modelled` in the map. These shapes are:

- the 8-row hash cycles with their selector rows and node index;
- the absorption at batch boundaries;
- the bitwise cycles;
- one memory row per access;
- kernel ROM rows as max(accesses, 1) per procedure, with address 0, 1, ...

The permutation is an arbitrary fixed function. Merkle paths come from a fixed advice path `MerklePath`.

## Runs

| Run | Expect | Checks |
|---|---|---|
| `layout` | pass | `TypeOK`; `TraceMatchesLayout` (every cell of the composed table is what the `Chiplets` doc comment documents), with empty segments and the column 15/16/17 skips reached. |
| `bus_hasher_memory` | pass | `BusBalanced` for programs that mix control blocks, single-batch basic blocks, HPERM, MPVERIFY and MRUPDATE of depth up to 2 with bitwise ops, MLOAD, MSTORE, MLOADW, MSTREAM and RCOMBBASE. |
| `sibling_table` | pass | `SiblingTableBalanced`, with MRUPDATE and two-batch basic blocks, so RESPAN also runs. |
| `bus_kernel_store` | pass | `BusBalanced` with SYSCALLs (including repeated ones and calls outside the kernel) mixed with MSTOREW followed by word, element and stream loads. |
| `bus_respan` | violation | `BusBalanced` with a two-batch basic block. |
| `kernel_include` | violation | `KernelProcsIncludedOnce` with a one-procedure kernel. |
| `sum_check` | pass | `TypeOK`; `RoundPolyMatchesReference` (every round polynomial sent equals, at every point `0..max_degree`, the sum over the remaining hypercube of `w` with the round variable at that point, computed from the definition); `HonestClaimReduces` (from an honest claim every reduced claim is the sum of `w` over the hypercube that is left, and `prove` ends with a claim equal to `g` at the openings, the verifier's final check). |
| `sema_context` | pass | `TypeOK`; `ConstantValuesCorrect` (every folded constant equals its expression computed lhs-op-rhs, although `const_eval` evaluates rhs first); `DiagnosticsDeliveredOnce` (every reported diagnostic is pending, returned in a `SyntaxError` or printed, exactly once, across any order of reports, `define_constant`, `has_failed` and `into_result`). |
| `sema_panic` | violation | `NoPanic`: defining a constant never panics. |
| `verify_invoke` | pass | `TypeOK`; `InvokedMatchesBody` (each visited procedure records exactly the invokes of its body, with targets rewritten through the imports, and its body holds the rewritten targets). |
| `name_resolution` | pass | On `MCRewriteCheck`. `CheckTypeOK`; `ResolverImplementsResolution` (refinement: `Abstract == INSTANCE Resolution WITH` `pc` mapped to `"busy"` inside `find`, and the owed answers read off the name `find` started from. `find`'s iterations are stuttering steps, and the step that leaves the loop is the abstract `answer`. So for every exec and call caller `find` returns a procedure exactly when the re-export chain reaches a definition, returns that definition, and always returns, cyclic re-exports included. `Resolution` also promises a syscall caller a kernel definition or an error, which the code breaks (finding 4); so `resolve_target` is given exec and call callers here, `CallerKinds`, while the bodies' syscall by a local kernel name still goes through the refinement); `CheckAnswerMatchesBody` (an action property: the answer a rewrite check returns equals the verdict of the first non-exact target of the body, computed in one step from the alias graph of the modules known to the check); `CheckTerminates` (liveness: every check returns, also when app's target runs into the `app::g`/`lib::g` re-export cycle). |
| `syscall_target` | violation | `SyscallResolvesInKernel`: a syscall resolves only to a kernel procedure. |

Every property of a passing run has a mutant in `PROJECT.json`. A mutant is a plausible fault variant of a mapped definition, written just before that definition, and TLC finds the property violated when the mutant is used:

- a permutation of 7 rows;
- columns 15/16 not skipping the bitwise rows;
- an MPVERIFY result address one row late;
- sibling withdrawal only on `f_mu` rows;
- bitwise operands read in stack order;
- a word read unreversed;
- the kernel response not gated;
- field arithmetic not reduced mod `P`;
- `const_eval` applying the operands in evaluation order (rhs op lhs);
- an evaluation error that drops the diagnostics pending before it;
- a path target rewritten without checking the import exists;
- an invoke recorded with its target before the rewrite;
- a MAST-root lookup with its two arms exchanged;
- `find` without the recursive-alias check (TLC finds a cycle on which `find` never returns, so the owed resolution is never answered);
- an alias looked up again in the re-exporting module (the answer is not one `Resolution` owes);
- a rewrite check that lets a cached procedure continue;
- for `CheckTerminates`, `find` again without the recursive-alias check (TLC finds app's check never returning);
- a field difference taken over the integers;
- `evals_x` started from the evaluation at 0;
- the multilinears not folded by the last challenge.

## Findings

1. **`bus_respan` (code bug):** `build_respan_block_request` (aux_trace:342-343) reads `chiplet_hasher_state(row - 2)` and `(row - 1)`, which are main trace row indices used as chiplet rows. The `f_abp` response it must cancel sits at the hasher rows `addr_nxt - 2` and `addr_nxt - 1`. When the request reads those rows instead, the same run passes.
2. **`kernel_include` (code bug):** `is_addr_change` at the last kernel row compares the row with the padding row, whose address column is 0. A last procedure with address 0 is never included. The same comparison makes `build_kernel_procedure_table_responses` (aux_trace:916) give the last procedure a wrong gated factor in `b_chip`.
3. **`sema_panic` (code bug):** `const_eval` computes `IntDiv` as `lhs.as_int() / rhs.as_int()`, a u64 division (`context.rs:100`). After `const.B = 0`, defining `const.A = 1 // B` panics instead of returning the `SyntaxError` that `define_constant` documents. `Div` is safe because `Felt::inv(0)` is 0.
4. **`syscall_target` (code bug):** `find` replaces a syscall caller's kind with `Exec` (`name_resolver.rs:329`) and never restores it. The comment says this lasts "until we have resolved the procedure, then verify that it is in the kernel module". So the `InvalidSysCallTarget` check (line 351) and the "undefined kernel procedure" arm (line 388) are dead code. A syscall by absolute path, or through a kernel re-export, resolves to `lib::f` of a non-kernel module. With all three caller kinds the `name_resolution` refinement fails the same way, so that run gives `resolve_target` exec and call callers only.

The spec says the four `*_start` accessors are strictly increasing. They are cumulative sums, so an empty sub-trace makes two starts equal. The `layout` run shows that the layout is still correct in that case.

`prove` reads `mls[0]` (`prover/mod.rs:127`) before `prove_rounds` checks for an empty slice. So `prove` with no multilinears panics, although its doc comment lists that case as an error. The `sum_check` run reaches this state (phase `panicked`), and it is recorded as a hazard. In `prove_rounds`, `AtLeastOneVariable` (line 170) is unreachable. With zero variables, every `num_rounds` is either 0 (`NumRoundsZero`) or greater than 0 (`TooManyRounds`), and both checks come first.

An open question is recorded as a hazard in `PROJECT.json` and not as a run. The RCOMBBASE request assumes that the word at `a_ptr` is `[a0, a1, 0, 0]`. Neither the spec nor the code under `src/` enforces this, and an MSTOREW of a full word to that address unbalances the bus.

Another is recorded the same way. `visit_mut_procedure_alias` (`verify_invoke.rs:74`) counts a use of the import named like the alias itself (`alias.name()`), not of the import that the alias's target goes through. So an import used only by a re-export keeps `uses = 0`. Nothing under `src/` reads the counter, and the alias's target syntax is not under `src/`, so no run checks this.

## Bounds

`MCChiplets` uses:

- two procedure digests, with symmetry over them;
- Merkle paths of up to 2 nodes;
- basic blocks of up to 2 batches;
- 32 hasher rows, room for a depth-2 update or four single cycles;
- 2 bitwise cycles;
- 2 memory rows;
- 2 accesses per procedure;
- target lengths from `trace_len - 1` (the failing assertion) to `trace_len + 2`, with 0..2 random rows.

These bounds reach empty and non-empty segments of every chiplet, repeated kernel accesses, and both sides of the size assertion.

The `MCChipletsAux` runs use:

- main traces of 5-7 rows;
- nesting of up to 2;
- two memory addresses;
- one or two stored values;
- the u32 operands 3 and 5, which differ in every nibble pair that matters;
- kernels of one or two procedures.

`MCSemaContext` uses:

- two names, A and B;
- the field modulus `P = 257`, so `255 + 1` reaches 256 and overflows a u8 while still being a field element;
- six expressions: literals 255 and 0, `A + 1`, `1 - A` (wraps around the field), `1 / B` and `1 // B`;
- a u8, a u32 and a felt immediate;
- three `define_constant` calls, so a conflict follows two definitions;
- two reports from other passes, including warnings and errors.

These bounds reach every branch of `define_constant` and of the visitor, both settings of `warnings_as_errors` at each check, and both outcomes of `has_failed` and `into_result`.

`MCVerifyInvoke` uses two procedures of five instructions each. Between them they cover every invoke kind, local, self, undefined, imported, missing-import and absolute targets, a syscall by local name, `caller`, an import used three times, and an alias that names an import and one that does not. Being a kernel module is chosen in `Init`, and the visit order is free.

`MCSumCheck` uses the field of 7 elements and `g(a, b) = a * b^2 + a`, of degree 3, so that `sumcheck_round` computes points 2 and 3 by repeated additions. Two inputs have two multilinears in three variables, so the loop body runs twice and then the final round follows, under all 7^3 challenge sequences. One input has a single variable, so the loop is skipped. The inputs `prove_rounds` rejects are an empty slice, zero variables and different arities, and `num_rounds` ranges over 0..4 for `prove_rounds`. Every phase but the unreachable `AtLeastOneVariable` is reached.

`MCNameResolver`, which `MCRewriteCheck` extends, uses a kernel and a library in the graph, and two modules that can be pushed as pending in either order. The kernel re-exports a library procedure. `lib::g` and `app::g` re-export each other, which is a recursive alias. `app::f` reaches `ext::f`, a module that may still be unpushed. One name is defined nowhere, one procedure has a cached MAST root, and one digest is unknown. Targets of all four kinds are resolved from every known module by exec and call callers in `name_resolution`, and also by syscall callers in `syscall_target`. `MCRewriteCheck` puts `app` in the graph as well (`MCCheckGraph`), so `ext` is the one module that can be pushed. The kernel's body gives an error until `ext` is pushed, and then asks for a rewrite through a cached syscall target. The library's body gives an error until `ext` is pushed, and is then already exact. App's one target, its re-export `app::g`, runs into the `app::g` -> `lib::g` -> `app::g` cycle and gets the error from the visited-set check. All three answers are reached. The targets callers resolve in `MCRewriteCheck` (`MCCheckTargets`) include every target of the bodies. So each call the check makes is also a `call` of `Resolution`.

A reachability probe confirmed that halted states containing depth-2 MRUPDATEs, RCOMBBASE, MSTREAM, and bitwise together with memory operations are all reached.

## Fairness

`NameResolver` and `RewriteCheck` assume weak fairness of `find_step`, and `RewriteCheck` also of `visit_target`, `visit_result` and `module_done`. `find` and the visitor's walk are synchronous loops that never wait, so once entered their steps keep being taken. `CheckTerminates` and the fairness of `Resolution` (an owed resolution is eventually answered) hold under that assumption. All other properties are safety properties. The sum-check prover is sequential and needs no fairness. The chiplets run no concurrent processes, and the assembler passes run on one thread. Deadlock checking is off in most runs, because a halted, failed or traced program, and an analysis that returned its result or visited everything, really have no successor. The name resolver runs check for deadlock, since a resolver can always be called again.

## Not modelled

- **Sub-chiplet algorithms:** RPO rounds, and bitwise and memory internals beyond their trace shape.
- **Assembler u32 parsers (`ast/parsers/u32_ops.rs`):** a fragment. The `Token` type and the helpers that take every decision beyond the match on the number of parts (`parse_param`, `parse_checked_param`, `parse_error_code`, `check_div_by_zero`) are not under `src/`. What is left is a stateless table from mnemonic to instruction variant, which a model would only restate.
- **Env ops lowering (`env_ops.rs`):** straight-line emission into a `SpanBuilder` that is not under `src/`. Its one decision, `caller` outside a kernel procedure, is the `is_kernel` test `VerifyInvoke` models.
- **Assembler driver:** the analysis driver, the module graph and the AST are not under `src/`, so the order in which passes and resolutions run is left open.
- **Sum-check verifier and the GKR layers** that call the prover: not under `src/`.
- **Host (`host/mod.rs`):** trait plumbing that forwards to an advice provider that is not under `src/`. Its `From<HostResponse>` conversions panic on a mismatched variant, which is listed as a hazard.
- **Decorators:** data types, `Display`, and an iterator driven by the span execution loop, which is not under `src/`.
- **CLI, tests and testing utilities:** no system state to check.

## Plan

1. Refinement: `ChipletsExec` implements `Chiplets`. This means an `INSTANCE Chiplets WITH` the sub-trace lengths and access counts mapped from the executor state. A SYSCALL step makes two `Chiplets` calls (`hash_control_block` and `access_kernel_proc`), and a rejected Merkle path fails before the hasher is called, where `Chiplets` panics. So the mapping needs either a split SYSCALL step or an abstract step for each.
2. The semantic passes composed: `VerifyInvokeTargets` reporting into the `AnalysisContext` that `SemaContext` models. The interleaved product of the two runs is beyond TLC's reach, with over 700,000 states for `SemaContext` alone. The driver that would fix their order is not under `src/`.
3. The `prove` panic on an empty slice as a violation run of its own, if a run can be retired.
