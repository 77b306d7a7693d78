# A verification of clt (aes-ni)

TLA+ specifications, TLC models and TLAPS proofs of the library in `src/`: AES-128 on the x86 AES
instructions with two functions built on it, counter-mode generators, and the shuffling and ranking of
permutations that draw on them, the sources of randomness under them, and the programs that time them.

## 1. Inventory

| component | source | state | operations |
|---|---|---|---|
| instructions | intrinsics used in `aen-ni_encdec_impl.hpp`, `aes-ni_key-exp_impl.hpp` | - | xor, shift, shuffle, keygenassist, aesenc/aesdec(last), aesimc |
| block functions AES128, MMO128, AESPRF128 | `aes-ni.cpp`, `aes-ni.hpp`, both detail headers | `expanded_keys_` | constructors, `enc`, `dec`, `operator()` |
| bulk calls | `aes-ni.cpp`, `hash_impl` | buffers of the caller | `enc`, `dec`, `hash_impl`, `operator()` with `num_blocks` |
| generators AES128_CTR, MMO128_CTR, AESPRF128_CTR | `aes-ni.cpp`, `aes-ni_inline.hpp` | key, `counter_` | `operator()(out, num_bytes)`, `set_counter`, `ctr_stream`, `ctr_byte_stream` |
| ranking | `shuffle.cpp`, `shuffle.hpp` | locals `pi`, `inv_pi`, `r` | `rank`, `unrank`, `inverse_permutation`, `factorial` |
| shuffles | `shuffle.hpp` | the caller's array, `random_indices` | `shuffle_rejection`, `shuffle_rounding`, `shuffle`, `shuffle_RS` |
| Permutation | `shuffle.hpp` | `indices_` | comparison, `apply`, `*`, `inverse`, `pivot`, `shuffle` |
| rejection sampling | `rng.hpp`, `util_integer.hpp` | `out`, `mask` | `rejection_sample_modulo_n`, `least2pow` |
| `rng_global` | `rng.hpp`, `rng_inline.hpp`, `rng.cpp`, `aes-ni.cpp` | the buffered stream of `rng_global`, its failure | `RandomDevice()`, `operator()`, `init`, `gen_key` |
| `getrandom` | `rng.hpp` | locals of one call | `getrandom` |
| RDRAND | `rdrand.cpp`, `rdrand.hpp` | locals of one call | `rdrand16_step_n` and its siblings, the `rdrand` template |
| benchmark harness | `benchmark*.hpp`, `benchmark*.cpp` | samples, limits, the `call_once__` flags | `Experiment::run`, `print_throughput`, `measure_*`, `median` |
| benchmark programs | `bench/` | buffers, `time_samples` | `main` of each |
| statistics, utilities | `statistics.hpp`, `util*.hpp`, `arg_type.hpp` | - | popcounts, checks of fit, joining, printing |
| vendored code, build | `third_party/randen`, CMake, CI | - | - |

How they interact: everything is a direct call. A generator owns a block object and calls its `ctr_byte_stream`;
a shuffle is given any callable as its rng, usually a generator or `rng_global`; its index comes from rejection
sampling on that rng. `rank` and `unrank` are called on what a shuffle left. `gen_key` and `init` share the one
`rng_global`, the only state two threads can meet in, and they do meet there: `bench_shuffle_fy.cpp` calls `gen_key`
from a parallel loop. The programs own buffers and hand the harness a function to time; the harness repeats it
until its time is not zero. `Experiment::run` calls three functions of its user in nested loops.

What is hard here: long chains of steps that have to fit together, and a few places where they are cut. Keys are
stored in one order and used in another; one register feeds forward past five rounds; loops of four blocks hand
over to loops of one; three copies of a counter wrap separately; two arrays must stay inverse to each other through
swaps; rejection loops end only with probability. The stream under `rng_global` has a buffer, a position and an end
that unlocked threads read and write in any order; a device that fails stays failed, and some callers look while
others do not; limits of time go by a clock that can be set. `PROJECT.json` lists each place under `hazards`, and
what each component must satisfy is stated by the properties of section 4.

## 2. Plan

1. **Done.** `AesInstr`, `AES128`, `BulkBlocks`; `Keystream` (abstract) and `CtrStream`; `Permutations`, `Ranking`,
   `FisherYates` and `PermutationAlgebra`; `RejectionSample`, `AtomicShuffle` (abstract) and `ShuffleRS`.
2. **Done.** `RandomDevice` and `SystemSources`: partial answers, failures, retries, threads.
3. **Done.** `SampledShuffle` composes both Fisher-Yates shuffles with the sampling loop and the device they draw on,
   and implements `FisherYates`. `Experiment` and `Throughput`: the harness and ten of the programs.
4. **Done.** Proofs of every safety property the runs check, of the three refinements, and of the two properties that
   say that a call never returns.
5. **Open.** The table of medians of `bench_shuffle_fy.cpp`. The liveness properties stay with TLC (section 6).

## 3. Modules

| module | models |
|---|---|
| `AesInstr` | the intrinsics (external): a register is four words; the S-box and MixColumns are parameters with the algebra named in its assumptions |
| `AES128`, `MC_AES128` | key expansion, `enc`, `dec`, MMO128 and AESPRF128 on one block per lane |
| `BulkBlocks`, `MC_BulkBlocks` | the calls with `num_blocks` |
| `AES128_proof` | proofs for `AES128` and `BulkBlocks` |
| `Keystream` | what a generator promises: one atomic step per request |
| `CtrStream`, `MC_CtrStream`, `CtrStream_proof` | the generators, block by block; `Implements == KS!Spec` |
| `Permutations`, `Permutations_proof` | operators on index arrays shared by `Ranking`, `FisherYates`, `PermutationAlgebra`, and what all proofs need of numbers and of recursive functions |
| `Ranking`, `Ranking_proof` | `rank`, `unrank` and their implementation functions |
| `FisherYates` | `shuffle_rejection`, `shuffle_rounding`, a turn of the loop in one step with any index |
| `RejectionSample` | the steps of `rejection_sample_modulo_n` and `least2pow`, and the device under them |
| `SampledShuffle`, `MC_SampledShuffle` | `FisherYates` with `RejectionSample` run inside it and a device that may fail; `Implements` is the `Spec` of `FisherYates` |
| `PermutationAlgebra` | `struct Permutation`, `apply_permutation`, `inverse_permutation` |
| `Shuffles_proof` | proofs for `FisherYates`, `SampledShuffle` and `PermutationAlgebra` |
| `AtomicShuffle` | what a shuffle promises the owner of the array |
| `ShuffleRS`, `MC_ShuffleRS`, `ShuffleRS_proof` | `shuffle_RS`, call by call |
| `RandomDevice`, `MC_RandomDevice` | `rng_global`, `gen_key`, `init`, callers that do not look, and threads |
| `SystemSources` | the loop around the system call `getrandom`, those around the RDRAND instruction, and the template before them |
| `Sources_proof` | proofs for `RandomDevice` and `SystemSources` |
| `Clock` | `duration_cast`, how long a function takes, and a clock that can be set |
| `Experiment`, `MC_Experiment` | `Experiment::run` |
| `Throughput`, `MC_Throughput` | `print_throughput`, `measure_walltime` and the programs of doubling sizes |
| `Harness_proof` | proofs for `Experiment` and `Throughput` |

Modules that share a proof module name their specifications apart: `BulkSpec`, `ObjectsSpec`, `SampledSpec`,
`SourcesSpec`, `ExperimentSpec`; `Spec` in the others.

**AES128.** `expanded_keys` is `expanded_keys_` by 16-byte slot: 20 for AES128, 11 for the two others. `ExpandKey`
and `ExpandImc` are one instantiation each of the recursive templates; `StartEnc`, `EncRound`, `EncLast` (and the
three for `dec`) run the rounds. `Width` registers go through the rounds together, which is what the single, quad,
sfinae and variadic templates do; each is an instance of the same three actions, and the map names a different
template for each. `feed` is `t` of MMO128 and `m5` of AESPRF128. `trace` and `last` are histories. A caller may
decrypt any block, or what the last encryption returned.

**BulkBlocks.** `src` and `dst` are positions in one memory, so in-place and overlapping calls are covered.
A turn of a loop (load, rounds, second read, store) is one step, since nothing else runs between. `SecondRead` is the
memory that the second read of `hash_impl`'s quads and of MMO128 finds, before the stores of its turn (`Stored`); the
remainder of `hash_impl` keeps its load. `Cipher` is a parameter; `AES128` says what it is.

**CtrStream.** `counter`, `ctr` and `ret` are the member, the vector register and the value `ctr_stream` returns.
`Call` is `operator()` and the head of `ctr_byte_stream`; `StreamBlock` a turn of `ctr_stream`; `StreamReturn` its
return; `TailBlock` the second `ctr_stream`; `CopyTail` the copy and the assignment to `counter_`. The three
classes have the same code up to `CtrBlock`, and the map names one of them for each action. The abstract
`Keystream` hands a whole request out in one step: the refinement mapping is the identity on `kind`, `counter` and
`data`, and every step inside a call is a stutter.

**Ranking.** `Down` is `rank_impl` up to its recursive call, with `digits` for the suspended `s`; `Up` is the sum
as the calls return. `Divide` is a turn of `unrank_impl`. `known` says that `perm` and `rk` were computed from each
other. Sorting in `inverse_permutation` is the count of smaller values, `Narrow` its `uint32_t`.

**FisherYates.** The rng is not an actor here: a turn of `shuffle_rejection` takes any index below the number of
candidates, and `shuffle_rounding` has drawn any words. `SampledShuffle` shows that this is what happens.

**RejectionSample.** It has no specification of its own; `SampledShuffle` takes its steps. A word is a number below
`power[Bits]`, so that its theorems hold for every width; `Ones` gives the places of its ones and `WordOf` the word
back, a shift is a division by a power of two, `|` and `&` are union and intersection. `out` starts indeterminate,
`promotes` says whether `n + 1` is an `int` (types narrower than `int`) or wraps in the type itself. `good` is the
state of the stream: the read that fails may still write a part of the word, every later one writes nothing, and the
sampler never asks. The assertion of line 93 stops nothing here, as in a release build (`-DNDEBUG`). The locals are
set back when the sample returns.

**ShuffleRS.** `stack` holds a record for each recursive call in progress: its vector, `lhs`, `rhs` and where it goes
on. `One` and `Two` are the two short branches, `Draw` the request for the bits, `Split` the loop that deals the
elements out (`Deals`, turn by turn), `RecurseLhs` and `RecurseRhs` the calls on the parts that are not empty, `Copy`
the two copies. A call sorts a vector its caller holds, by reference; the model stores it back when the call returns,
since the caller waits meanwhile. `rs` keeps words and bits apart, with `initial` for the zeros the rng was never
asked to overwrite. `MaxDepth` bounds the calls in progress before a one-sided split: from there on the call stands
for the call it would make, whose vector is the same and whose result it would copy back unchanged. The refinement
mapping to `AtomicShuffle` is the identity on `array`.

**PermutationAlgebra.** Two objects, changed by any sequence of calls, and a vector they are applied to. `product` is
`operator*` with the `apply` of a `Permutation` it calls; `Apply` uses the `apply` of a vector, `ApplyInverse` the free
functions. Sorting is the count of smaller values, as in `Permutations`, here with 64-bit indices. Objects of
different sizes are not compared, as nothing in the repository does.

**SampledShuffle.** The variables are those of `FisherYates` and, renamed where the names meet, of `RejectionSample`.
`CallSample` is the call `rejection_sample_modulo_n(size - i + 1, rng)`, `InSample` its draws, `SampledTurn` its
return together with the swap and the end of the turn. `CallRounded` is the one request of `shuffle_rounding`: a device
that fails leaves zeros in `random_indices`, from some byte on. `CallSampler` and `SampleReturns` are the callers of
the sampler that do not shuffle, for types that promote as well. The refinement mapping is the identity on the
variables of `FisherYates`; every step inside a sample is a stutter.

**RandomDevice.** `operator()` of `RandomDevice` is `read` on a `std::ifstream` and `good()`. The ifstream is
external and modelled after libstdc++: `Look*` is the test at the head of the copying loop of `xsgetn`, `Copy` the
copy, `Bump` the addition to the position, `Refill`, `SetBuffer` and `Take` the `underflow` and the byte taken by
hand after it, `ReadDirect` the read that goes past the buffer. `Init` includes a device that could not be opened. Loads
and stores are steps of their own because the
threads of `bench_shuffle_fy.cpp` call without a lock: that is a data race, and the interleavings of these steps are
what the build can do, together with `LookWild`, a copy of negative length. `Ask` is the entry of a request,
`Evaluate` the `good()` that `operator()` returns; `ReturnKey`, `ReturnPlain` and `Throw` are what `gen_key` and
`init`, and a caller that does not look, make of that answer. `keys` is the history of what was handed out as random:
bytes are numbered as the device makes them, 0 is memory nobody wrote. Where requests do overlap, keys go wrong in
both ways the numbers can show: one byte given out twice (`<<2, 2>>`), or a byte that was never made (`<<1, 0>>`).
`FreshUnlessRaced` states what remains true, so the loop of the benchmark is outside of it by construction, and no
property forbids such keys, which the code allows. `ServedWhole` and `LateKeysBounded` cover the overlapping requests
too. A thread may evaluate `good()`, another's read may fail, and the first one still returns its key: `late` counts
these keys, of which each thread gets one at most and the thread whose read failed none.

**SystemSources.** Both sources write memory named by its place and are never under way at once, since each is one
call on one buffer. For `getrandom`, `Answer` and `Refuse` are the kernel, `GetrandomThrows` the early exit on -1,
`Advance` the rest of a turn; the test of the loop is at its end, so a request for no bytes asks the kernel once. For
RDRAND, `StepStores` and `StepFails` are a turn of the loop, in which the instruction stores a word or stores zero and
clears the carry flag; only the first advances `progress`. `CallTemplate` is the template of `rdrand.hpp` for buffers
of bytes, whose callers pass a number of words.

**Experiment.** `Run`, `Setup` and `Target` are the calls in the nested loops, `BeginSample` and `Target` the two looks
at the clock around a sample; `Check` is `check_func_`, the sample and both limits, `CheckFails` the assertion that
aborts a debug build. Samples are abstracted to their number. `Passes` lets time go by inside the functions of the
user, `SetClock` sets the clock between any two steps, once. Times are in ticks, `Seconds` is the `duration_cast` to
whole seconds. `ratio` is a `size_t`, which makes the second comparison unsigned: a negative total time, of a clock
that was set back, exceeds every limit (`OverTotal`).

**Throughput.** `Programs` are ten of the executables of `src/bench/CMakeLists.txt`, each a record: whether it calls
`gen_key` first, whether `init` fills its buffer for every size, and its rows, each with the label it prints and the
function it times. `Enter` is the two nested `call_once__` and the header, `Measure` is `measure_static` and the
function between the two looks at the clock of `measure_walltime`, `TryAgain` and `Report` the test for an infinite
throughput. `Double` includes the assertion of the debug build of `bench_aes_encdec`, which `AssertDecrypted` states.
`buff`, `enc_buff` and `dec_buff` are abstracted to their size and to the plaintext they hold or encrypt. `Line(n)` is
line `n` of the table a program is to print: a header, a line for each of its rows at the first size, from then on the
line of the same row before, with twice the size.

Definitions commented as variants are faulty forms of the definition below them; no specification uses them.

## 4. Runs

| run | bounds | checks |
|---|---|---|
| `aes128` | 10 rounds, 2 lanes, words of two one-bit bytes, 3 keys, 3 inputs | `FipsKeySchedule`, `FipsOutput`, `DecInvertsCipher`, `RoundTrip` |
| `bulk_blocks` | memory of 10 blocks, 1 call | `EachBlockOnce`, `OnlyOutput` |
| `ctr_stream` | 5 counters, lengths 0 to 33, at most 6 blocks between two `set_counter` | `Implements`, `NoReuse`, `CountersAgree`, `OnlyNumBytes` |
| `ranking` | degrees 1 to 5 | `RoundTrips`, `RankInRange`, `SwapsAgree`, `DivideKeepsPerm` |
| `permutation_algebra` | degrees 0 to 4, all permutations | `ProductActs`, `InverseUndoes` |
| `permutation_compare` | degree 2 | finds `NotEqualIsNegation` violated |
| `sampled_shuffle` | arrays of 0 to 4 elements, rounded words 0 to 3, sampled words of 4 bits, 7 moduli | `Implements`, `Rearranged`, `RankReadsChoices`, `SettledStay`, `AcceptHalf`, `Unbiased`, `ReturnsOrStuck`, `StuckOnceRejected` |
| `shuffle_rs` | vectors of 1 to 5 elements, 2-bit bytes, 2-byte words, one-sided splits up to depth 2 | `Implements`, `Conserved`, `OwnDrawnBits`, `Returns`, `EndlessOnceFailed` |
| `random_device` | 2 threads, a buffer of 3 bytes, keys of 2, requests of 0, 1 and 4; 3 requests, 2 of a parallel loop | `FreshUnlessRaced`, `ServedWhole`, `LateKeysBounded`, `EveryRequestEnds` |
| `system_sources` | memory of 17 bytes, requests of 0, 1, 3 and 5 bytes, words of 2, 4 and 8, 2 calls | `FilledInOrder`, `Ends` |
| `experiment` | seconds of 2 ticks, functions of 0, 1 or 4, limits of 0 and 1 seconds, 0, 2 or 3 setups, 0 to 2 repetitions, clock set by 9 ticks either way | `TimeBudget`, `ShortOnlyWhenSlow` |
| `throughput` | the ten programs, sizes 16 to 256, microseconds of 2 ticks, functions of 0, 1, 2 or 5, clock set back by 7 | `TableInOrder`, `AssertDecrypted`, `Finishes` |

The type invariants are not among the properties of the runs; those of `AES128`, `BulkBlocks`, `CtrStream`, `Ranking`,
`FisherYates`, `PermutationAlgebra` (`ObjectsOK`) and `RandomDevice` are theorems, and those of the other modules are
part of the invariants of section 6.

Why the bounds are enough. The toy words of `aes128` satisfy every assumption of `AesInstr` (TLC evaluates them),
its S-box is not linear and its MixColumns not its own inverse, so a wrong key order or a missing InvMixColumns
shows; two lanes show a lane that reads another. Ten blocks of memory give every remainder after zero, one and two
quads at every distance of the buffers; a call starts from any position, and a second call would start from
another memory only. Five counters wrap within one request and within the six blocks allowed; lengths around 0, 1
and 2 blocks take every branch. Degree 5 has 120 permutations, of every cycle type of that degree. Four words
reach every index of an array of four. The moduli of the sampler lie on, below and above powers of two, and
above half of the range, where `least2pow` wraps. Vectors of three to five elements end inside a byte, at the end of
a word and in a second word; one-sided splits nest, and beyond `MaxDepth` a deeper one only repeats.

A buffer of three bytes and keys of two make a key straddle a refill; a refill brings one to three bytes; a request of
four goes past the buffer; two threads already produce every fault of section 3, a late key among them. Seventeen bytes hold two 64-bit words,
or one next to a neighbour, and one byte that belongs to no word; the kernel answers a request of five in up to five
parts; failures of the instruction are not counted, so they repeat without bound. Six samples of up to four ticks
pass both limits of an experiment with a limit of one second, and a clock set by nine ticks passes them by itself.
Five sizes take the loop of a program more than once and its `call_once__` both ways.

Runs that do not check for deadlock: `bulk_blocks` and `system_sources` stop after `MaxCalls` calls, `random_device`
when its requests are used up or the process is gone, `throughput` when the program has ended. All others do.

Fairness. Weak fairness of a thread inside a function, in `SampledShuffle`, `ShuffleRS`, `RandomDevice`,
`SystemSources` and `Throughput`: it goes on, and a system call it makes
returns. Nobody has to make a call: `Call` and its like have no fairness. Strong fairness of `DrawAccepted`: a
word is accepted with probability above one half (`AcceptHalf`, `Unbiased`), so an endless run of rejections has
probability zero. Strong fairness of `DrawBoth`: of `n > 2` fair bits both values occur with probability at least
three quarters. Strong fairness of `StepStores`: RDRAND fails while its pool is empty and is specified to succeed
when repeated. Strong fairness of a `Measure` that takes time: a function timed for ever again takes a
microsecond at last. Nothing is assumed of the device of `rng_global` but that it answers, with data or with
failure (it may also be one that could not be opened): `Returns`, `ReturnsOrStuck` and `Finishes` allow for its failure.

## 5. Findings

A run shows the first.

- `src/include/clt/shuffle.hpp:92`, `operator!=` of `Permutation`, tests the sizes the wrong way round: two different
  permutations of one size are neither `==` nor `!=`. The repository compares vectors only, so nothing shows it.

The others were noted while modelling, and no run looks for them.

- `src/test/test_shuffle.cpp:68-70` asserts that a permutation whose rank is not 0 differs from its inverse. A
  transposition is its own inverse; the test passes with overwhelming probability only.
- `src/include/clt/rng.hpp:93` asserts `mod <= (mask + 1)`. For `uint32_t` and wider types and a modulus above half
  of the range `mask + 1` wraps to 0. The mask itself is right there (`AcceptHalf`), so a release build
  samples correctly and a debug build stops.
- `src/include/clt/rdrand.hpp:17` asserts `sizeof(T) * num_elems >= sizeof(generic_rdrand_t)`, with `num_elems` in
  elements of `T`. The next line and every caller take it for a number of 64-bit words: a byte buffer of one to seven
  words has room and fails the assertion, and the assertion says nothing of the room there is.
- `src/include/clt/benchmark2.hpp:150` multiplies two `size_t`. `src/test/test_util.cpp:67` asserts that `run()`
  returns no more samples than that product; `run()` loops without it, so options whose product wraps break it.
- `src/bench/bench_aesprf.cpp:34` times `MMO128` under the label `aes128prf` that line 22 prints.

## 6. Proofs

All theorems hold for every value of the constants that satisfies the named assumptions; no theorem has another
hypothesis, except that `DigitsAreChoices` wants arrays whose indices `inverse_permutation` can hold.

- `AES128_proof`: from the algebra of `AesInstr` (xor is a commutative group of exponent two, the S-box commutes with
  moving bytes, the round operations are bijections, InvMixColumns is linear). `ShiftXorIsFips` shows that three
  shift-and-xors are the word recurrence. `IInv` adds to the properties what holds half-way: which keys are expanded
  (`KeysSoFar`, `ImcSoFar`), that `trace` is a run of the cipher so far (`EncSoFar`, `DecSoFar`), and that each
  decryption register is one ShiftSub behind the encryption it undoes (`BackSoFar`), without which `RoundTrip` says
  nothing until the last round. Gives `TypeCorrect`, `KeyScheduleCorrect`, `OutputCorrect`, `DecCorrect`,
  `RoundTripCorrect`. For the bulk calls `Done` says that blocks before `Pos` are done and all others untouched.
  `EachBlockOnce` needs the writes not to overtake the reads (`SafeLayout`); `OnlyOutput` needs nothing. Gives
  `BulkTypeCorrect`, `BulkCorrect`, `BulkFrame`.
- `CtrStream_proof`: `CallInv` places each copy of the counter relative to the member, `UsesInv` says that exactly the
  counters from `base` on were used. Gives `TypeCorrect`, `NoReuseCorrect`, `CountersCorrect`, `FrameCorrect` and, step
  by step, `Refinement`.
- `Permutations_proof` holds what the proofs about recursive functions rest on. The library's induction theorems take
  an operator, which the provers cannot instantiate, so facts proved by induction are stated as a set of numbers, which
  is everything since its complement would have a least number (`LeastNumber`, `AllUpTo`, `AllDownTo`); `LoopExists`
  is the recursion theorem in the form of a loop with a first value and turns. Then: a swap keeps a permutation one;
  sorting by value inverts it (by counting, for degrees up to `IndexMod`); the turns of `factorial`. `Built(u, d, m, c)`
  says that `u[d]` down to `u[m]` are the products of the swaps chosen by `c`; `LevelProduct`, `BuiltSame` and
  `BuiltTells` show that a permutation and its choices determine each other.
- `Ranking_proof`: `LevelStep` shows that one level of `rank_impl` takes its largest value off two mutually inverse
  arrays. Gives `TypeCorrect`, `SwapsAlwaysAgree`, `UnrankPermutes`. For the numbers, `Ranked(d, x, p)` relates a number
  to a permutation through digits, with nothing of either algorithm in it. `NInv` says how much of it is done at each
  point: `DownInv` while digits are taken, `UpInv` while they are summed, `QuotientInv` while they are divided out.
  Gives `RanksInRange` and `RanksRoundTrip`, for every degree up to `IndexMod`; ranks are GMP integers.
- `Shuffles_proof`, for arrays of every length. `FisherYates`: `TypeOK /\ Rearranged` is inductive; the witness of a
  turn is the swapped permutation (`TypeCorrect`, `ShuffleRearranges`, `SettledStays`). `BuiltInv` says that the turns so
  far have multiplied the swaps of their choices together, and `DigitsAreChoices` that the digits `rank` would find are
  those choices. `SampledShuffle`, for words of 2 to 64 bits: `SInv` says that the smearing of `least2pow` has spread
  each one of `mod - 1` over as many places as it shifted so far (`Spread`), so that the mask is all ones, as many as
  `mod - 1` has bits (`Tight`), also where `n + 1` wraps or promotes. Masking is then a remainder (`MaskedIsModulo`),
  and words with equal remainders are counted by a bijection with their quotients. Gives `MaskTight`,
  `SamplesUniform`, `SamplesImplement` (the refinement) and `RejectedForEver`, whose invariant `Stuck` is that the
  value tested is its own masked value and too large. `PermutationAlgebra`: products and inverses of
  permutations are permutations, which makes `ObjectsOK` inductive; the other properties follow from it state by
  state, with `InverseIsInverse` for the narrowed indices (`ObjectsCorrect`, `ProductsAct`, `InversesUndo`).
- `ShuffleRS_proof`, for bytes and words of any width. Bags are exchanged for the number of occurrences of each element
  (`Occ`, `SameBag`), which concatenation adds (`OccConcat`) and the loop that deals out keeps (`DealtConserves`).
  `IInv` says of each call on the stack that its parts hold what its vector held and that it serves its caller
  (`StackOk`), and that the bits of a split come from the request (`BitsDrawn`). One lemma for each action shows the
  invariant and that the owner's array is rearranged or left alone (`StepOk`); this gives `ConservesElements` and the
  refinement `OwnerSeesShuffles`. `OwnBits` adds that places are quotient and remainder, which determine a position.
  `NeverReturns`: without bits every element goes to `rhs` (`DealtUndrawn`), so a call on more than two elements leads
  to another, `Endless`.
- `Sources_proof`, for any number of threads, any buffer and any lengths. `FailureStaysFinal` rests on `LInv`: while
  the stream is good nobody is late; then a thread that has had its late key has no true answer left (`Pending`), nor
  can it get another one, and the thread whose read failed has neither a late key nor a true answer.
  `TInv` adds to the types what a request knows at each label (`Bounds`): a copy never exceeds what is still needed,
  and at `check` with a good stream nothing is; it holds under every interleaving because these are locals of the
  thread, and gives `TypeCorrect` and `AnswersAreWhole`. `AloneIsFresh` needs more, since while a key is copied
  nothing has been returned: `FInv` says that, as long as no requests overlapped, the bytes of the returned keys, then
  those already in the buffer of the one caller, then those left in the stream's buffer, then those the device will
  make, form one increasing chain (`Chain`). The two ends of the third part, `Lo(t)` and `Hi(t)`, depend on where
  the request is: between the copy and the addition to the position, bytes before `pos` are still in the buffer but
  already taken, and between the refill and its `SetBuffer` the new end is a local. Each step moves bytes from one
  part of the chain to the one before it, or drops some. `FillsInOrder`, about `SystemSources`: `SourcesInv`
  says that at each turn the first `progress` elements are written, in order and once each, the next one may have been
  cleared by an instruction that failed (`FilledBut`), and every other byte is as the call found it.
- `Harness_proof`. `ExperimentInv` counts the samples by the two loops and, while nobody has set the clock (`~stepped`),
  relates the samples' sum to the time that passed (`TimesInv`) and both to the limit at each point of a turn
  (`BudgetInv`, `ShortInv`): `RunsWithinBudget`, `StopsOnlyWhenSlow`. `ThroughputInv`: the header is printed before
  anything else and once (`HeaderInv`), the lines of the size under way stand at the end and are as many as rows were
  reported (`LinesInv`), all lines are those of the table (`TableInv`); the buffers the debug build compares are
  followed from `init` to `dec` (`DecryptInv`). Gives `PrintsTable`, `BuffersAgree`.

All the refinements are proved: `CtrStream` of `Keystream`, `ShuffleRS` of `AtomicShuffle`, `SampledShuffle` of
`FisherYates`.

Only model-checked: the liveness properties `Returns`, `Ends`, `Finishes`, `EveryRequestEnds` and `ReturnsOrStuck`. They
rest on fairness and so on `ENABLED`, which is out of the prover's reach. `NotEqualIsNegation` is refuted.

## 7. Not modelled

- Printing, joining and diagnostics of `util*` and `arg_type.hpp`: layout, no state.
- `statistics.hpp`, `calc_stats` and `confidence_interval_bound`: floating-point arithmetic with square roots and
  distributions of a library, for which TLA+ has no numbers; programs and tests only print a warning from it.
- `measure_cputime` and `print_benchmark`, which nothing calls.
- The table `bench_shuffle_fy.cpp` prints, with `median`; its parallel loop of `gen_key` is in
  `RandomDevice`. `max_total_number_of_execution`, which `run` does not use.
- What a failed read leaves in a buffer whose caller does not look: `bench_dev_urandom` then prints the time of reads
  that failed at once, and no document says otherwise.
- The vendored Randen and the build files.
- Alignment of pointers and overlap by less than a block: below the memory of `BulkBlocks`.
- `rank` of an empty vector and `unrank` of a number that is no rank, both undefined in the code and without caller;
  objects of different degrees under `operator!=`; degrees above `2^32` under `inverse_permutation`.
- Memory: the depth of `shuffle_RS` after a failure has no bound (`EndlessOnceFailed`), what the machine does then is
  not said.
