----------------------------- MODULE Throughput -----------------------------
(***************************************************************************)
(* The programs of src/bench/ that time a function on buffers of doubling  *)
(* size, and the harness of benchmark.hpp and benchmark.cpp they use: the  *)
(* line for the header, the measurement, which is made again while it is   *)
(* zero, and the line for the size.  bench_shuffle_fy.cpp prints another   *)
(* table, of medians, and is not among them.                               *)
(***************************************************************************)
EXTENDS Clock, Sequences

CONSTANTS
  start_byte_size, stop_byte_size,
  PerMicro           \* ticks of the clock in a microsecond

ASSUME ThroughputAssumption ==
  /\ start_byte_size \in Nat \ {0} /\ start_byte_size % 16 = 0 /\ stop_byte_size \in Nat
  /\ PerMicro \in Nat \ {0}

VARIABLES
  program, current,
  row,               \* which call of print_throughput in the loop
  called, header,    \* the flags call_once__: of each such call, and of the harness
  elapsed_time,      \* in whole microseconds
  lines,             \* what was printed
  buff, enc_buff, dec_buff,   \* size, and the size for which the plaintext was drawn
  good,              \* rng_global still answers
  pc

buffers == <<buff, enc_buff, dec_buff>>
flags   == <<called, header>>
vars    == <<program, current, row, flags, elapsed_time, lines, buffers, good, pc>>
-----------------------------------------------------------------------------
(* The programs.  keyed: gen_key is called first; fresh: the buffer is      *)
(* initialised for each size; rows: what is timed, under which label.       *)
Row(l, f) == [label |-> l, runs |-> f]
Bytes(k, f, r) ==
  [keyed |-> k, fresh |-> f, rows |-> r, unit |-> "bytes", scale |-> 1, verifies |-> FALSE]

bench_aes_ctr     == Bytes(TRUE, FALSE, <<Row("aes128_ctr", "AES128::ctr_stream")>>)
bench_aes_encdec  == Bytes(TRUE, TRUE, <<Row("aes128enc", "AES128::enc")>>)
bench_aes_encdec_debug ==
  [Bytes(TRUE, TRUE, <<Row("aes128enc", "AES128::enc"), Row("aes128dec", "AES128::dec")>>)
     EXCEPT !.verifies = TRUE]
bench_aesmmo      == Bytes(TRUE, TRUE, <<Row("aes128mmo", "MMO128")>>)
bench_aesprf      == Bytes(TRUE, TRUE, <<Row("aes128prf", "MMO128")>>)
bench_aesprf_ctr  == Bytes(TRUE, FALSE, <<Row("aes128prf_ctr", "AESPRF128::ctr_stream")>>)
bench_dev_urandom == Bytes(FALSE, FALSE, <<Row("/dev/urandom", "rng_global")>>)
bench_randen      == [Bytes(FALSE, FALSE, <<Row("randen", "Randen")>>) EXCEPT !.scale = 8]
bench_rdrand      == Bytes(FALSE, FALSE, <<Row("rdrand", "rdrand")>>)
bench_shuffle_rs  ==
  [Bytes(FALSE, FALSE, <<Row("shuffle_rs_dev-urandom", "shuffle_RS")>>)
     EXCEPT !.unit = "32bit_elems"]

Programs ==
  {bench_aes_ctr, bench_aes_encdec, bench_aes_encdec_debug, bench_aesmmo, bench_aesprf,
   bench_aesprf_ctr, bench_dev_urandom, bench_randen, bench_rdrand, bench_shuffle_rs}

(* bench_randen counts in words of eight bytes and reports bytes.           *)
start == start_byte_size \div program.scale
stop  == stop_byte_size \div program.scale
label == program.rows[row].label
runs  == program.rows[row].runs
Resized(b) == [b EXCEPT !.size = current]

More == current <= stop

(* num_blocks blocks of the buffer are written; here they are all of it.    *)
Filled(b, data) == [b EXCEPT !.data = IF b.size % 16 = 0 THEN data ELSE 0]

Init ==
  /\ program \in Programs /\ current = start /\ row = 1
  /\ called = {} /\ header = FALSE /\ elapsed_time = 0 /\ lines = <<>>
  /\ buff = [size |-> 0, data |-> 0] /\ enc_buff = buff /\ dec_buff = buff
  /\ good \in BOOLEAN /\ pc = "start"

Running == pc \notin {"done", "terminated", "hung"}

(* The stream fails, and stays failed: whoever reads from it next notices.  *)
DeviceFails ==
  /\ Running /\ good
  /\ good' = FALSE
  /\ UNCHANGED <<program, current, row, flags, elapsed_time, lines, buffers, pc>>

GenKey ==
  /\ pc = "start" /\ (program.keyed => good)
  /\ pc' = "resize"
  /\ UNCHANGED <<program, current, row, flags, elapsed_time, lines, buffers, good>>

(* gen_key and init throw, and nothing catches.                             *)
Throws ==
  /\ ~good
  /\ \/ pc = "start" /\ program.keyed
     \/ pc = "resize" /\ More /\ program.fresh
  /\ pc' = "terminated"
  /\ UNCHANGED <<program, current, row, flags, elapsed_time, lines, buffers, good>>

(* A turn of the driver's loop, up to the first measurement.                *)
Resize ==
  /\ pc = "resize" /\ More /\ (program.fresh => good)
  /\ buff' = [size |-> current, data |-> IF program.fresh THEN current ELSE 0]
  /\ enc_buff' = Resized(enc_buff)
  /\ row' = 1 /\ pc' = "enter"
  /\ UNCHANGED <<program, current, flags, elapsed_time, lines, dec_buff, good>>

(* Variant: each call of print_throughput prints a header of its own.       *)
OwnHeader == row \notin called

(* call_once__ of print_throughput, one for each function it is called      *)
(* with, around that of print_throughput_call_once, the only one.           *)
NeedsHeader == row \notin called /\ ~header

Enter ==
  /\ pc = "enter"
  /\ lines' = IF NeedsHeader
                THEN Append(lines, [label |-> program.unit, num |-> 0]) ELSE lines
  /\ called' = called \cup {row} /\ header' = TRUE
  /\ dec_buff' = IF runs = "AES128::dec" THEN Resized(dec_buff) ELSE dec_buff
  /\ pc' = "measure"
  /\ UNCHANGED <<program, current, row, elapsed_time, buff, enc_buff, good>>

Micros(t) == duration_cast(t, PerMicro)

(* Variant: the ciphertext is decrypted in place.                           *)
DecryptedInPlace == dec_buff

Decrypted == Filled(dec_buff, enc_buff.data)

(* measure_walltime: now, the function, now again.  A ciphertext goes by    *)
(* the number of its plaintext.  A device that fails is not noticed, but    *)
(* shuffle_RS does not return without one.                                  *)
Measure ==
  /\ pc = "measure" /\ (runs = "shuffle_RS" => good)
  /\ enc_buff' = IF runs = "AES128::enc" THEN Filled(enc_buff, buff.data) ELSE enc_buff
  /\ dec_buff' = IF runs = "AES128::dec" THEN Decrypted ELSE dec_buff
  /\ \E d \in Delays :
       \E s \in {0} \cup StepBy : elapsed_time' = Micros(d + s)
  /\ pc' = "report"
  /\ UNCHANGED <<program, current, row, flags, lines, buff, good>>

MeasureForEver ==
  /\ pc = "measure" /\ runs = "shuffle_RS" /\ ~good
  /\ pc' = "hung"
  /\ UNCHANGED <<program, current, row, flags, elapsed_time, lines, buffers, good>>

(* Variant: every time is taken for an infinite throughput.                 *)
NeverFinite == FALSE

(* num_bytes / elapsed_time, in floating point, is not infinite.            *)
Finite == elapsed_time # 0

TryAgain ==
  /\ pc = "report" /\ ~Finite
  /\ pc' = "measure"
  /\ UNCHANGED <<program, current, row, flags, elapsed_time, lines, buffers, good>>

Report ==
  /\ pc = "report" /\ Finite
  /\ lines' = Append(lines, [label |-> label, num |-> current * program.scale])
  /\ IF row < Len(program.rows)
       THEN row' = row + 1 /\ pc' = "enter"
       ELSE row' = row /\ pc' = "verify"
  /\ UNCHANGED <<program, current, flags, elapsed_time, buffers, good>>

(* assert(eq_check(buff, dec_buff)) of the debug build.                     *)
eq_check == buff = dec_buff

Double ==
  /\ pc = "verify"
  /\ current' = 2 * current /\ pc' = "resize"
  /\ UNCHANGED <<program, row, flags, elapsed_time, lines, buffers, good>>

Exit ==
  /\ pc = "resize" /\ ~More
  /\ pc' = "done"
  /\ UNCHANGED <<program, current, row, flags, elapsed_time, lines, buffers, good>>

Step ==
  \/ GenKey \/ Throws \/ Resize \/ Enter \/ Measure \/ MeasureForEver
  \/ TryAgain \/ Report \/ Double \/ Exit

Next == DeviceFails \/ Step

(* The program runs on, and among many measurements of a function one takes *)
(* a microsecond by a clock nobody sets.                                    *)
Fairness ==
  /\ WF_vars(Step)
  /\ SF_vars(Measure /\ elapsed_time' > 0)

Spec == Init /\ [][Next]_vars /\ Fairness
-----------------------------------------------------------------------------
(* The table a program is to print: a header, a line for each function at   *)
(* the first size, and from then on the lines before with twice the size.   *)
NumRows == Len(program.rows)
Line(n) ==
  CASE n = 1 -> [label |-> program.unit, num |-> 0]
    [] n \in 2 .. NumRows + 1 -> [label |-> program.rows[n - 1].label, num |-> start_byte_size]
    [] OTHER -> [lines[n - NumRows] EXCEPT !.num = 2 * @]

(* However often a measurement was made again and wherever a program was    *)
(* cut short, its output is the beginning of this table, up to the size     *)
(* where it stops, and all of it if the program was not: one header for all *)
(* calls, no size twice, none left out.                                     *)
TableInOrder ==
  /\ \A n \in 1 .. Len(lines) : lines[n] = Line(n) /\ lines[n].num <= stop_byte_size
  /\ pc = "done" =>
       \/ Line(Len(lines) + 1).num > stop_byte_size
       \/ lines = <<>> /\ start_byte_size > stop_byte_size

(* assert(eq_check(buff, dec_buff)) of the debug build holds: buffers that  *)
(* were resized, filled and timed any number of times agree at the end.     *)
AssertDecrypted == pc = "verify" /\ program.verifies => eq_check

(* However fast a function is, its program gets past it: each ends, or sits *)
(* in a shuffle that waits for bits of a failed device.                     *)
Finishes == <>(pc \in {"done", "terminated", "hung"})
=============================================================================
