---------------------------- MODULE RandomDevice ----------------------------
(***************************************************************************)
(* The one rng_global of src/src/rng.cpp and the calls that read from it:  *)
(* gen_key and init, which look at its answer and throw, and the direct    *)
(* calls of tests and benchmarks, which do not.  bench_shuffle_fy.cpp      *)
(* calls gen_key from the threads of a parallel loop, without a lock.      *)
(*                                                                         *)
(* The std::ifstream under it is external: a buffer of BufSize bytes, of   *)
(* which those from pos up to filled are still to be handed out, refilled  *)
(* from the device; a request longer than the buffer goes to the device    *)
(* itself.  The loads and stores of a copy are steps of their own, so that *)
(* calls that overlap do what unlocked calls may do.  A byte is named by   *)
(* its place in the order the device made them; 0 is memory nobody wrote.  *)
(***************************************************************************)
EXTENDS Integers, Sequences

CONSTANTS
  Threads,
  Main,       \* the thread outside of the parallel loop
  KeyBytes,   \* aes128::key_bytes
  Sizes,      \* num_bytes of the other requests
  BufSize,    \* how many bytes a refill asks for
  LoopSamples,  \* how many requests the parallel loop makes, num_samples
  Samples       \* how many requests another program makes

ASSUME DeviceAssumption ==
  /\ Main \in Threads
  /\ BufSize \in Nat /\ KeyBytes \in 1 .. BufSize
  /\ Sizes \subseteq Nat /\ LoopSamples \in Nat /\ Samples \in Nat

VARIABLES
  parallel,   \* the requests come from the parallel loop
  catches,    \* exceptions are caught around each request, as gtest does
  process,    \* "running", "terminated" (std::terminate) or "crashed"
  left,       \* requests still to be made
  good,       \* fst_rdev_.good()
  made,       \* how many bytes the device has made
  buf, pos, filled,
  pc,         \* of each thread: "idle", or where it is in operator()
  kind,       \* of each thread: who called operator()
  need,       \* byte_size
  out,        \* buff
  cnt,        \* the bytes of buff that are written
  answer,     \* what operator() returns
  from, len,  \* the locals of a turn of the stream's copying loop
  keys,       \* history: the buffers that were returned as random
  raced,      \* history: two requests have overlapped
  late        \* history, of each thread: keys it got since the device failed

program == <<parallel, catches>>
stream  == <<good, made, buf, pos, filled>>
locals  == <<kind, need, out, cnt, answer, from, len>>
history == <<keys, raced, late>>
vars    == <<program, process, left, stream, pc, locals, history>>

Checked == {"gen_key", "init"}

Lesser(a, b) == IF a < b THEN a ELSE b

Zeros(n) == [k \in 0 .. n - 1 |-> 0]

GoTo(t, label) == pc' = [pc EXCEPT ![t] = label]
-----------------------------------------------------------------------------
(* The constructor opens the device; a stream it could not open is bad.     *)
Init ==
  /\ parallel \in BOOLEAN /\ catches \in BOOLEAN /\ (parallel => ~catches)
  /\ process = "running" /\ left = IF parallel THEN LoopSamples ELSE Samples
  /\ good \in BOOLEAN
  /\ made = 0 /\ buf = Zeros(BufSize) /\ pos = 0 /\ filled = 0
  /\ pc = [t \in Threads |-> "idle"] /\ kind = [t \in Threads |-> "plain"]
  /\ need = [t \in Threads |-> 0] /\ out = [t \in Threads |-> Zeros(0)]
  /\ cnt = [t \in Threads |-> 0] /\ answer = [t \in Threads |-> FALSE]
  /\ from = [t \in Threads |-> 0] /\ len = [t \in Threads |-> 0]
  /\ keys = <<>> /\ raced = FALSE /\ late = [t \in Threads |-> 0]

(* read() sets out only on a stream that is good.                           *)
Ask(t, f, n) ==
  /\ process = "running" /\ pc[t] = "idle" /\ left > 0
  /\ left' = left - 1
  /\ raced' = (raced \/ \E u \in Threads : pc[u] # "idle")
  /\ kind' = [kind EXCEPT ![t] = f] /\ need' = [need EXCEPT ![t] = n]
  /\ out' = [out EXCEPT ![t] = Zeros(n)]
  /\ cnt' = [cnt EXCEPT ![t] = 0]
  /\ GoTo(t, IF good THEN "look" ELSE "check")
  /\ UNCHANGED <<program, process, stream, answer, from, len, keys, late>>

CallGenKey(t) == (parallel \/ t = Main) /\ Ask(t, "gen_key", KeyBytes)
CallInit(t)   == ~parallel /\ t = Main /\ \E n \in Sizes : Ask(t, "init", n)
CallPlain(t)  == ~parallel /\ t = Main /\ \E n \in Sizes : Ask(t, "plain", n)
-----------------------------------------------------------------------------
(* The stream.                                                              *)
Rest(t)   == need[t] - cnt[t]
Direct(t) == need[t] > BufSize
At(p)     == IF p \in 0 .. BufSize - 1 THEN buf[p] ELSE 0

(* The next bytes of buff are written.                                      *)
Deliver(t, n, bytes) ==
  /\ out' = [out EXCEPT ![t] =
       [k \in DOMAIN out[t] |->
          IF k \in cnt[t] .. cnt[t] + n - 1 THEN bytes[k - cnt[t]] ELSE out[t][k]]]
  /\ cnt' = [cnt EXCEPT ![t] = @ + n]

Here(t, label) == process = "running" /\ pc[t] = label

LookDone(t) ==
  /\ Here(t, "look") /\ Rest(t) = 0
  /\ GoTo(t, "check")
  /\ UNCHANGED <<program, process, left, stream, locals, history>>

LookCopy(t) ==
  /\ Here(t, "look") /\ Rest(t) > 0 /\ pos < filled
  /\ from' = [from EXCEPT ![t] = pos]
  /\ len' = [len EXCEPT ![t] = Lesser(filled - pos, Rest(t))]
  /\ GoTo(t, "copy")
  /\ UNCHANGED <<program, process, left, stream, kind, need, out, cnt, answer, history>>

LookEmpty(t) ==
  /\ Here(t, "look") /\ Rest(t) > 0 /\ pos = filled
  /\ GoTo(t, "refill")
  /\ UNCHANGED <<program, process, left, stream, locals, history>>

(* Past the end of the buffer the length of the copy is negative.           *)
LookWild(t) ==
  /\ Here(t, "look") /\ Rest(t) > 0 /\ pos > filled
  /\ process' = "crashed"
  /\ UNCHANGED <<program, left, stream, pc, locals, history>>

Copy(t) ==
  /\ Here(t, "copy")
  /\ Deliver(t, len[t], [k \in 0 .. len[t] - 1 |-> At(from[t] + k)])
  /\ GoTo(t, "bump")
  /\ UNCHANGED <<program, process, left, stream, kind, need, answer, from, len, history>>

(* The position is advanced in memory or from the value loaded before.      *)
Bump(t) ==
  /\ Here(t, "bump")
  /\ pos' \in {pos + len[t], from[t] + len[t]}
  /\ from' = [from EXCEPT ![t] = 0] /\ len' = [len EXCEPT ![t] = 0]
  /\ GoTo(t, "look")
  /\ UNCHANGED <<program, process, left, good, made, buf, filled, kind, need, out, cnt, answer,
                 history>>

(* Another request has refilled the buffer in between.                      *)
RefillSpared(t) ==
  /\ Here(t, "refill") /\ ~Direct(t) /\ pos < filled
  /\ GoTo(t, "take")
  /\ UNCHANGED <<program, process, left, stream, locals, history>>

Refill(t) ==
  /\ Here(t, "refill") /\ ~Direct(t) /\ pos >= filled
  /\ \E n \in 1 .. BufSize :
       /\ buf' = [k \in 0 .. BufSize - 1 |-> IF k < n THEN made + 1 + k ELSE buf[k]]
       /\ made' = made + n
       /\ len' = [len EXCEPT ![t] = n]
  /\ GoTo(t, "set")
  /\ UNCHANGED <<program, process, left, good, pos, filled, kind, need, out, cnt, answer,
                 from, history>>

SetBuffer(t) ==
  /\ Here(t, "set")
  /\ pos' = 0 /\ filled' = len[t]
  /\ GoTo(t, "take")
  /\ UNCHANGED <<program, process, left, good, made, buf, locals, history>>

(* The byte a refill is for is taken without another look at filled.        *)
Take(t) ==
  /\ Here(t, "take")
  /\ Deliver(t, 1, [k \in {0} |-> At(pos)])
  /\ from' = [from EXCEPT ![t] = pos] /\ len' = [len EXCEPT ![t] = 1]
  /\ GoTo(t, "bump")
  /\ UNCHANGED <<program, process, left, stream, kind, need, answer, history>>

ReadDirect(t) ==
  /\ Here(t, "refill") /\ Direct(t)
  /\ \E n \in 1 .. Rest(t) :
       /\ Deliver(t, n, [k \in 0 .. n - 1 |-> made + 1 + k])
       /\ made' = made + n
  /\ GoTo(t, "look")
  /\ UNCHANGED <<program, process, left, good, buf, pos, filled, kind, need, answer,
                 from, len, history>>

FailAs(t, state, label) ==
  /\ Here(t, "refill") /\ (Direct(t) \/ pos >= filled)
  /\ good' = state
  /\ UNCHANGED <<pos, filled>> \/ (pos' = 0 /\ filled' = 0)
  /\ GoTo(t, label)
  /\ UNCHANGED <<program, process, left, made, buf, locals, history>>

(* Variant: the failure is not seen.                                        *)
FailUnseen(t) == FailAs(t, good, "check")

(* The device fails, or has come to its end: the buffer is emptied or not.  *)
Fail(t) == FailAs(t, FALSE, "check")
-----------------------------------------------------------------------------
(* return fst_rdev_.good(), and what the caller makes of it.  Another read   *)
(* may fail between the two: the answer of this one is given by then.       *)

(* Variant: is_open() is returned, which a failed read leaves true.         *)
AnsweredOpen(t) == TRUE

Answered(t) == good

Evaluate(t) ==
  /\ Here(t, "check")
  /\ answer' = [answer EXCEPT ![t] = Answered(t)]
  /\ GoTo(t, "answered")
  /\ UNCHANGED <<program, process, left, stream, kind, need, out, cnt, from, len, history>>

(* Variant: nobody looks at the answer.                                     *)
AcceptedAlways(t) == TRUE

Accepted(t) == kind[t] \notin Checked \/ answer[t]

Leave(t) ==
  /\ GoTo(t, "idle")
  /\ kind' = [kind EXCEPT ![t] = "plain"] /\ need' = [need EXCEPT ![t] = 0]
  /\ out' = [out EXCEPT ![t] = Zeros(0)] /\ cnt' = [cnt EXCEPT ![t] = 0]
  /\ answer' = [answer EXCEPT ![t] = FALSE]
  /\ UNCHANGED <<from, len>>

ReturnKey(t) ==
  /\ Here(t, "answered") /\ kind[t] \in Checked /\ Accepted(t)
  /\ keys' = Append(keys, out[t])
  /\ late' = [late EXCEPT ![t] = IF good THEN @ ELSE @ + 1]
  /\ Leave(t)
  /\ UNCHANGED <<program, process, left, stream, raced>>

ReturnPlain(t) ==
  /\ Here(t, "answered") /\ kind[t] \notin Checked
  /\ Leave(t)
  /\ UNCHANGED <<program, process, left, stream, history>>

(* Variant: the request is made again, until it succeeds.                   *)
ThrowRetried(t) ==
  /\ Here(t, "answered") /\ ~Accepted(t)
  /\ cnt' = [cnt EXCEPT ![t] = 0]
  /\ GoTo(t, IF good THEN "look" ELSE "check")
  /\ UNCHANGED <<program, process, left, stream, kind, need, out, answer, from, len, history>>

(* Nothing catches in a benchmark, and nothing can outside of the loop.     *)
Throw(t) ==
  /\ Here(t, "answered") /\ ~Accepted(t)
  /\ process' = IF catches THEN "running" ELSE "terminated"
  /\ Leave(t)
  /\ UNCHANGED <<program, left, stream, history>>

InStream(t) ==
  \/ LookDone(t) \/ LookCopy(t) \/ LookEmpty(t) \/ LookWild(t)
  \/ Copy(t) \/ Bump(t) \/ Take(t)
  \/ RefillSpared(t) \/ Refill(t) \/ SetBuffer(t) \/ ReadDirect(t) \/ Fail(t)

Step(t) == InStream(t) \/ Evaluate(t) \/ ReturnKey(t) \/ ReturnPlain(t) \/ Throw(t)

Next ==
  \E t \in Threads : CallGenKey(t) \/ CallInit(t) \/ CallPlain(t) \/ Step(t)

(* A thread that is inside a call goes on; the device answers every read.   *)
Fairness == \A t \in Threads : WF_vars(Step(t))

Spec == Init /\ [][Next]_vars /\ Fairness
-----------------------------------------------------------------------------
Labels == {"idle", "look", "copy", "bump", "refill", "set", "take", "check",
           "answered"}

TypeOK ==
  /\ parallel \in BOOLEAN /\ catches \in BOOLEAN /\ good \in BOOLEAN /\ raced \in BOOLEAN
  /\ process \in {"running", "terminated", "crashed"}
  /\ left \in Nat /\ made \in Nat /\ pos \in Nat /\ filled \in 0 .. BufSize
  /\ buf \in [0 .. BufSize - 1 -> 0 .. made]
  /\ pc \in [Threads -> Labels] /\ kind \in [Threads -> Checked \cup {"plain"}]
  /\ need \in [Threads -> Nat] /\ cnt \in [Threads -> Nat]
  /\ from \in [Threads -> Nat] /\ len \in [Threads -> Nat]
  /\ answer \in [Threads -> BOOLEAN] /\ late \in [Threads -> Nat]
  /\ DOMAIN out = Threads
  /\ \A t \in Threads : cnt[t] <= need[t] /\ out[t] \in [0 .. need[t] - 1 -> 0 .. made]

(* As long as no two requests overlapped, what was returned as random is    *)
(* read off the device in order: no byte of a key was never written, and    *)
(* none is handed out a second time, across refills and long requests.      *)
FreshUnlessRaced ==
  ~raced =>
    \A a, b \in DOMAIN keys : \A i \in DOMAIN keys[a], j \in DOMAIN keys[b] :
      /\ keys[a][i] > 0
      /\ (a < b \/ (a = b /\ i < j)) => keys[a][i] < keys[b][j]

(* Overlapping or not, a request to which operator() answers true was       *)
(* served to the last byte, also when another one has failed by then.       *)
ServedWhole == \A t \in Threads : pc[t] = "answered" /\ answer[t] => cnt[t] = need[t]

(* A key may be returned after the device failed: its answer was computed   *)
(* before.  That happens once for a thread, and never for one of them: the  *)
(* one whose read failed has no true answer left to act on.  From then on   *)
(* gen_key and init only throw, also for a request whose bytes were all     *)
(* there and whose answer was not computed yet.                             *)
LateKeysBounded ==
  /\ \A t \in Threads : late[t] <= 1
  /\ \E t \in Threads : late[t] = 0

(* Every request comes to an end, or the process does.                      *)
EveryRequestEnds ==
  \A t \in Threads : pc[t] # "idle" ~> (pc[t] = "idle" \/ process # "running")
=============================================================================
