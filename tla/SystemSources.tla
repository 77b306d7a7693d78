--------------------------- MODULE SystemSources ----------------------------
(***************************************************************************)
(* The two ways around rng_global to fill memory with random bytes, which  *)
(* both go round until the last one is there: getrandom() of rng.hpp, on a *)
(* system call that may answer with a part of what it was asked for or     *)
(* with -1, and rdrand() of rdrand.cpp, on an instruction that may fail.   *)
(* Kernel and processor are external.  What they make is named by its      *)
(* place in the order of making: bytes for getrandom, words for rdrand.    *)
(***************************************************************************)
EXTENDS Integers

CONSTANTS
  MemBytes,  \* the memory of the caller
  Requests,  \* num_bytes callers of getrandom pass
  MaxCalls   \* bound on the calls

ASSUME SourcesAssumption ==
  MemBytes \in Nat /\ MaxCalls \in Nat /\ Requests \subseteq 0 .. MemBytes

VARIABLES
  memory,      \* of each byte: -1, the caller's; 0; or what it is a part of
  at,          \* "idle", "ask" and "answered" in getrandom, "loop" in rdrand
  buffer, num, \* the arguments: out, and num_bytes or num_elems
  width,       \* the size of an element in bytes
  progress,    \* gened_bytes of getrandom, i of rdrand
  p_out, ret_bytes,
  result,      \* how the last call ended: "none", "returned" or "thrown"
  generated,   \* how many bytes or words were made
  calls,
  before       \* history: memory and generated when the call began

call == <<buffer, num, width>>
sources == <<memory, at, call, progress, p_out, ret_bytes, result, generated, calls, before>>

Places == 0 .. MemBytes - 1
generic_rdrand_t == 8

SourcesInit ==
  /\ memory = [k \in Places |-> -1] /\ at = "idle" /\ buffer = 0 /\ num = 0 /\ width = 1
  /\ progress = 0 /\ p_out = 0 /\ ret_bytes = 0 /\ result = "none" /\ generated = 0 /\ calls = 0
  /\ before = [memory |-> memory, generated |-> 0]

(* n elements of w bytes, somewhere in the memory of the caller.            *)
Begin(n, w, label) ==
  /\ at = "idle" /\ calls < MaxCalls
  /\ \E p \in Places : p + n * w <= MemBytes /\ p % w = 0 /\ buffer' = p /\ p_out' = p
  /\ num' = n /\ width' = w /\ progress' = 0 /\ ret_bytes' = 0
  /\ at' = label /\ result' = "none"
  /\ calls' = calls + 1 /\ before' = [memory |-> memory, generated |-> generated]
  /\ UNCHANGED <<memory, generated>>

Written(first, value) ==
  memory' = [k \in Places |-> IF k - first \in DOMAIN value THEN value[k - first] ELSE memory[k]]
-----------------------------------------------------------------------------
CallGetrandom == \E n \in Requests : Begin(n, 1, "ask")

Asked == num - progress

(* The kernel makes at least a byte of what it is asked for, if it can.     *)
Answer ==
  /\ at = "ask"
  /\ \E n \in 0 .. Asked :
       /\ n = 0 => Asked = 0
       /\ Written(p_out, [k \in 0 .. n - 1 |-> generated + 1 + k])
       /\ generated' = generated + n /\ ret_bytes' = n
  /\ at' = "answered"
  /\ UNCHANGED <<call, progress, p_out, result, calls, before>>

(* -1: EAGAIN before the pool is initialised, EINTR, and so on.             *)
Refuse ==
  /\ at = "ask"
  /\ ret_bytes' = -1 /\ at' = "answered"
  /\ UNCHANGED <<memory, call, progress, p_out, result, generated, calls, before>>

GetrandomThrows ==
  /\ at = "answered" /\ ret_bytes < 0
  /\ at' = "idle" /\ result' = "thrown"
  /\ UNCHANGED <<memory, call, progress, p_out, ret_bytes, generated, calls, before>>

Advanced(p) == p + ret_bytes

(* Variant: a call that has all its bytes asks for none more, for ever.     *)
UnfinishedAt(done) == done <= num

Unfinished(done) == done < num

(* The test of the loop is at its end.                                      *)
Advance ==
  /\ at = "answered" /\ ret_bytes >= 0
  /\ p_out' = Advanced(p_out) /\ progress' = progress + ret_bytes
  /\ IF Unfinished(progress')
       THEN at' = "ask" /\ UNCHANGED result
       ELSE at' = "idle" /\ result' = "returned"
  /\ UNCHANGED <<memory, call, ret_bytes, generated, calls, before>>
-----------------------------------------------------------------------------
CallRdrand == \E w \in {2, 4, 8}, n \in 0 .. MemBytes : Begin(n, w, "loop")

(* The template for other types hands its count on as it is: its callers    *)
(* pass how many words of eight bytes their buffer of b bytes holds.        *)
CallTemplate ==
  \E b \in generic_rdrand_t .. MemBytes : Begin(b \div generic_rdrand_t, generic_rdrand_t, "loop")

Store(value) == Written(buffer + progress * width, [k \in 0 .. width - 1 |-> value])

(* The instruction stores a word and answers 1.                             *)
StepStores ==
  /\ at = "loop" /\ progress < num
  /\ Store(generated + 1) /\ generated' = generated + 1
  /\ progress' = progress + 1
  /\ UNCHANGED <<at, call, p_out, ret_bytes, result, calls, before>>

(* Variant: the answer of the instruction is not looked at.                 *)
StepFailsUnseen ==
  /\ at = "loop" /\ progress < num
  /\ Store(0) /\ progress' = progress + 1
  /\ UNCHANGED <<at, call, p_out, ret_bytes, result, generated, calls, before>>

(* It stores zero and answers 0, which does not count.                      *)
StepFails ==
  /\ at = "loop" /\ progress < num
  /\ Store(0)
  /\ UNCHANGED <<at, call, progress, p_out, ret_bytes, result, generated, calls, before>>

RdrandReturns ==
  /\ at = "loop" /\ progress >= num
  /\ at' = "idle" /\ result' = "returned"
  /\ UNCHANGED <<memory, call, progress, p_out, ret_bytes, generated, calls, before>>

Turn == Answer \/ Refuse \/ GetrandomThrows \/ Advance \/ StepStores \/ StepFails \/ RdrandReturns
SourcesNext == CallGetrandom \/ CallRdrand \/ CallTemplate \/ Turn

(* The caller's thread goes on and the system call does not block; an       *)
(* instruction that is repeated succeeds at last.                           *)
SourcesSpec == SourcesInit /\ [][SourcesNext]_sources /\ WF_sources(Turn) /\ SF_sources(StepStores)
-----------------------------------------------------------------------------
(* A call that returns has filled its buffer with bytes or words of its     *)
(* own, in the order they were made, however the kernel cut them into       *)
(* answers and however often the instruction failed in between: no zero of  *)
(* a failure is left.  A call that throws has filled a prefix.  No call     *)
(* touches any other byte.                                                  *)
FilledInOrder ==
  at = "idle" =>
    /\ result = "returned" => progress = num
    /\ memory = [k \in Places |->
         IF k \in buffer .. buffer + progress * width - 1
           THEN before.generated + 1 + (k - buffer) \div width ELSE before.memory[k]]

(* A call ends, whatever the sizes of the answers and the failures.         *)
Ends == at # "idle" ~> at = "idle"
=============================================================================
