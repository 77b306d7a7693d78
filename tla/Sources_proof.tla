--------------------------- MODULE Sources_proof ----------------------------
(***************************************************************************)
(* Proofs about the sources of random bytes: RandomDevice for every number *)
(* of threads, buffer size and length of a request, and SystemSources for  *)
(* every memory and length of a request.                                   *)
(***************************************************************************)
EXTENDS RandomDevice, SystemSources, SequenceTheorems, TLAPS

-----------------------------------------------------------------------------
(* Types, and how far a request has come.                                   *)

(* What the locals of a request satisfy at each label.                      *)
Bounds(t) ==
  /\ pc[t] = "copy" => len[t] > 0 /\ cnt[t] + len[t] <= need[t]
  /\ pc[t] \in {"refill", "set", "take"} => cnt[t] < need[t]
  /\ pc[t] = "set" => len[t] \in 1 .. BufSize
  /\ pc[t] = "check" /\ good => cnt[t] = need[t]
  /\ pc[t] = "answered" /\ answer[t] => cnt[t] = need[t]

Types ==
  /\ parallel \in BOOLEAN /\ catches \in BOOLEAN /\ good \in BOOLEAN /\ raced \in BOOLEAN
  /\ process \in {"running", "terminated", "crashed"}
  /\ left \in Nat /\ made \in Nat /\ pos \in Nat /\ filled \in 0 .. BufSize
  /\ buf \in [0 .. BufSize - 1 -> 0 .. made]
  /\ pc \in [Threads -> Labels] /\ kind \in [Threads -> Checked \cup {"plain"}]
  /\ need \in [Threads -> Nat] /\ cnt \in [Threads -> Nat]
  /\ from \in [Threads -> Nat] /\ len \in [Threads -> Nat]
  /\ answer \in [Threads -> BOOLEAN] /\ late \in [Threads -> Nat]
  /\ DOMAIN out = Threads

(* What holds of one request.                                               *)
Request(t) ==
  /\ cnt[t] <= need[t] /\ out[t] \in [0 .. need[t] - 1 -> 0 .. made]
  /\ Bounds(t)

TInv == Types /\ \A t \in Threads : Request(t)

LEMMA TypeFollows == TInv => TypeOK
BY DEF TInv, TypeOK, Types, Request

(* A request whose locals a step leaves alone stays as it was, while the    *)
(* device makes bytes and may fail.                                         *)
LEMMA OthersStay ==
  ASSUME NEW u, Request(u), made \in Nat, made' \in Nat, made <= made', good' => good,
         pc'[u] = pc[u], need'[u] = need[u], cnt'[u] = cnt[u], out'[u] = out[u], len'[u] = len[u],
         answer'[u] = answer[u]
  PROVE  Request(u)'
BY DEF Request, Bounds

LEMMA TypeInit == Init => TInv
<1> SUFFICES ASSUME Init PROVE TInv
    OBVIOUS
<1> USE DEF Init
<1>1. buf \in [0 .. BufSize - 1 -> 0 .. made]
      BY DeviceAssumption DEF Zeros
<1>2. left \in Nat /\ filled \in 0 .. BufSize
      BY DeviceAssumption
<1>3. Types
      BY <1>1, <1>2 DEF Types, Labels, Checked
<1>4. ASSUME NEW t \in Threads PROVE Request(t)
      BY DEF Request, Bounds, Zeros
<1> QED BY <1>3, <1>4 DEF TInv

LEMMA TypeAsk ==
  ASSUME TInv, NEW t \in Threads, NEW f \in Checked \cup {"plain"}, NEW n \in Nat, Ask(t, f, n)
  PROVE  TInv'
<1> USE DEF Ask, GoTo, program, stream
<1>1. Types'
      BY SMTT(30) DEF TInv, Types, Labels
<1>2. Request(t)'
      BY DEF TInv, Types, Request, Bounds, Zeros
<1>3. ASSUME NEW u \in Threads, u # t PROVE Request(u)'
      BY <1>3, OthersStay DEF TInv, Types
<1> QED BY <1>1, <1>2, <1>3 DEF TInv

(* What Deliver writes.                                                     *)
LEMMA Delivered ==
  ASSUME TInv, NEW t \in Threads, NEW n \in Nat, cnt[t] + n <= need[t],
         NEW bytes, NEW m \in Nat, made <= m, \A k \in 0 .. n - 1 : bytes[k] \in 0 .. m,
         Deliver(t, n, bytes)
  PROVE  /\ out'[t] \in [0 .. need[t] - 1 -> 0 .. m]
         /\ \A k \in 0 .. need[t] - 1 :
              out'[t][k] = IF k \in cnt[t] .. cnt[t] + n - 1 THEN bytes[k - cnt[t]] ELSE out[t][k]
         /\ cnt'[t] = cnt[t] + n
         /\ cnt' \in [Threads -> Nat] /\ DOMAIN out' = Threads
         /\ \A u \in Threads \ {t} : out'[u] = out[u] /\ cnt'[u] = cnt[u]
<1>1. /\ out[t] \in [0 .. need[t] - 1 -> 0 .. made] /\ DOMAIN out = Threads
      /\ cnt \in [Threads -> Nat] /\ need[t] \in Nat /\ made \in Nat
      BY DEF TInv, Types, Request
<1>2. out'[t] = [k \in 0 .. need[t] - 1 |->
                   IF k \in cnt[t] .. cnt[t] + n - 1 THEN bytes[k - cnt[t]] ELSE out[t][k]]
      BY <1>1 DEF Deliver
<1>3. ASSUME NEW k \in 0 .. need[t] - 1
      PROVE  (IF k \in cnt[t] .. cnt[t] + n - 1 THEN bytes[k - cnt[t]] ELSE out[t][k]) \in 0 .. m
      <2>1. CASE k \in cnt[t] .. cnt[t] + n - 1
            <3>1. k - cnt[t] \in 0 .. n - 1
                  BY <1>1, <2>1
            <3> QED BY <2>1, <3>1
      <2>2. CASE k \notin cnt[t] .. cnt[t] + n - 1
            BY <1>1, <2>2
      <2> QED BY <2>1, <2>2
<1>4. out'[t] \in [0 .. need[t] - 1 -> 0 .. m]
      BY <1>2, <1>3
<1>5. cnt' = [cnt EXCEPT ![t] = cnt[t] + n]
      BY DEF Deliver
<1> QED BY <1>1, <1>2, <1>4, <1>5 DEF Deliver

LEMMA TypeInStream ==
  ASSUME TInv, NEW t \in Threads, InStream(t)
  PROVE  TInv'
<1> USE DeviceAssumption DEF Here, GoTo, program, stream, history
<1>0. /\ Types /\ Request(t) /\ \A u \in Threads : Request(u)
      /\ made \in Nat /\ pos \in Nat /\ filled \in 0 .. BufSize /\ BufSize \in Nat
      /\ buf \in [0 .. BufSize - 1 -> 0 .. made]
      /\ cnt[t] \in Nat /\ need[t] \in Nat /\ len[t] \in Nat /\ from[t] \in Nat
      BY DEF TInv, Types
<1>m. made \in Nat
      BY <1>0
<1>a. \A p : At(p) \in 0 .. made
      BY <1>0 DEF At
<1>1. CASE LookDone(t) \/ LookEmpty(t) \/ LookWild(t) \/ RefillSpared(t)
  <2>1. Types'
        BY <1>1, <1>0 DEF LookDone, LookEmpty, LookWild, RefillSpared, locals, Types, Labels
  <2>2. /\ UNCHANGED <<need, cnt, out, made, good, len, answer>>
        /\ \A u \in Threads \ {t} : pc'[u] = pc[u]
        BY <1>1, <1>0 DEF LookDone, LookEmpty, LookWild, RefillSpared, locals, Types
  <2>3. \/ pc'[t] = "check" /\ cnt[t] = need[t]
        \/ pc'[t] = "refill" /\ cnt[t] < need[t]
        \/ pc'[t] = "take" /\ cnt[t] < need[t]
        \/ pc'[t] = pc[t]
        BY <1>1, <1>0, SMTT(30) DEF LookDone, LookEmpty, LookWild, RefillSpared, Types, Request, Bounds, Rest
  <2>4. Request(t)'
        BY <1>0, <2>2, <2>3 DEF Request, Bounds
  <2>5. ASSUME NEW u \in Threads, u # t PROVE Request(u)'
        BY <1>0, <2>2, <2>5, OthersStay
  <2> QED BY <2>1, <2>4, <2>5 DEF TInv
<1>2. CASE LookCopy(t)
  <2>0. Lesser(filled - pos, Rest(t)) \in Nat \ {0} /\ Lesser(filled - pos, Rest(t)) <= Rest(t)
        BY <1>2, <1>0 DEF LookCopy, Lesser, Rest
  <2>1. Types'
        BY <1>2, <1>0, <2>0 DEF LookCopy, Types, Labels
  <2>2. /\ pc'[t] = "copy" /\ len'[t] = Lesser(filled - pos, Rest(t))
        /\ need' = need /\ cnt' = cnt /\ out' = out /\ made' = made /\ good' = good /\ answer' = answer
        /\ \A u \in Threads \ {t} : pc'[u] = pc[u] /\ len'[u] = len[u]
        BY <1>2, <1>0 DEF LookCopy, Types
  <2>3. Request(t)'
        BY <1>0, <2>0, <2>2 DEF Request, Bounds, Rest
  <2>4. ASSUME NEW u \in Threads, u # t PROVE Request(u)'
        BY <1>0, <2>2, <2>4, OthersStay
  <2> QED BY <2>1, <2>3, <2>4 DEF TInv
<1>3. CASE Copy(t)
  <2>0. DEFINE bytes == [k \in 0 .. len[t] - 1 |-> At(from[t] + k)]
  <2>1. cnt[t] + len[t] <= need[t] /\ Deliver(t, len[t], bytes)
        BY <1>3, <1>0 DEF Copy, Request, Bounds
  <2>2. \A k \in 0 .. len[t] - 1 : bytes[k] \in 0 .. made
        BY <1>a
  <2>3. HIDE DEF bytes
  <2>4. /\ out'[t] \in [0 .. need[t] - 1 -> 0 .. made] /\ cnt'[t] = cnt[t] + len[t]
        /\ cnt' \in [Threads -> Nat] /\ DOMAIN out' = Threads
        /\ \A u \in Threads \ {t} : out'[u] = out[u] /\ cnt'[u] = cnt[u]
    <3>1. made <= made /\ len[t] \in Nat
          BY <1>0
    <3> QED BY <3>1, <1>m, <2>1, <2>2, Delivered
  <2>5. Types'
        BY <1>3, <1>0, <2>4 DEF Copy, Types, Labels
  <2>6. Request(t)'
        BY <1>3, <1>0, <2>1, <2>4 DEF Copy, Types, Request, Bounds
  <2>7. ASSUME NEW u \in Threads, u # t PROVE Request(u)'
        BY <1>3, <1>0, <2>4, <2>7, OthersStay DEF Copy, Types
  <2> QED BY <2>5, <2>6, <2>7 DEF TInv
<1>4. CASE Bump(t)
  <2>1. Types'
    <3>1. pos' \in Nat
          BY <1>4, <1>0 DEF Bump
    <3>2. /\ pc' = [pc EXCEPT ![t] = "look"]
          /\ from' = [from EXCEPT ![t] = 0] /\ len' = [len EXCEPT ![t] = 0]
          /\ UNCHANGED <<parallel, catches, process, left, good, made, buf, filled, kind, need,
                         out, cnt, answer, keys, raced, late>>
          BY <1>4 DEF Bump
    <3> QED BY <1>0, <3>1, <3>2 DEF Types, Labels
  <2>2. Request(t)'
        BY <1>4, <1>0 DEF Bump, Types, Request, Bounds
  <2>3. ASSUME NEW u \in Threads, u # t PROVE Request(u)'
        BY <1>4, <1>0, <2>3, OthersStay DEF Bump, Types
  <2> QED BY <2>1, <2>2, <2>3 DEF TInv
<1>5. CASE Refill(t)
  <2>1. PICK n \in 1 .. BufSize :
          /\ buf' = [k \in 0 .. BufSize - 1 |-> IF k < n THEN made + 1 + k ELSE buf[k]]
          /\ made' = made + n /\ len' = [len EXCEPT ![t] = n]
        BY <1>5 DEF Refill
  <2>2. buf' \in [0 .. BufSize - 1 -> 0 .. made']
        BY <1>0, <2>1, SMTT(30)
  <2>3. Types'
        BY <1>5, <1>0, <2>1, <2>2, SMTT(30) DEF Refill, Types, Labels
  <2>4. Request(t)'
        BY <1>5, <1>0, <2>1 DEF Refill, Types, Request, Bounds
  <2>5. ASSUME NEW u \in Threads, u # t PROVE Request(u)'
        BY <1>5, <1>0, <2>1, <2>5, OthersStay DEF Refill, Types
  <2> QED BY <2>3, <2>4, <2>5 DEF TInv
<1>6. CASE SetBuffer(t)
  <2>0. len[t] \in 1 .. BufSize
        BY <1>6, <1>0 DEF SetBuffer, Request, Bounds
  <2>1. Types'
        BY <1>6, <1>0, <2>0, SMTT(30) DEF SetBuffer, locals, Types, Labels
  <2>2. Request(t)'
        BY <1>6, <1>0 DEF SetBuffer, locals, Types, Request, Bounds
  <2>3. ASSUME NEW u \in Threads, u # t PROVE Request(u)'
        BY <1>6, <1>0, <2>3, OthersStay DEF SetBuffer, locals, Types
  <2> QED BY <2>1, <2>2, <2>3 DEF TInv
<1>7. CASE Take(t)
  <2>0. DEFINE bytes == [k \in {0} |-> At(pos)]
  <2>1. cnt[t] + 1 <= need[t] /\ Deliver(t, 1, bytes)
        BY <1>7, <1>0 DEF Take, Request, Bounds
  <2>2. \A k \in 0 .. 1 - 1 : bytes[k] \in 0 .. made
        BY <1>a
  <2>3. HIDE DEF bytes
  <2>4. /\ out'[t] \in [0 .. need[t] - 1 -> 0 .. made] /\ cnt'[t] = cnt[t] + 1
        /\ cnt' \in [Threads -> Nat] /\ DOMAIN out' = Threads
        /\ \A u \in Threads \ {t} : out'[u] = out[u] /\ cnt'[u] = cnt[u]
    <3>1. made <= made /\ 1 \in Nat
          BY <1>0
    <3> QED BY <3>1, <1>m, <2>1, <2>2, Delivered
  <2>5. Types'
        BY <1>7, <1>0, <2>4 DEF Take, Types, Labels
  <2>6. Request(t)'
        BY <1>7, <1>0, <2>1, <2>4 DEF Take, Types, Request, Bounds
  <2>7. ASSUME NEW u \in Threads, u # t PROVE Request(u)'
        BY <1>7, <1>0, <2>4, <2>7, OthersStay DEF Take, Types
  <2> QED BY <2>5, <2>6, <2>7 DEF TInv
<1>8. CASE ReadDirect(t)
  <2>0. PICK n \in 1 .. Rest(t) :
          /\ Deliver(t, n, [k \in 0 .. n - 1 |-> made + 1 + k]) /\ made' = made + n
        BY <1>8 DEF ReadDirect
  <2>1. DEFINE bytes == [k \in 0 .. n - 1 |-> made + 1 + k]
  <2>2. /\ n \in Nat /\ cnt[t] + n <= need[t] /\ Deliver(t, n, bytes)
        /\ \A k \in 0 .. n - 1 : bytes[k] \in 0 .. made'
        BY <1>0, <2>0, SMTT(30) DEF Rest
  <2>3. HIDE DEF bytes
  <2>4. /\ out'[t] \in [0 .. need[t] - 1 -> 0 .. made'] /\ cnt'[t] = cnt[t] + n
        /\ cnt' \in [Threads -> Nat] /\ DOMAIN out' = Threads
        /\ \A u \in Threads \ {t} : out'[u] = out[u] /\ cnt'[u] = cnt[u]
    <3>1. made <= made' /\ made' \in Nat
          BY <1>0, <2>0
    <3> QED BY <3>1, <2>2, Delivered
  <2>5. made' \in Nat /\ made <= made' /\ buf' \in [0 .. BufSize - 1 -> 0 .. made']
        BY <1>8, <1>0, <2>0, <2>2, SMTT(30) DEF ReadDirect
  <2>6. Types'
        BY <1>8, <1>0, <2>4, <2>5 DEF ReadDirect, Types, Labels
  <2>7. Request(t)'
        BY <1>8, <1>0, <2>2, <2>4 DEF ReadDirect, Types, Request, Bounds
  <2>8. ASSUME NEW u \in Threads, u # t PROVE Request(u)'
        BY <1>8, <1>0, <2>4, <2>5, <2>8, OthersStay DEF ReadDirect, Types
  <2> QED BY <2>6, <2>7, <2>8 DEF TInv
<1>9. CASE Fail(t)
  <2>1. /\ pos' \in {pos, 0} /\ filled' \in {filled, 0} /\ good' = FALSE
        /\ pc' = [pc EXCEPT ![t] = "check"]
        /\ UNCHANGED <<parallel, catches, process, left, made, buf, locals, history>>
        BY <1>9 DEF Fail, FailAs
  <2>2. pos' \in Nat /\ filled' \in 0 .. BufSize
        BY <1>0, <2>1
  <2>3. Types'
        BY <1>0, <2>1, <2>2 DEF locals, Types, Labels
  <2>4. Request(t)'
        BY <1>0, <2>1 DEF locals, Types, Request, Bounds
  <2>5. ASSUME NEW u \in Threads, u # t PROVE Request(u)'
        BY <1>0, <2>1, <2>5, OthersStay DEF locals, Types
  <2> QED BY <2>3, <2>4, <2>5 DEF TInv
<1> QED BY <1>1, <1>2, <1>3, <1>4, <1>5, <1>6, <1>7, <1>8, <1>9 DEF InStream

LEMMA TypeLeave ==
  ASSUME TInv, NEW t \in Threads, ReturnKey(t) \/ ReturnPlain(t) \/ Throw(t)
  PROVE  TInv'
<1>0. Types /\ \A u \in Threads : Request(u)
      BY DEF TInv
<1>1. /\ pc' = [pc EXCEPT ![t] = "idle"] /\ kind' = [kind EXCEPT ![t] = "plain"]
      /\ need' = [need EXCEPT ![t] = 0] /\ cnt' = [cnt EXCEPT ![t] = 0]
      /\ out' = [out EXCEPT ![t] = Zeros(0)] /\ answer' = [answer EXCEPT ![t] = FALSE]
      /\ UNCHANGED <<parallel, catches, left, good, made, buf, pos, filled, from, len, raced>>
      BY DEF ReturnKey, ReturnPlain, Throw, Leave, GoTo, program, stream, history
<1>2. process' \in {"running", "terminated", "crashed"} /\ late' \in [Threads -> Nat]
  <2>1. late \in [Threads -> Nat] /\ process \in {"running", "terminated", "crashed"}
        BY <1>0 DEF Types
  <2>2. CASE ReturnKey(t)
        BY <2>1, <2>2 DEF ReturnKey
  <2>3. CASE ReturnPlain(t)
        BY <2>1, <2>3 DEF ReturnPlain, history
  <2>4. CASE Throw(t)
        BY <2>1, <2>4 DEF Throw, history
  <2> QED BY <2>2, <2>3, <2>4
<1>3. Types'
      BY <1>0, <1>1, <1>2 DEF Types, Labels
<1>4. out'[t] = Zeros(0) /\ need'[t] = 0 /\ cnt'[t] = 0 /\ pc'[t] = "idle"
      BY <1>0, <1>1 DEF Types
<1>5. Zeros(0) \in [0 .. 0 - 1 -> 0 .. made']
      BY DEF Zeros
<1>6. Request(t)'
  <2>1. Bounds(t)'
        BY <1>4 DEF Bounds
  <2> QED BY <1>4, <1>5, <2>1 DEF Request
<1>7. ASSUME NEW u \in Threads, u # t PROVE Request(u)'
  <2>1. /\ pc'[u] = pc[u] /\ need'[u] = need[u] /\ cnt'[u] = cnt[u] /\ out'[u] = out[u]
        /\ len'[u] = len[u] /\ answer'[u] = answer[u]
        BY <1>0, <1>1, <1>7 DEF Types
  <2>2. made \in Nat /\ made' = made /\ good' = good /\ made <= made
        BY <1>0, <1>1 DEF Types
  <2> QED BY <1>0, <2>1, <2>2, OthersStay
<1> QED BY <1>3, <1>6, <1>7 DEF TInv

LEMMA TypeEvaluate ==
  ASSUME TInv, NEW t \in Threads, Evaluate(t)
  PROVE  TInv'
<1>0. Types /\ \A u \in Threads : Request(u)
      BY DEF TInv
<1>1. /\ pc[t] = "check" /\ pc' = [pc EXCEPT ![t] = "answered"]
      /\ answer' = [answer EXCEPT ![t] = good]
      /\ UNCHANGED <<parallel, catches, process, left, good, made, buf, pos, filled, from, len,
                     kind, need, out, cnt, late, raced>>
      BY DEF Evaluate, Answered, Here, GoTo, program, stream, history
<1>2. Types'
      BY <1>0, <1>1 DEF Types, Labels
<1>3. Request(t)'
      BY <1>0, <1>1 DEF Types, Request, Bounds
<1>4. ASSUME NEW u \in Threads, u # t PROVE Request(u)'
      BY <1>0, <1>1, <1>4, OthersStay DEF Types
<1> QED BY <1>2, <1>3, <1>4 DEF TInv

LEMMA TypeNext == TInv /\ [Next]_vars => TInv'
<1> SUFFICES ASSUME TInv, [Next]_vars PROVE TInv'
    OBVIOUS
<1>1. CASE UNCHANGED vars
      BY <1>1 DEF vars, program, stream, locals, history, TInv, Types, Request, Bounds
<1>2. CASE Next
  <2>1. PICK t \in Threads : CallGenKey(t) \/ CallInit(t) \/ CallPlain(t) \/ Step(t)
        BY <1>2 DEF Next
  <2>2. CASE CallGenKey(t) \/ CallInit(t) \/ CallPlain(t)
        BY <2>2, TypeAsk, DeviceAssumption DEF CallGenKey, CallInit, CallPlain, Checked
  <2> QED BY <2>1, <2>2, TypeInStream, TypeEvaluate, TypeLeave DEF Step
<1> QED BY <1>1, <1>2

(* Every variable keeps its type: the buffer is never refilled past its end *)
(* and no request is given more bytes than it asked for, overlapping or not.*)
THEOREM TypeCorrect == Spec => []TypeOK
<1>1. Spec => []TInv
      BY TypeInit, TypeNext, PTL DEF Spec
<1> QED BY <1>1, TypeFollows, PTL

(* A request that is answered with true was served whole.                   *)
THEOREM AnswersAreWhole == Spec => []ServedWhole
<1>1. TInv => ServedWhole
      BY DEF TInv, Request, Bounds, ServedWhole
<1>2. Spec => []TInv
      BY TypeInit, TypeNext, PTL DEF Spec
<1> QED BY <1>1, <1>2, PTL

-----------------------------------------------------------------------------
(* What is handed out after the device failed.                              *)

(* The answer true is computed and not acted on yet.                        *)
Pending(t) == pc[t] = "answered" /\ answer[t]

(* After the failure a thread has its late key behind it or before it, and  *)
(* one thread, whose read failed, has neither.                              *)
LInv ==
  /\ late \in [Threads -> Nat]
  /\ good => \A t \in Threads : late[t] = 0
  /\ \A t \in Threads : late[t] <= 1 /\ (Pending(t) => late[t] = 0)
  /\ \E t \in Threads : late[t] = 0 /\ (good \/ ~Pending(t))

LEMMA LateInit == Init => LInv
BY DeviceAssumption DEF Init, LInv, Pending

LEMMA LateAsk ==
  ASSUME TInv, LInv, NEW t \in Threads, CallGenKey(t) \/ CallInit(t) \/ CallPlain(t)
  PROVE  LInv'
<1>1. /\ UNCHANGED <<good, answer, late>>
      /\ pc'[t] \in {"look", "check"} /\ \A u \in Threads \ {t} : pc'[u] = pc[u]
      BY DEF CallGenKey, CallInit, CallPlain, Ask, GoTo, stream, TInv, Types
<1>2. ~Pending(t)' /\ \A u \in Threads \ {t} : Pending(u)' = Pending(u)
      BY <1>1 DEF Pending
<1> QED BY <1>1, <1>2 DEF LInv

LEMMA LateInStream ==
  ASSUME TInv, LInv, NEW t \in Threads, InStream(t)
  PROVE  LInv'
<1>1. /\ UNCHANGED <<answer, late>> /\ pc'[t] # "answered"
      /\ \A u \in Threads \ {t} : pc'[u] = pc[u]
      BY DEF InStream, LookDone, LookCopy, LookEmpty, LookWild, Copy, Bump, Take, RefillSpared,
         Refill, SetBuffer, ReadDirect, Fail, FailAs, Here, GoTo, locals, history, TInv, Types
<1>2. good' = good \/ good' = FALSE
      BY DEF InStream, LookDone, LookCopy, LookEmpty, LookWild, Copy, Bump, Take, RefillSpared,
         Refill, SetBuffer, ReadDirect, Fail, FailAs, stream
<1>3. ~Pending(t)' /\ \A u \in Threads \ {t} : Pending(u)' = Pending(u)
      BY <1>1 DEF Pending
<1>4. \A u \in Threads : late'[u] <= 1 /\ (Pending(u)' => late'[u] = 0)
      BY <1>1, <1>3 DEF LInv
<1>5. \E u \in Threads : late'[u] = 0 /\ (good' \/ ~Pending(u)')
  <2>1. CASE good
        BY <1>1, <1>3, <2>1 DEF LInv
  <2>2. CASE ~good
        BY <1>1, <1>3, <2>2 DEF LInv
  <2> QED BY <2>1, <2>2
<1> QED BY <1>1, <1>2, <1>4, <1>5 DEF LInv

LEMMA LateEvaluate ==
  ASSUME TInv, LInv, NEW t \in Threads, Evaluate(t)
  PROVE  LInv'
<1>1. /\ UNCHANGED <<good, late>> /\ pc'[t] = "answered" /\ answer'[t] = good
      /\ \A u \in Threads \ {t} : pc'[u] = pc[u] /\ answer'[u] = answer[u]
      BY DEF Evaluate, Answered, GoTo, stream, history, TInv, Types
<1>2. Pending(t)' = good /\ \A u \in Threads \ {t} : Pending(u)' = Pending(u)
      BY <1>1 DEF Pending, TInv, Types
<1> QED BY <1>1, <1>2 DEF LInv

LEMMA LateLeave ==
  ASSUME TInv, LInv, NEW t \in Threads, ReturnKey(t) \/ ReturnPlain(t) \/ Throw(t)
  PROVE  LInv'
<1>1. /\ good' = good /\ pc'[t] = "idle"
      /\ \A u \in Threads \ {t} : pc'[u] = pc[u] /\ answer'[u] = answer[u]
      BY DEF ReturnKey, ReturnPlain, Throw, Leave, GoTo, stream, TInv, Types
<1>2. ~Pending(t)' /\ \A u \in Threads \ {t} : Pending(u)' = Pending(u)
      BY <1>1 DEF Pending
<1>3. CASE late' = late
      BY <1>1, <1>2, <1>3 DEF LInv
<1>4. CASE ~good /\ ReturnKey(t)
  <2>1. Pending(t) /\ late' = [late EXCEPT ![t] = late[t] + 1]
        BY <1>4 DEF ReturnKey, Here, Accepted, Pending
  <2>2. late'[t] = 1 /\ \A u \in Threads \ {t} : late'[u] = late[u]
        BY <2>1 DEF LInv
  <2>3. \E u \in Threads \ {t} : late[u] = 0 /\ ~Pending(u)
        BY <1>4, <2>1 DEF LInv
  <2>4. late' \in [Threads -> Nat]
        BY <2>1 DEF LInv
  <2> QED BY <1>1, <1>2, <1>4, <2>2, <2>3, <2>4 DEF LInv
<1>5. good /\ ReturnKey(t) => late' = late
      BY DEF ReturnKey, LInv
<1>6. ReturnPlain(t) \/ Throw(t) => late' = late
      BY DEF ReturnPlain, Throw, history
<1> QED BY <1>3, <1>4, <1>5, <1>6

LEMMA LateNext == TInv /\ LInv /\ [Next]_vars => LInv'
<1> SUFFICES ASSUME TInv, LInv, [Next]_vars PROVE LInv'
    OBVIOUS
<1>1. CASE UNCHANGED vars
      BY <1>1 DEF vars, stream, locals, history, LInv, Pending
<1>2. CASE Next
      BY <1>2, LateAsk, LateInStream, LateEvaluate, LateLeave DEF Next, Step
<1> QED BY <1>1, <1>2

(* After the device failed each thread gets at most one more key, by an     *)
(* answer of before the failure, and the one whose read failed gets none.   *)
THEOREM FailureStaysFinal == Spec => []LateKeysBounded
<1>1. LInv => LateKeysBounded
      BY DEF LInv, LateKeysBounded
<1>2. Spec => [](TInv /\ LInv)
      BY TypeInit, TypeNext, LateInit, LateNext, PTL DEF Spec
<1> QED BY <1>1, <1>2, PTL

-----------------------------------------------------------------------------
(* What is handed out, while no two requests overlap.                       *)

(* The part of the buffer that is still to be handed out, seen from a       *)
(* request: on its way through a copy the position is not advanced yet, on  *)
(* its way through a refill it is not set back yet.                         *)
Lo(t) == IF pc[t] = "bump" THEN from[t] + len[t] ELSE IF pc[t] = "set" THEN 0 ELSE pos
Hi(t) == IF pc[t] = "set" THEN len[t] ELSE filled

(* Keys K, then c bytes of a request o, then what of the buffer b is left,  *)
(* are one increasing sequence of bytes the device made.                    *)
Chain(K, o, c, b, lo, hi, m) ==
  /\ \A x, y \in DOMAIN K : \A i \in DOMAIN K[x], j \in DOMAIN K[y] :
       /\ K[x][i] \in 1 .. m
       /\ (x < y \/ (x = y /\ i < j)) => K[x][i] < K[y][j]
  /\ \A i \in 0 .. c - 1 : o[i] \in 1 .. m /\ \A j \in 0 .. i - 1 : o[j] < o[i]
  /\ \A p \in lo .. hi - 1 : b[p] \in 1 .. m /\ \A q \in lo .. p - 1 : b[q] < b[p]
  /\ \A x \in DOMAIN K : \A i \in DOMAIN K[x] :
       /\ \A j \in 0 .. c - 1 : K[x][i] < o[j]
       /\ \A p \in lo .. hi - 1 : K[x][i] < b[p]
  /\ \A i \in 0 .. c - 1, p \in lo .. hi - 1 : o[i] < b[p]

(* Where the position of the buffer is at each label.                       *)
Position(t) ==
  /\ pos <= filled
  /\ pc[t] \in {"copy", "bump"} => from[t] = pos /\ pos + len[t] <= filled
  /\ pc[t] \in {"refill", "set"} => pos = filled
  /\ pc[t] = "take" => pos < filled

Alone(t) == \A u \in Threads \ {t} : pc[u] = "idle"

KeySet == UNION {[0 .. n - 1 -> Nat] : n \in Nat}

InOrder(t) == Position(t) /\ Chain(keys, out[t], cnt[t], buf, Lo(t), Hi(t), made)

FInv ==
  /\ keys \in Seq(KeySet)
  /\ \A t \in Threads : pc[t] = "idle" => cnt[t] = 0
  /\ ~raced =>
       /\ \A t \in Threads : pc[t] # "idle" => Alone(t)
       /\ \A t \in Threads : Alone(t) => InOrder(t)

LEMMA ChainEmpty ==
  ASSUME NEW o, NEW b, NEW m \in Nat
  PROVE  Chain(<<>>, o, 0, b, 0, 0, m)
BY DEF Chain

(* Less of the request, or less of the buffer.                              *)
LEMMA ChainDrop ==
  ASSUME NEW K, NEW o, NEW c \in Nat, NEW b, NEW lo \in Nat, NEW hi \in Nat, NEW m \in Nat,
         Chain(K, o, c, b, lo, hi, m),
         NEW d \in 0 .. c, NEW lo2 \in Nat, NEW hi2 \in Nat, lo2 .. hi2 - 1 \subseteq lo .. hi - 1
  PROVE  Chain(K, o, d, b, lo2, hi2, m)
<1>1. \A p \in lo2 .. hi2 - 1 : p \in lo .. hi - 1
      OBVIOUS
<1>2. \A p \in lo2 .. hi2 - 1 : \A q \in lo2 .. p - 1 : q \in lo .. p - 1
      <2> TAKE p \in lo2 .. hi2 - 1
      <2> TAKE q \in lo2 .. p - 1
      <2>1. q \in lo2 .. hi2 - 1
            OBVIOUS
      <2> QED BY <2>1, <1>1
<1>3. \A i \in 0 .. d - 1 : i \in 0 .. c - 1
      OBVIOUS
<1> QED BY <1>1, <1>2, <1>3 DEF Chain

(* A request of which nothing is written may have any buffer.               *)
LEMMA ChainAny ==
  ASSUME NEW K, NEW o, NEW o2, NEW b, NEW lo \in Nat, NEW hi \in Nat, NEW m \in Nat,
         Chain(K, o, 0, b, lo, hi, m)
  PROVE  Chain(K, o2, 0, b, lo, hi, m)
BY DEF Chain

(* The next n bytes of the buffer go to the request.                        *)
LEMMA ChainCopy ==
  ASSUME NEW K, NEW o, NEW c \in Nat, NEW b, NEW lo \in Nat, NEW hi \in Nat, NEW m \in Nat,
         Chain(K, o, c, b, lo, hi, m), NEW n \in Nat, lo + n <= hi, NEW o2,
         \A k \in 0 .. c + n - 1 : o2[k] = IF k \in c .. c + n - 1 THEN b[lo + (k - c)] ELSE o[k]
  PROVE  Chain(K, o2, c + n, b, lo + n, hi, m)
<1>1. \A k \in 0 .. c - 1 : o2[k] = o[k]
      OBVIOUS
<1>2. \A k \in c .. c + n - 1 : lo + (k - c) \in lo .. lo + n - 1 /\ o2[k] = b[lo + (k - c)]
      OBVIOUS
<1>3. \A p \in lo .. lo + n - 1 : p \in lo .. hi - 1
      OBVIOUS
<1>4. \A p \in lo + n .. hi - 1 : p \in lo .. hi - 1
      OBVIOUS
<1>5. ASSUME NEW i \in 0 .. c + n - 1
      PROVE  o2[i] \in 1 .. m /\ \A j \in 0 .. i - 1 : o2[j] < o2[i]
  <2>1. CASE i \in 0 .. c - 1
    <3>1. \A j \in 0 .. i - 1 : j \in 0 .. c - 1
          BY <2>1
    <3> QED BY <1>1, <2>1, <3>1 DEF Chain
  <2>2. CASE i \in c .. c + n - 1
    <3>1. o2[i] \in 1 .. m
          BY <1>2, <1>3, <2>2 DEF Chain
    <3>2. ASSUME NEW j \in 0 .. i - 1, j \in 0 .. c - 1 PROVE o2[j] < o2[i]
          BY <1>1, <1>2, <1>3, <2>2, <3>2 DEF Chain
    <3>3. ASSUME NEW j \in 0 .. i - 1, j \in c .. c + n - 1 PROVE o2[j] < o2[i]
      <4>1. lo + (j - c) \in lo .. (lo + (i - c)) - 1
            BY <3>3, <2>2
      <4>2. lo + (i - c) \in lo .. hi - 1
            BY <1>2, <1>3, <2>2
      <4> QED BY <1>2, <2>2, <3>3, <4>1, <4>2 DEF Chain
    <3>4. \A j \in 0 .. i - 1 : j \in 0 .. c - 1 \/ j \in c .. c + n - 1
          BY <2>2
    <3> QED BY <3>1, <3>2, <3>3, <3>4
  <2> QED BY <2>1, <2>2
<1>6. ASSUME NEW p \in lo + n .. hi - 1
      PROVE  b[p] \in 1 .. m /\ \A q \in lo + n .. p - 1 : b[q] < b[p]
  <2>1. \A q \in lo + n .. p - 1 : q \in lo .. p - 1
        OBVIOUS
  <2> QED BY <1>4, <2>1 DEF Chain
<1>7. ASSUME NEW x \in DOMAIN K, NEW i \in DOMAIN K[x]
      PROVE  /\ \A j \in 0 .. c + n - 1 : K[x][i] < o2[j]
             /\ \A p \in lo + n .. hi - 1 : K[x][i] < b[p]
  <2>1. \A j \in 0 .. c - 1 : K[x][i] < o2[j]
        BY <1>1 DEF Chain
  <2>2. \A j \in c .. c + n - 1 : K[x][i] < o2[j]
        BY <1>2, <1>3 DEF Chain
  <2>3. \A p \in lo + n .. hi - 1 : K[x][i] < b[p]
        BY <1>4 DEF Chain
  <2>4. \A j \in 0 .. c + n - 1 : j \in 0 .. c - 1 \/ j \in c .. c + n - 1
        OBVIOUS
  <2> QED BY <2>1, <2>2, <2>3, <2>4
<1>8. ASSUME NEW i \in 0 .. c + n - 1, NEW p \in lo + n .. hi - 1
      PROVE  o2[i] < b[p]
  <2>1. CASE i \in 0 .. c - 1
        BY <1>1, <1>4, <2>1 DEF Chain
  <2>2. CASE i \in c .. c + n - 1
    <3>1. lo + (i - c) \in lo .. p - 1 /\ p \in lo .. hi - 1
          BY <2>2
    <3> QED BY <1>2, <2>2, <3>1 DEF Chain
  <2> QED BY <2>1, <2>2
<1> QED BY <1>5, <1>6, <1>7, <1>8 DEF Chain

(* An empty buffer is filled with the next bytes of the device.             *)
LEMMA ChainRefill ==
  ASSUME NEW K, NEW o, NEW c \in Nat, NEW b, NEW lo \in Nat, NEW m \in Nat,
         Chain(K, o, c, b, lo, lo, m), NEW n \in Nat, NEW b2,
         \A k \in 0 .. n - 1 : b2[k] = m + 1 + k
  PROVE  Chain(K, o, c, b2, 0, n, m + n)
<1>1. \A x \in DOMAIN K : \A i \in DOMAIN K[x] : K[x][i] \in 1 .. m /\ K[x][i] \in 1 .. m + n
      BY DEF Chain
<1>2. \A i \in 0 .. c - 1 : o[i] \in 1 .. m /\ o[i] \in 1 .. m + n
      BY DEF Chain
<1>3. \A p \in 0 .. n - 1 : b2[p] \in 1 .. m + n /\ b2[p] > m /\ \A q \in 0 .. p - 1 : b2[q] < b2[p]
      <2> TAKE p \in 0 .. n - 1
      <2>1. \A q \in 0 .. p - 1 : q \in 0 .. n - 1
            OBVIOUS
      <2> QED BY <2>1
<1> QED BY <1>1, <1>2, <1>3 DEF Chain

(* The next bytes of the device go to the request itself.                   *)
LEMMA ChainDirect ==
  ASSUME NEW K, NEW o, NEW c \in Nat, NEW b, NEW lo \in Nat, NEW m \in Nat,
         Chain(K, o, c, b, lo, lo, m), NEW n \in Nat, NEW o2,
         \A k \in 0 .. c + n - 1 : o2[k] = IF k \in c .. c + n - 1 THEN m + 1 + (k - c) ELSE o[k]
  PROVE  Chain(K, o2, c + n, b, lo, lo, m + n)
<1>1. \A k \in 0 .. c - 1 : o2[k] = o[k] /\ o2[k] \in 1 .. m
      BY DEF Chain
<1>2. \A k \in c .. c + n - 1 : o2[k] = m + 1 + (k - c)
      OBVIOUS
<1>3. \A x \in DOMAIN K : \A i \in DOMAIN K[x] : K[x][i] \in 1 .. m /\ K[x][i] \in 1 .. m + n
      BY DEF Chain
<1>4. ASSUME NEW i \in 0 .. c + n - 1
      PROVE  o2[i] \in 1 .. m + n /\ \A j \in 0 .. i - 1 : o2[j] < o2[i]
  <2>1. CASE i \in 0 .. c - 1
    <3>1. \A j \in 0 .. i - 1 : j \in 0 .. c - 1
          BY <2>1
    <3>2. o2[i] \in 1 .. m + n
          BY <1>1, <2>1
    <3> QED BY <1>1, <2>1, <3>1, <3>2 DEF Chain
  <2>2. CASE i \in c .. c + n - 1
        BY <1>1, <1>2, <2>2
  <2> QED BY <2>1, <2>2
<1>5. \A x \in DOMAIN K : \A i \in DOMAIN K[x] : \A j \in 0 .. c + n - 1 : K[x][i] < o2[j]
  <2>1. \A x \in DOMAIN K : \A i \in DOMAIN K[x] : \A j \in 0 .. c - 1 : K[x][i] < o2[j]
        BY <1>1 DEF Chain
  <2>2. \A x \in DOMAIN K : \A i \in DOMAIN K[x] : \A j \in c .. c + n - 1 : K[x][i] < o2[j]
        BY <1>2, <1>3
  <2>3. \A j \in 0 .. c + n - 1 : j \in 0 .. c - 1 \/ j \in c .. c + n - 1
        OBVIOUS
  <2> QED BY <2>1, <2>2, <2>3
<1> QED BY <1>3, <1>4, <1>5 DEF Chain

(* The request becomes the last key.                                        *)
LEMMA ChainReturn ==
  ASSUME NEW S, NEW K \in Seq(S), NEW o \in S, NEW c \in Nat, DOMAIN o = 0 .. c - 1,
         NEW b, NEW lo \in Nat, NEW hi \in Nat, NEW m \in Nat, Chain(K, o, c, b, lo, hi, m), NEW o2
  PROVE  Chain(Append(K, o), o2, 0, b, lo, hi, m)
<1> DEFINE L == Append(K, o)
           N == Len(K) + 1
<1>1. /\ DOMAIN K = 1 .. Len(K) /\ Len(K) \in Nat /\ DOMAIN L = 1 .. N
      /\ \A x \in 1 .. Len(K) : L[x] = K[x]
      /\ L[N] = o
      OBVIOUS
<1> HIDE DEF L
<1>2. \A x \in DOMAIN L : x = N \/ (x < N /\ x \in DOMAIN K /\ L[x] = K[x])
      BY <1>1
<1>3. \A x \in DOMAIN L : \A i \in DOMAIN L[x] : L[x][i] \in 1 .. m
      BY <1>1, <1>2 DEF Chain
<1>4. ASSUME NEW x \in DOMAIN L, NEW y \in DOMAIN L, NEW i \in DOMAIN L[x], NEW j \in DOMAIN L[y],
             x < y \/ (x = y /\ i < j)
      PROVE  L[x][i] < L[y][j]
  <2>1. CASE x # N /\ y # N
        BY <1>2, <1>4, <2>1 DEF Chain
  <2>2. CASE x # N /\ y = N
        BY <1>1, <1>2, <2>2 DEF Chain
  <2>3. CASE x = N /\ y = N
    <3>1. i \in 0 .. c - 1 /\ j \in 0 .. c - 1 /\ i < j /\ L[x] = o /\ L[y] = o
          BY <1>1, <1>4, <2>3
    <3>2. i \in 0 .. j - 1
          BY <3>1
    <3> QED BY <3>1, <3>2 DEF Chain
  <2>4. CASE x = N /\ y # N
        BY <1>1, <1>2, <1>4, <2>4
  <2> QED BY <2>1, <2>2, <2>3, <2>4
<1>5. ASSUME NEW x \in DOMAIN L, NEW i \in DOMAIN L[x], NEW p \in lo .. hi - 1
      PROVE  L[x][i] < b[p]
      BY <1>1, <1>2 DEF Chain
<1>6. \A p \in lo .. hi - 1 : b[p] \in 1 .. m /\ \A q \in lo .. p - 1 : b[q] < b[p]
      BY DEF Chain
<1>7. Chain(L, o2, 0, b, lo, hi, m)
      BY <1>3, <1>4, <1>5, <1>6 DEF Chain
<1> QED BY <1>7 DEF L

LEMMA OrderInStream ==
  ASSUME TInv, NEW t \in Threads, InStream(t), InOrder(t)
  PROVE  InOrder(t)'
<1> USE DeviceAssumption DEF Here, GoTo, program, stream, history
<1>0. /\ made \in Nat /\ pos \in Nat /\ filled \in 0 .. BufSize /\ BufSize \in Nat
      /\ cnt[t] \in Nat /\ need[t] \in Nat /\ len[t] \in Nat /\ from[t] \in Nat
      /\ pc \in [Threads -> Labels] /\ from \in [Threads -> Nat] /\ len \in [Threads -> Nat]
      /\ cnt[t] <= need[t] /\ Bounds(t)
      BY DEF TInv, Types, Request
<1>1. Position(t) /\ Chain(keys, out[t], cnt[t], buf, Lo(t), Hi(t), made)
      BY DEF InOrder
<1>2. CASE LookDone(t) \/ LookEmpty(t)
  <2>1. UNCHANGED <<keys, out, cnt, buf, pos, filled, made, from, len>>
        BY <1>2 DEF LookDone, LookEmpty, locals
  <2>2. Lo(t)' = Lo(t) /\ Hi(t)' = Hi(t) /\ pc'[t] \in {"check", "refill"}
        BY <1>2, <1>0, <2>1 DEF LookDone, LookEmpty, Lo, Hi
  <2>3. Position(t)'
        BY <1>2, <1>0, <1>1, <2>1, <2>2 DEF LookDone, LookEmpty, Position
  <2> QED BY <1>1, <2>1, <2>2, <2>3 DEF InOrder
<1>3. CASE LookWild(t) \/ RefillSpared(t)
      BY <1>3, <1>0, <1>1 DEF LookWild, RefillSpared, Position
<1>4. CASE LookCopy(t)
  <2>1. UNCHANGED <<keys, out, cnt, buf, pos, filled, made>>
        BY <1>4 DEF LookCopy
  <2>2. /\ pc'[t] = "copy" /\ from'[t] = pos /\ len'[t] = Lesser(filled - pos, Rest(t))
        /\ pos < filled
        BY <1>4, <1>0 DEF LookCopy
  <2>3. Lo(t)' = Lo(t) /\ Hi(t)' = Hi(t)
        BY <1>4, <1>0, <2>1, <2>2 DEF LookCopy, Lo, Hi
  <2>4. len'[t] \in Nat /\ pos + len'[t] <= filled
        BY <1>0, <2>2 DEF Lesser, Rest
  <2>5. Position(t)'
        BY <1>0, <2>1, <2>2, <2>4, <1>1 DEF Position
  <2> QED BY <1>1, <2>1, <2>3, <2>5 DEF InOrder
<1>5. CASE Copy(t)
  <2> DEFINE bytes == [k \in 0 .. len[t] - 1 |-> At(from[t] + k)]
  <2>1. /\ cnt[t] + len[t] <= need[t] /\ from[t] = pos /\ pos + len[t] <= filled
        /\ Deliver(t, len[t], bytes) /\ \A k \in 0 .. len[t] - 1 : bytes[k] = buf[pos + k]
        BY <1>5, <1>0, <1>1, SMTT(30) DEF Copy, Bounds, Position, At
  <2>2. \A k \in 0 .. len[t] - 1 : bytes[k] \in 0 .. made
        BY <2>1, <1>0, SMTT(30) DEF TInv, Types
  <2> HIDE DEF bytes
  <2>3. /\ \A k \in 0 .. need[t] - 1 :
             out'[t][k] = IF k \in cnt[t] .. cnt[t] + len[t] - 1 THEN bytes[k - cnt[t]] ELSE out[t][k]
        /\ cnt'[t] = cnt[t] + len[t]
    <3>1. made <= made /\ made \in Nat /\ len[t] \in Nat
          BY <1>0
    <3>2. TInv /\ t \in Threads /\ cnt[t] + len[t] <= need[t] /\ Deliver(t, len[t], bytes)
          BY <2>1
    <3> QED BY <3>1, <3>2, <2>2, Delivered
  <2>4. \A k \in cnt[t] .. cnt[t] + len[t] - 1 : bytes[k - cnt[t]] = buf[pos + (k - cnt[t])]
        BY <1>0, <2>1
  <2>5. \A k \in 0 .. cnt[t] + len[t] - 1 :
           out'[t][k] = IF k \in cnt[t] .. cnt[t] + len[t] - 1 THEN buf[pos + (k - cnt[t])] ELSE out[t][k]
        BY <1>0, <2>1, <2>3, <2>4
  <2>6. /\ UNCHANGED <<keys, buf, pos, filled, made, from, len>> /\ pc'[t] = "bump" /\ pc[t] = "copy"
        BY <1>5, <1>0 DEF Copy
  <2>7. Lo(t) = pos /\ Hi(t) = filled /\ Lo(t)' = pos + len[t] /\ Hi(t)' = filled
        BY <2>1, <2>6 DEF Lo, Hi
  <2>8. Chain(keys, out[t], cnt[t], buf, pos, filled, made)
        BY <1>1, <2>7
  <2>9. Chain(keys, out'[t], cnt[t] + len[t], buf, pos + len[t], filled, made)
    <3>1. /\ filled \in Nat /\ pos \in Nat /\ made \in Nat /\ cnt[t] \in Nat /\ len[t] \in Nat
          /\ pos + len[t] <= filled
          BY <1>0, <2>1
    <3> HIDE DEF Here, GoTo, program, stream, history
    <3> QED BY <3>1, <2>5, <2>8, ChainCopy
  <2>10. Position(t)'
        BY <2>1, <2>6, <1>1 DEF Position
  <2> QED BY <2>3, <2>6, <2>7, <2>9, <2>10 DEF InOrder
<1>6. CASE Bump(t)
  <2>1. /\ UNCHANGED <<keys, out, cnt, buf, filled, made>> /\ pc[t] = "bump" /\ pc'[t] = "look"
        /\ from[t] = pos /\ pos + len[t] <= filled /\ pos' = pos + len[t]
        BY <1>6, <1>0, <1>1 DEF Bump, Position
  <2>2. Lo(t)' = Lo(t) /\ Hi(t)' = Hi(t) /\ Position(t)'
        BY <2>1, <1>0 DEF Lo, Hi, Position
  <2> QED BY <1>1, <2>1, <2>2 DEF InOrder
<1>7. CASE Refill(t)
  <2>1. PICK n \in 1 .. BufSize :
          /\ buf' = [k \in 0 .. BufSize - 1 |-> IF k < n THEN made + 1 + k ELSE buf[k]]
          /\ made' = made + n /\ len' = [len EXCEPT ![t] = n]
        BY <1>7 DEF Refill
  <2>2. /\ UNCHANGED <<keys, out, cnt, pos, filled, from>> /\ pc[t] = "refill" /\ pc'[t] = "set"
        /\ len'[t] = n /\ n \in Nat /\ pos = filled
        BY <1>7, <1>0, <1>1, <2>1 DEF Refill, Position
  <2>3. \A k \in 0 .. n - 1 : buf'[k] = made + 1 + k
        BY <1>0, <2>1
  <2>4. Lo(t) = pos /\ Hi(t) = pos /\ Lo(t)' = 0 /\ Hi(t)' = n
        BY <2>2 DEF Lo, Hi
  <2>5. Chain(keys, out[t], cnt[t], buf, pos, pos, made)
        BY <1>1, <2>4
  <2>6. Chain(keys, out[t], cnt[t], buf', 0, n, made + n)
        BY <1>0, <2>2, <2>3, <2>5, ChainRefill
  <2>7. Position(t)'
        BY <2>2, <1>1 DEF Position
  <2> QED BY <2>1, <2>2, <2>4, <2>6, <2>7 DEF InOrder
<1>8. CASE SetBuffer(t)
  <2>1. /\ UNCHANGED <<keys, out, cnt, buf, made, from, len>> /\ pc[t] = "set" /\ pc'[t] = "take"
        /\ pos' = 0 /\ filled' = len[t] /\ len[t] \in 1 .. BufSize
        BY <1>8, <1>0 DEF SetBuffer, locals, Bounds
  <2>2. Lo(t)' = Lo(t) /\ Hi(t)' = Hi(t) /\ Position(t)'
        BY <2>1, <1>0 DEF Lo, Hi, Position
  <2> QED BY <1>1, <2>1, <2>2 DEF InOrder
<1>9. CASE Take(t)
  <2> DEFINE bytes == [k \in {0} |-> At(pos)]
  <2>1. /\ cnt[t] + 1 <= need[t] /\ pos < filled /\ Deliver(t, 1, bytes) /\ bytes[0] = buf[pos]
        BY <1>9, <1>0, <1>1 DEF Take, Bounds, Position, At
  <2>2. \A k \in 0 .. 1 - 1 : bytes[k] \in 0 .. made
        BY <2>1, <1>0 DEF TInv, Types
  <2> HIDE DEF bytes
  <2>3. /\ \A k \in 0 .. need[t] - 1 :
             out'[t][k] = IF k \in cnt[t] .. cnt[t] + 1 - 1 THEN bytes[k - cnt[t]] ELSE out[t][k]
        /\ cnt'[t] = cnt[t] + 1
    <3>1. made <= made /\ made \in Nat /\ 1 \in Nat
          BY <1>0
    <3> QED BY <3>1, <2>1, <2>2, Delivered
  <2>4. \A k \in 0 .. cnt[t] + 1 - 1 :
           out'[t][k] = IF k \in cnt[t] .. cnt[t] + 1 - 1 THEN buf[pos + (k - cnt[t])] ELSE out[t][k]
        BY <1>0, <2>1, <2>3
  <2>5. /\ UNCHANGED <<keys, buf, pos, filled, made>> /\ pc'[t] = "bump" /\ pc[t] = "take"
        /\ from'[t] = pos /\ len'[t] = 1
        BY <1>9, <1>0 DEF Take
  <2>6. Lo(t) = pos /\ Hi(t) = filled /\ Lo(t)' = pos + 1 /\ Hi(t)' = filled
        BY <2>5 DEF Lo, Hi
  <2>7. Chain(keys, out[t], cnt[t], buf, pos, filled, made)
        BY <1>1, <2>6
  <2>8. Chain(keys, out'[t], cnt[t] + 1, buf, pos + 1, filled, made)
    <3>1. filled \in Nat /\ 1 \in Nat /\ pos + 1 <= filled
          BY <1>0, <2>1
    <3> QED BY <1>0, <3>1, <2>4, <2>7, ChainCopy
  <2>9. Position(t)'
        BY <2>1, <2>5, <1>0, <1>1 DEF Position
  <2> QED BY <2>3, <2>5, <2>6, <2>8, <2>9 DEF InOrder
<1>10. CASE ReadDirect(t)
  <2>1. PICK n \in 1 .. Rest(t) :
          /\ Deliver(t, n, [k \in 0 .. n - 1 |-> made + 1 + k]) /\ made' = made + n
        BY <1>10 DEF ReadDirect
  <2> DEFINE bytes == [k \in 0 .. n - 1 |-> made + 1 + k]
  <2>2. /\ n \in Nat /\ cnt[t] + n <= need[t] /\ Deliver(t, n, bytes)
        /\ \A k \in 0 .. n - 1 : bytes[k] \in 0 .. made' /\ bytes[k] = made + 1 + k
    <3>1. \A k \in 0 .. n - 1 : bytes[k] = made + 1 + k
          OBVIOUS
    <3>2. n \in Nat /\ cnt[t] + n <= need[t]
          BY <1>0 DEF Rest
    <3>3. \A k \in 0 .. n - 1 : made + 1 + k \in 0 .. made'
          BY <1>0, <2>1, <3>2
    <3> QED BY <2>1, <3>1, <3>2, <3>3
  <2> HIDE DEF bytes
  <2>3. /\ \A k \in 0 .. need[t] - 1 :
             out'[t][k] = IF k \in cnt[t] .. cnt[t] + n - 1 THEN bytes[k - cnt[t]] ELSE out[t][k]
        /\ cnt'[t] = cnt[t] + n
    <3>1. made <= made' /\ made' \in Nat
          BY <1>0, <2>1
    <3> QED BY <3>1, <2>2, Delivered
  <2>4. \A k \in cnt[t] .. cnt[t] + n - 1 : bytes[k - cnt[t]] = made + 1 + (k - cnt[t])
        BY <1>0, <2>2
  <2>5. \A k \in 0 .. cnt[t] + n - 1 :
           out'[t][k] = IF k \in cnt[t] .. cnt[t] + n - 1 THEN made + 1 + (k - cnt[t]) ELSE out[t][k]
        BY <1>0, <2>2, <2>3, <2>4
  <2>6. /\ UNCHANGED <<keys, buf, pos, filled, from, len>> /\ pc[t] = "refill" /\ pc'[t] = "look"
        /\ pos = filled
        BY <1>10, <1>0, <1>1 DEF ReadDirect, Position
  <2>7. Lo(t) = pos /\ Hi(t) = pos /\ Lo(t)' = pos /\ Hi(t)' = pos
        BY <2>6 DEF Lo, Hi
  <2>8. Chain(keys, out[t], cnt[t], buf, pos, pos, made)
        BY <1>1, <2>7
  <2>9. Chain(keys, out'[t], cnt[t] + n, buf, pos, pos, made + n)
        BY <1>0, <2>2, <2>5, <2>8, ChainDirect
  <2>10. Position(t)'
        BY <2>6, <1>0 DEF Position
  <2> QED BY <2>1, <2>3, <2>6, <2>7, <2>9, <2>10 DEF InOrder
<1>11. CASE Fail(t)
  <2>1. /\ UNCHANGED <<keys, out, cnt, buf, made, from, len>> /\ pc[t] = "refill" /\ pc'[t] = "check"
        /\ pos = filled /\ pos' = filled' /\ pos' \in Nat
        BY <1>11, <1>0, <1>1 DEF Fail, FailAs, locals, Position
  <2>2. Lo(t) = pos /\ Hi(t) = pos /\ Lo(t)' = pos' /\ Hi(t)' = pos'
        BY <2>1 DEF Lo, Hi
  <2>3. Chain(keys, out[t], cnt[t], buf, pos, pos, made)
        BY <1>1, <2>2
  <2>4. Chain(keys, out[t], cnt[t], buf, pos', pos', made)
    <3>1. \A k \in Nat : k .. k - 1 \subseteq pos .. pos - 1
          OBVIOUS
    <3>2. pos' .. pos' - 1 \subseteq pos .. pos - 1
          BY <2>1, <3>1, Zenon
    <3>3. cnt[t] \in 0 .. cnt[t]
          BY <1>0
    <3> QED BY <1>0, <2>1, <2>3, <3>2, <3>3, ChainDrop
  <2>5. Position(t)'
        BY <2>1, <1>0 DEF Position
  <2> QED BY <2>1, <2>2, <2>4, <2>5 DEF InOrder
<1> QED BY <1>2, <1>3, <1>4, <1>5, <1>6, <1>7, <1>8, <1>9, <1>10, <1>11 DEF InStream

LEMMA OrderInit == Init => FInv
<1> SUFFICES ASSUME Init PROVE FInv
    OBVIOUS
<1> USE DEF Init
<1>1. keys \in Seq(KeySet)
      BY EmptySeq
<1>2. ASSUME NEW t \in Threads PROVE InOrder(t)
  <2>1. Lo(t) = 0 /\ Hi(t) = 0 /\ cnt[t] = 0 /\ made = 0 /\ keys = <<>>
        BY DEF Lo, Hi
  <2>2. Position(t)
        BY DEF Position
  <2> QED BY <2>1, <2>2, ChainEmpty DEF InOrder
<1> QED BY <1>1, <1>2 DEF FInv

LEMMA OrderAsk ==
  ASSUME TInv, FInv, NEW t \in Threads, NEW f \in Checked \cup {"plain"}, NEW n \in Nat,
         Ask(t, f, n)
  PROVE  FInv'
<1>1. /\ UNCHANGED <<buf, pos, filled, made, from, len, keys>> /\ pc[t] = "idle"
      /\ pc' = [pc EXCEPT ![t] = IF good THEN "look" ELSE "check"]
      /\ cnt' = [cnt EXCEPT ![t] = 0]
      BY DEF Ask, GoTo, stream
<1>2. pc \in [Threads -> Labels] /\ cnt \in [Threads -> Nat] /\ pos \in Nat /\ filled \in Nat
      /\ made \in Nat /\ keys \in Seq(KeySet)
      BY DeviceAssumption DEF TInv, Types, FInv
<1>3. ASSUME ~raced'
      PROVE  /\ \A u \in Threads : pc'[u] # "idle" => Alone(u)'
             /\ \A u \in Threads : Alone(u)' => InOrder(u)'
  <2>1. ~raced /\ \A u \in Threads : pc[u] = "idle"
        BY <1>3 DEF Ask
  <2>2. Alone(t) /\ InOrder(t)
        BY <2>1 DEF Alone, FInv
  <2>3. pc'[t] \in {"look", "check"} /\ cnt'[t] = 0 /\ \A u \in Threads \ {t} : pc'[u] = "idle"
        BY <1>1, <1>2, <2>1
  <2>4. Lo(t) = pos /\ Hi(t) = filled /\ Lo(t)' = pos /\ Hi(t)' = filled
        BY <1>1, <2>3 DEF Lo, Hi
  <2>5. cnt[t] = 0 /\ Position(t)'
        BY <1>1, <2>2, <2>3 DEF InOrder, Position, FInv
  <2>6. Chain(keys, out'[t], 0, buf, pos, filled, made)
        BY <1>2, <2>2, <2>4, <2>5, ChainAny DEF InOrder
  <2>7. InOrder(t)'
        BY <1>1, <2>3, <2>4, <2>5, <2>6 DEF InOrder
  <2> QED BY <2>3, <2>7 DEF Alone
<1>4. \A u \in Threads : pc'[u] = "idle" => cnt'[u] = 0
      BY <1>1, <1>2 DEF FInv
<1> QED BY <1>1, <1>2, <1>3, <1>4 DEF FInv

LEMMA OrderLeave ==
  ASSUME TInv, FInv, NEW t \in Threads, ReturnKey(t) \/ ReturnPlain(t) \/ Throw(t)
  PROVE  FInv'
<1>1. /\ UNCHANGED <<made, buf, pos, filled, raced>>
      /\ pc[t] = "answered" /\ pc' = [pc EXCEPT ![t] = "idle"]
      /\ cnt' = [cnt EXCEPT ![t] = 0] /\ out' = [out EXCEPT ![t] = Zeros(0)]
      BY DEF ReturnKey, ReturnPlain, Throw, Leave, GoTo, stream, history, Here
<1>2. /\ pc \in [Threads -> Labels] /\ cnt \in [Threads -> Nat] /\ DOMAIN out = Threads
      /\ pos \in Nat /\ filled \in Nat /\ made \in Nat /\ keys \in Seq(KeySet)
      /\ out[t] \in [0 .. need[t] - 1 -> 0 .. made] /\ need[t] \in Nat /\ Bounds(t)
  <2>1. Types /\ Request(t) /\ keys \in Seq(KeySet)
        BY DEF TInv, FInv
  <2> QED BY <2>1, DeviceAssumption, SMTT(30) DEF Types, Request
<1>3. out[t] \in KeySet
  <2>1. out[t] \in [0 .. need[t] - 1 -> Nat]
        BY <1>2
  <2> QED BY <1>2, <2>1 DEF KeySet
<1>4. \/ keys' = keys
      \/ keys' = Append(keys, out[t]) /\ cnt[t] = need[t]
  <2>1. CASE ReturnPlain(t) \/ Throw(t)
        BY <2>1 DEF ReturnPlain, Throw, history
  <2>2. CASE ReturnKey(t)
        BY <1>1, <1>2, <2>2 DEF ReturnKey, Accepted, Bounds
  <2> QED BY <2>1, <2>2
<1>5. keys' \in Seq(KeySet)
  <2>1. keys \in Seq(KeySet)
        BY <1>2
  <2>2. Append(keys, out[t]) \in Seq(KeySet)
        BY <1>3, <2>1, AppendProperties
  <2> QED BY <1>4, <2>1, <2>2
<1>6. \A u \in Threads : pc'[u] = "idle" => cnt'[u] = 0
      BY <1>1, <1>2 DEF FInv
<1>7. ASSUME ~raced
      PROVE  \A u \in Threads : pc'[u] = "idle" /\ InOrder(u)'
  <2>1. Alone(t) /\ InOrder(t)
        BY <1>1, <1>7 DEF FInv
  <2>2. \A u \in Threads : pc'[u] = "idle"
        BY <1>1, <1>2, <2>1 DEF Alone
  <2>3. /\ Lo(t) = pos /\ Hi(t) = filled /\ pos <= filled
        /\ Chain(keys, out[t], cnt[t], buf, pos, filled, made)
        BY <1>1, <2>1 DEF Lo, Hi, InOrder, Position
  <2>4. \A o : Chain(keys', o, 0, buf, pos, filled, made)
    <3> TAKE o
    <3>1. CASE keys' = keys
      <4>1. Chain(keys, out[t], 0, buf, pos, filled, made)
        <5>1. 0 \in 0 .. cnt[t] /\ pos .. filled - 1 \subseteq pos .. filled - 1 /\ cnt[t] \in Nat
              BY <1>2
        <5> QED BY <1>2, <2>3, <5>1, ChainDrop
      <4> QED BY <1>2, <3>1, <4>1, ChainAny
    <3>2. CASE keys' = Append(keys, out[t]) /\ cnt[t] = need[t]
      <4>1. cnt[t] \in Nat /\ DOMAIN out[t] = 0 .. cnt[t] - 1
            BY <1>2, <3>2
      <4> QED BY <1>2, <1>3, <2>3, <3>2, <4>1, ChainReturn
    <3> QED BY <1>4, <3>1, <3>2
  <2>5. ASSUME NEW u \in Threads PROVE InOrder(u)'
    <3>1. Lo(u)' = pos /\ Hi(u)' = filled /\ cnt'[u] = 0 /\ Position(u)'
          BY <1>1, <1>6, <2>2, <2>3 DEF Lo, Hi, Position
    <3> QED BY <1>1, <2>4, <3>1 DEF InOrder
  <2> QED BY <2>2, <2>5
<1> QED BY <1>1, <1>5, <1>6, <1>7 DEF FInv

LEMMA OrderNext == TInv /\ FInv /\ [Next]_vars => FInv'
<1> SUFFICES ASSUME TInv, FInv, [Next]_vars PROVE FInv'
    OBVIOUS
<1>1. CASE UNCHANGED vars
      BY <1>1 DEF vars, program, stream, locals, history, FInv, InOrder, Alone, Position, Lo, Hi, Chain
<1>2. CASE Next
  <2>1. PICK t \in Threads : CallGenKey(t) \/ CallInit(t) \/ CallPlain(t) \/ Step(t)
        BY <1>2 DEF Next
  <2>2. CASE CallGenKey(t) \/ CallInit(t) \/ CallPlain(t)
        BY <2>2, OrderAsk, DeviceAssumption DEF CallGenKey, CallInit, CallPlain, Checked
  <2>3. CASE InStream(t)
    <3>1. /\ pc[t] # "idle" /\ pc'[t] # "idle" /\ \A u \in Threads \ {t} : pc'[u] = pc[u]
          BY <2>3 DEF TInv, Types, InStream, LookDone, LookCopy, LookEmpty, LookWild, Copy, Bump,
             Take, RefillSpared, Refill, SetBuffer, ReadDirect, Fail, FailAs, Here, GoTo
    <3>2. UNCHANGED <<keys, raced>>
          BY <2>3 DEF InStream, LookDone, LookCopy, LookEmpty, LookWild, Copy, Bump,
             Take, RefillSpared, Refill, SetBuffer, ReadDirect, Fail, FailAs, history
    <3>3. \A u \in Threads \ {t} : cnt'[u] = cnt[u]
          BY <2>3 DEF TInv, Types, InStream, LookDone, LookCopy, LookEmpty, LookWild, Copy, Bump,
             Take, RefillSpared, Refill, SetBuffer, ReadDirect, Fail, FailAs, Deliver, locals
    <3>4. ASSUME ~raced
          PROVE  Alone(t) /\ Alone(t)' /\ InOrder(t)' /\ \A u \in Threads \ {t} : ~Alone(u)' /\ pc'[u] = "idle"
      <4>1. Alone(t) /\ InOrder(t)
            BY <3>1, <3>4 DEF FInv
      <4>2. InOrder(t)'
            BY <2>3, <4>1, OrderInStream
      <4> QED BY <3>1, <4>1, <4>2 DEF Alone
    <3> QED BY <3>1, <3>2, <3>3, <3>4 DEF FInv
  <2>4. CASE Evaluate(t)
    <3>1. /\ UNCHANGED <<keys, raced, out, cnt, buf, pos, filled, made, from, len>>
          /\ pc[t] = "check" /\ pc' = [pc EXCEPT ![t] = "answered"]
          BY <2>4 DEF Evaluate, Here, GoTo, stream, history
    <3>2. pc'[t] = "answered" /\ \A u \in Threads \ {t} : pc'[u] = pc[u]
          BY <3>1 DEF TInv, Types
    <3>3. \A u \in Threads : Lo(u)' = Lo(u) /\ Hi(u)' = Hi(u)
          BY <3>1, <3>2 DEF Lo, Hi
    <3>4. \A u \in Threads : Position(u) => Position(u)'
          BY <3>1, <3>2 DEF Position
    <3>5. \A u \in Threads : Alone(u)' = Alone(u) /\ (InOrder(u) => InOrder(u)')
          BY <3>1, <3>2, <3>3, <3>4 DEF Alone, InOrder
    <3> QED BY <3>1, <3>2, <3>5 DEF FInv
  <2> QED BY <2>1, <2>2, <2>3, <2>4, OrderLeave DEF Step
<1> QED BY <1>1, <1>2

(* Alone, a request continues where the last one ended: what is returned as *)
(* random has no byte twice and none that was never written.                *)
THEOREM AloneIsFresh == Spec => []FreshUnlessRaced
<1>1. TInv /\ FInv => FreshUnlessRaced
  <2> SUFFICES ASSUME TInv, FInv, ~raced
               PROVE  \A a, b \in DOMAIN keys : \A i \in DOMAIN keys[a], j \in DOMAIN keys[b] :
                        /\ keys[a][i] > 0
                        /\ (a < b \/ (a = b /\ i < j)) => keys[a][i] < keys[b][j]
      BY DEF FreshUnlessRaced
  <2>1. PICK t \in Threads : Alone(t)
        BY DeviceAssumption DEF FInv, Alone
  <2>2. Chain(keys, out[t], cnt[t], buf, Lo(t), Hi(t), made) /\ made \in Nat
        BY <2>1 DEF FInv, InOrder, TInv, Types
  <2> QED BY <2>2 DEF Chain
<1>2. Spec => [](TInv /\ FInv)
      BY TypeInit, TypeNext, OrderInit, OrderNext, PTL DEF Spec
<1> QED BY <1>1, <1>2, PTL

-----------------------------------------------------------------------------
(* getrandom and rdrand: how far the loop that runs has filled its buffer.  *)
Widths == {1, 2, 4, 8}

(* The byte k of a buffer filled with m elements.                           *)
ByteAt(m, k) ==
  IF k \in buffer .. buffer + m * width - 1
    THEN before.generated + 1 + (k - buffer) \div width ELSE before.memory[k]

FilledTo(m) == \A k \in Places : memory[k] = ByteAt(m, k)

(* As above, but for an element a failed instruction may have cleared.      *)
FilledBut(m) ==
  \A k \in Places :
    k < buffer + m * width \/ k >= buffer + (m + 1) * width => memory[k] = ByteAt(m, k)

SourceTypes ==
  /\ memory \in [Places -> Int] /\ at \in {"idle", "ask", "answered", "loop"}
  /\ buffer \in Nat /\ num \in Nat /\ width \in Widths
  /\ progress \in 0 .. num /\ p_out \in Nat /\ ret_bytes \in Int /\ generated \in Nat
  /\ before.generated \in Nat /\ before.memory \in [Places -> Int]

InIdle == at = "idle" => FilledTo(progress) /\ (result = "returned" => progress = num)

InGetrandom ==
  at \in {"ask", "answered"} =>
    /\ width = 1 /\ p_out = buffer + progress
    /\ at = "ask" \/ ret_bytes < 0 =>
         generated = before.generated + progress /\ FilledTo(progress)
    /\ at = "answered" /\ ret_bytes >= 0 =>
         /\ progress + ret_bytes <= num /\ generated = before.generated + progress + ret_bytes
         /\ FilledTo(progress + ret_bytes)

InRdrand ==
  at = "loop" =>
    /\ generated = before.generated + progress /\ FilledBut(progress)
    /\ progress = num => FilledTo(progress)

SourcesInv == SourceTypes /\ InIdle /\ InGetrandom /\ InRdrand

(* A write that starts at first and is n bytes long.                        *)
LEMMA WrittenBytes ==
  ASSUME memory \in [Places -> Int], NEW first \in Nat, NEW n \in Nat,
         NEW value \in [0 .. n - 1 -> Int], Written(first, value)
  PROVE  /\ memory' \in [Places -> Int]
         /\ \A k \in Places : memory'[k] = IF k >= first /\ k < first + n
                                             THEN value[k - first] ELSE memory[k]
<1>1. \A k \in Places : k \in Int
  BY SourcesAssumption DEF Places
<1>2. \A k \in Places : k - first \in DOMAIN value <=> k >= first /\ k < first + n
  BY <1>1
<1>3. \A k \in Places : memory'[k] = IF k - first \in DOMAIN value
                                       THEN value[k - first] ELSE memory[k]
  BY DEF Written
<1>4. \A k \in Places : k - first \in DOMAIN value => value[k - first] \in Int
  OBVIOUS
<1>5. memory' \in [Places -> Int]
  BY <1>4 DEF Written
<1> QED BY <1>2, <1>3, <1>5

LEMMA BeginSource ==
  ASSUME SourcesInv, NEW n \in Nat, NEW w \in Widths, NEW label \in {"ask", "loop"},
         label = "ask" => w = 1, Begin(n, w, label)
  PROVE  SourcesInv'
<1>1. PICK p \in Places : buffer' = p /\ p_out' = p
  BY DEF Begin
<1>2. /\ num' = n /\ width' = w /\ progress' = 0 /\ ret_bytes' = 0 /\ at' = label
      /\ result' = "none" /\ memory' = memory /\ generated' = generated
      /\ before' = [memory |-> memory, generated |-> generated]
  BY DEF Begin
<1>3. p \in Nat /\ memory \in [Places -> Int] /\ generated \in Nat
  BY SourcesAssumption DEF Places, SourcesInv, SourceTypes
<1>4. before'.memory = memory /\ before'.generated = generated
  BY <1>2
<1>5. SourceTypes'
  BY <1>1, <1>2, <1>3, <1>4 DEF SourceTypes
<1>6. FilledTo(0)' /\ FilledBut(0)'
  <2>1. \A k \in Places : k \in p .. p + 0 * w - 1 => FALSE
    BY <1>3 DEF Widths
  <2>2. \A k \in Places : ByteAt(0, k)' = memory'[k]
    BY <1>1, <1>2, <1>4, <2>1 DEF ByteAt
  <2> QED BY <2>2 DEF FilledTo, FilledBut
<1>7. label = "ask" \/ label = "loop"
  OBVIOUS
<1>8. InIdle' /\ InGetrandom' /\ InRdrand'
  BY <1>1, <1>2, <1>3, <1>4, <1>6, <1>7 DEF InIdle, InGetrandom, InRdrand
<1> QED BY <1>5, <1>8 DEF SourcesInv

LEMMA AnswerSource ==
  ASSUME SourcesInv, Answer
  PROVE  SourcesInv'
<1>1. /\ at = "ask" /\ at' = "answered"
      /\ UNCHANGED <<buffer, num, width, progress, p_out, result, before>>
  BY DEF Answer, call
<1>2. /\ SourceTypes /\ width = 1 /\ p_out = buffer + progress /\ progress <= num
      /\ generated = before.generated + progress /\ FilledTo(progress)
  BY <1>1 DEF SourcesInv, InGetrandom, SourceTypes
<1>3. PICK n \in 0 .. num - progress :
        /\ Written(p_out, [k \in 0 .. n - 1 |-> generated + 1 + k])
        /\ generated' = generated + n /\ ret_bytes' = n
  BY DEF Answer, Asked
<1>4. /\ memory \in [Places -> Int] /\ buffer \in Nat /\ num \in Nat /\ progress \in Nat
      /\ generated \in Nat /\ before.generated \in Nat /\ p_out \in Nat /\ n \in Nat
  BY <1>2 DEF SourceTypes
<1> DEFINE value == [k \in 0 .. n - 1 |-> generated + 1 + k]
<1>5. value \in [0 .. n - 1 -> Int] /\ \A k \in 0 .. n - 1 : value[k] = generated + 1 + k
  BY <1>4
<1>6. Written(p_out, value)
  BY <1>3
<1> HIDE DEF value
<1>7. /\ memory' \in [Places -> Int]
      /\ \A k \in Places : memory'[k] = IF k >= p_out /\ k < p_out + n
                                          THEN value[k - p_out] ELSE memory[k]
  BY <1>4, <1>5, <1>6, WrittenBytes
<1>8. FilledTo(progress + ret_bytes)'
  <2>1. SUFFICES ASSUME NEW k \in Places PROVE memory'[k] = ByteAt(progress + ret_bytes, k)'
    BY DEF FilledTo
  <2>2. k \in Nat
    BY SourcesAssumption DEF Places
  <2>3. /\ memory'[k] = IF k >= p_out /\ k < p_out + n THEN value[k - p_out] ELSE memory[k]
        /\ memory[k] = IF k \in buffer .. buffer + progress * 1 - 1
                         THEN before.generated + 1 + (k - buffer) \div 1 ELSE before.memory[k]
    BY <1>2, <1>7 DEF FilledTo, ByteAt
  <2>4. ByteAt(progress + ret_bytes, k)' = IF k \in buffer .. buffer + (progress + n) * 1 - 1
                                     THEN before.generated + 1 + (k - buffer) \div 1
                                     ELSE before.memory[k]
    BY <1>1, <1>2, <1>3 DEF ByteAt
  <2>5. CASE k >= p_out /\ k < p_out + n
    <3>1. k - p_out \in 0 .. n - 1
      BY <1>4, <2>2, <2>5
    <3>2. memory'[k] = generated + 1 + (k - p_out)
      BY <1>5, <2>3, <2>5, <3>1
    <3> QED BY <1>2, <1>4, <2>2, <2>4, <2>5, <3>2
  <2>6. CASE ~(k >= p_out /\ k < p_out + n)
    <3>1. k \in buffer .. buffer + (progress + n) * 1 - 1 <=> k \in buffer .. buffer + progress * 1 - 1
      BY <1>2, <1>4, <2>2, <2>6
    <3> QED BY <2>3, <2>4, <2>6, <3>1
  <2> QED BY <2>5, <2>6
<1>9. SourceTypes'
  BY <1>1, <1>2, <1>3, <1>4, <1>7, SMTT(30) DEF SourceTypes
<1>10. InGetrandom'
  <2>1. ret_bytes' >= 0 /\ ~(ret_bytes' < 0)
    BY <1>3, <1>4
  <2>2. progress' + ret_bytes' <= num' /\ generated' = before.generated' + progress' + ret_bytes'
    BY <1>1, <1>2, <1>3, <1>4
  <2> QED BY <1>1, <1>2, <1>8, <2>1, <2>2 DEF InGetrandom
<1>11. InIdle' /\ InRdrand'
  BY <1>1 DEF InIdle, InRdrand
<1> QED BY <1>9, <1>10, <1>11 DEF SourcesInv

LEMMA GetrandomSource ==
  ASSUME SourcesInv, Refuse \/ GetrandomThrows \/ Advance
  PROVE  SourcesInv'
<1>1. /\ UNCHANGED <<memory, buffer, num, width, generated, before>>
      /\ at \in {"ask", "answered"} /\ at' \in {"idle", "ask", "answered"}
  BY DEF Refuse, GetrandomThrows, Advance, call
<1>2. /\ SourceTypes /\ width = 1 /\ p_out = buffer + progress
      /\ (at = "ask" \/ ret_bytes < 0 =>
            generated = before.generated + progress /\ FilledTo(progress))
      /\ (at = "answered" /\ ret_bytes >= 0 =>
            /\ progress + ret_bytes <= num
            /\ generated = before.generated + progress + ret_bytes
            /\ FilledTo(progress + ret_bytes))
  BY <1>1 DEF SourcesInv, InGetrandom
<1>3. /\ progress \in 0 .. num /\ num \in Nat /\ buffer \in Nat /\ ret_bytes \in Int
      /\ p_out \in Nat /\ generated \in Nat /\ before.generated \in Nat
  BY <1>2 DEF SourceTypes
<1>4. CASE Refuse
  <2>1. at = "ask" /\ at' = "answered" /\ ret_bytes' = -1 /\ UNCHANGED <<progress, p_out, result>>
    BY <1>4 DEF Refuse
  <2>2. FilledTo(progress)'
    BY <1>1, <1>2, <2>1 DEF FilledTo, ByteAt
  <2>3. SourceTypes'
    BY <1>1, <1>2, <2>1 DEF SourceTypes
  <2>4. InGetrandom'
    BY <1>1, <1>2, <2>1, <2>2 DEF InGetrandom
  <2> QED BY <2>1, <2>3, <2>4 DEF SourcesInv, InIdle, InRdrand
<1>5. CASE GetrandomThrows
  <2>1. /\ at = "answered" /\ ret_bytes < 0 /\ at' = "idle" /\ result' = "thrown"
        /\ UNCHANGED <<progress, p_out, ret_bytes>>
    BY <1>5 DEF GetrandomThrows, call
  <2>2. FilledTo(progress)'
    BY <1>1, <1>2, <2>1 DEF FilledTo, ByteAt
  <2>3. SourceTypes'
    BY <1>1, <1>2, <2>1 DEF SourceTypes
  <2> QED BY <2>1, <2>2, <2>3 DEF SourcesInv, InIdle, InGetrandom, InRdrand
<1>6. CASE Advance
  <2>1. /\ at = "answered" /\ ret_bytes >= 0 /\ ret_bytes' = ret_bytes
        /\ p_out' = p_out + ret_bytes /\ progress' = progress + ret_bytes
    BY <1>6 DEF Advance, Advanced
  <2>2. \/ progress' < num /\ at' = "ask" /\ result' = result
        \/ ~(progress' < num) /\ at' = "idle" /\ result' = "returned"
    BY <1>6 DEF Advance, Unfinished
  <2>3. FilledTo(progress)'
    <3>1. \A k \in Places : memory[k] = ByteAt(progress + ret_bytes, k)
      BY <1>2, <2>1 DEF FilledTo
    <3>2. \A k \in Places : memory'[k] = ByteAt(progress, k)'
      BY <1>1, <2>1, <3>1 DEF ByteAt
    <3> QED BY <3>2 DEF FilledTo
  <2>4. /\ progress' \in 0 .. num /\ p_out' = buffer + progress' /\ p_out' \in Nat
        /\ generated = before.generated + progress'
    BY <1>2, <1>3, <2>1
  <2>5. SourceTypes'
    BY <1>1, <1>2, <2>1, <2>4 DEF SourceTypes
  <2>6. at' = "idle" => progress' = num'
    BY <1>1, <1>3, <2>2, <2>4
  <2> QED BY <1>1, <1>2, <2>2, <2>3, <2>4, <2>5, <2>6
          DEF SourcesInv, InIdle, InGetrandom, InRdrand
<1> QED BY <1>4, <1>5, <1>6

(* A turn of the loop of rdrand writes element number progress.             *)
LEMMA ElementSource ==
  ASSUME SourcesInv, at = "loop", progress < num, NEW x \in Int, Store(x),
         UNCHANGED <<at, call, before>>
  PROVE  /\ memory' \in [Places -> Int]
         /\ FilledBut(progress)' \/ progress' # progress
         /\ x = before.generated + 1 + progress /\ progress' = progress + 1 => FilledTo(progress)'
<1>1. /\ memory \in [Places -> Int] /\ buffer \in Nat /\ width \in Widths /\ progress \in Nat
      /\ before.generated \in Nat /\ FilledBut(progress)
      /\ UNCHANGED <<buffer, width, before>>
  BY DEF SourcesInv, SourceTypes, InRdrand, call
<1> DEFINE first == buffer + progress * width
           value == [k \in 0 .. width - 1 |-> x]
<1>2. /\ value \in [0 .. width - 1 -> Int] /\ first \in Nat /\ width \in Nat
      /\ \A k \in 0 .. width - 1 : value[k] = x
  BY <1>1 DEF Widths
<1>3. Written(first, value)
  BY DEF Store
<1> HIDE DEF value
<1>4. /\ memory' \in [Places -> Int]
      /\ \A k \in Places : memory'[k] = IF k >= first /\ k < first + width
                                          THEN value[k - first] ELSE memory[k]
  <2> HIDE DEF first
  <2> QED BY <1>1, <1>2, <1>3, WrittenBytes
<1>5. \A k \in Places : k \in Nat
  BY SourcesAssumption DEF Places
<1>6. \A k \in Places : memory'[k] = IF k >= first /\ k < first + width THEN x ELSE memory[k]
  <2>1. \A k \in Places : k >= first /\ k < first + width => k - first \in 0 .. width - 1
    BY <1>2, <1>5
  <2> QED BY <1>2, <1>4, <2>1
<1>7. \A k \in Places : ~(k >= first /\ k < first + width) => memory[k] = ByteAt(progress, k)
  <2>1. (progress + 1) * width = progress * width + width
    BY <1>1 DEF Widths
  <2> QED BY <1>1, <1>5, <2>1 DEF FilledBut, Widths
<1>8. ASSUME progress' = progress PROVE FilledBut(progress)'
  <2>1. \A k \in Places : ByteAt(progress, k)' = ByteAt(progress, k)
    BY <1>1, <1>8 DEF ByteAt
  <2>2. (progress + 1) * width = progress * width + width
    BY <1>1 DEF Widths
  <2>3. ASSUME NEW k \in Places,
               k < buffer + progress * width \/ k >= buffer + (progress + 1) * width
        PROVE  memory'[k] = ByteAt(progress, k)
    <3>1. ~(k >= first /\ k < first + width)
      BY <1>1, <1>5, <2>2, <2>3 DEF Widths
    <3> QED BY <1>6, <1>7, <3>1
  <2> QED BY <1>1, <1>8, <2>1, <2>3 DEF FilledBut
<1>9. ASSUME x = before.generated + 1 + progress, progress' = progress + 1
      PROVE  FilledTo(progress)'
  <2>1. SUFFICES ASSUME NEW k \in Places PROVE memory'[k] = ByteAt(progress, k)'
    BY DEF FilledTo
  <2>2. ByteAt(progress, k)' = IF k \in buffer .. buffer + (progress + 1) * width - 1
                                 THEN before.generated + 1 + (k - buffer) \div width
                                 ELSE before.memory[k]
    BY <1>1, <1>9 DEF ByteAt
  <2>3. CASE k >= first /\ k < first + width
    <3>1. k \in buffer .. buffer + (progress + 1) * width - 1 /\ (k - buffer) \div width = progress
      BY <1>1, <1>5, <2>3 DEF Widths
    <3> QED BY <1>1, <1>6, <1>9, <2>2, <2>3, <3>1
  <2>4. CASE ~(k >= first /\ k < first + width)
    <3>1. k \in buffer .. buffer + (progress + 1) * width - 1
            <=> k \in buffer .. buffer + progress * width - 1
      BY <1>1, <1>5, <2>4 DEF Widths
    <3>2. memory'[k] = ByteAt(progress, k)
      BY <1>6, <1>7, <2>4
    <3> QED BY <2>2, <3>1, <3>2 DEF ByteAt
  <2> QED BY <2>3, <2>4
<1> QED BY <1>4, <1>8, <1>9

LEMMA RdrandSource ==
  ASSUME SourcesInv, StepStores \/ StepFails \/ RdrandReturns
  PROVE  SourcesInv'
<1>1. /\ SourceTypes /\ at = "loop" /\ generated = before.generated + progress
      /\ FilledBut(progress) /\ (progress = num => FilledTo(progress))
      /\ progress \in 0 .. num /\ num \in Nat /\ generated \in Nat /\ before.generated \in Nat
  BY DEF StepStores, StepFails, RdrandReturns, SourcesInv, InRdrand, SourceTypes
<1>2. CASE StepStores
  <2>1. /\ progress < num /\ Store(generated + 1) /\ UNCHANGED <<at, call, before>>
        /\ progress' = progress + 1 /\ generated' = generated + 1
        /\ UNCHANGED <<p_out, ret_bytes, buffer, num, width>>
    BY <1>2 DEF StepStores, call
  <2>2. memory' \in [Places -> Int] /\ FilledTo(progress)'
    <3>1. generated + 1 \in Int /\ generated + 1 = before.generated + 1 + progress
      BY <1>1
    <3> QED BY <1>1, <2>1, <3>1, ElementSource
  <2>3. SourceTypes'
    BY <1>1, <2>1, <2>2 DEF SourceTypes
  <2>4. FilledBut(progress)'
    BY <2>2 DEF FilledTo, FilledBut
  <2>5. generated' = before.generated' + progress'
    BY <1>1, <2>1
  <2> QED BY <1>1, <2>1, <2>2, <2>3, <2>4, <2>5 DEF SourcesInv, InIdle, InGetrandom, InRdrand
<1>3. CASE StepFails
  <2>1. /\ progress < num /\ Store(0) /\ UNCHANGED <<at, call, before>>
        /\ progress' = progress
        /\ UNCHANGED <<generated, p_out, ret_bytes, buffer, num, width>>
    BY <1>3 DEF StepFails, call
  <2>2. memory' \in [Places -> Int] /\ FilledBut(progress)'
    BY <1>1, <2>1, ElementSource
  <2>3. SourceTypes'
    BY <1>1, <2>1, <2>2 DEF SourceTypes
  <2>4. progress' # num' /\ generated' = before.generated' + progress'
    BY <1>1, <2>1
  <2> QED BY <1>1, <2>1, <2>2, <2>3, <2>4 DEF SourcesInv, InIdle, InGetrandom, InRdrand
<1>4. CASE RdrandReturns
  <2>1. /\ progress >= num /\ at' = "idle" /\ result' = "returned"
        /\ UNCHANGED <<memory, buffer, num, width, progress, p_out, ret_bytes, generated, before>>
    BY <1>4 DEF RdrandReturns, call
  <2>2. progress = num
    BY <1>1, <2>1
  <2>3. FilledTo(progress)'
    BY <1>1, <2>1, <2>2 DEF FilledTo, ByteAt
  <2>4. SourceTypes'
    BY <1>1, <2>1 DEF SourceTypes
  <2> QED BY <2>1, <2>2, <2>3, <2>4 DEF SourcesInv, InIdle, InGetrandom, InRdrand
<1> QED BY <1>2, <1>3, <1>4

(* For memory of every size, requests of every length and any number of     *)
(* calls: whatever the kernel and the instruction answer, getrandom and     *)
(* rdrand leave their buffer filled in order when they return, a prefix of  *)
(* it when they throw, and no other byte touched.                           *)
THEOREM FillsInOrder == SourcesSpec => []FilledInOrder
<1>1. SourcesInit => SourcesInv
  <2> SUFFICES ASSUME SourcesInit PROVE SourcesInv
    OBVIOUS
  <2>1. SourceTypes
    BY DEF SourcesInit, SourceTypes, Widths
  <2>2. FilledTo(0)
    BY DEF SourcesInit, FilledTo, ByteAt
  <2> QED BY <2>1, <2>2 DEF SourcesInit, SourcesInv, InIdle, InGetrandom, InRdrand
<1>2. SourcesInv /\ [SourcesNext]_sources => SourcesInv'
  <2> SUFFICES ASSUME SourcesInv, [SourcesNext]_sources PROVE SourcesInv'
    OBVIOUS
  <2>1. CASE CallGetrandom
    <3>1. PICK n \in Requests : Begin(n, 1, "ask")
      BY <2>1 DEF CallGetrandom
    <3>2. n \in Nat /\ 1 \in Widths
      BY SourcesAssumption DEF Widths
    <3> QED BY <3>1, <3>2, BeginSource
  <2>2. CASE CallRdrand
    <3>1. PICK w \in {2, 4, 8}, n \in 0 .. MemBytes : Begin(n, w, "loop")
      BY <2>2 DEF CallRdrand
    <3>2. n \in Nat /\ w \in Widths
      BY DEF Widths
    <3> QED BY <3>1, <3>2, BeginSource
  <2>3. CASE CallTemplate
    <3>1. PICK b \in 8 .. MemBytes : Begin(b \div 8, 8, "loop")
      BY <2>3 DEF CallTemplate, generic_rdrand_t
    <3>2. b \div 8 \in Nat /\ 8 \in Widths
      BY SourcesAssumption DEF Widths
    <3> QED BY <3>1, <3>2, BeginSource
  <2>4. CASE Turn
    BY <2>4, AnswerSource, GetrandomSource, RdrandSource DEF Turn
  <2>5. CASE UNCHANGED sources
    BY <2>5 DEF sources, call, SourcesInv, SourceTypes, InIdle, InGetrandom, InRdrand,
                FilledTo, FilledBut, ByteAt
  <2> QED BY <2>1, <2>2, <2>3, <2>4, <2>5 DEF SourcesNext
<1>3. SourcesInv => FilledInOrder
  <2> SUFFICES ASSUME SourcesInv, at = "idle"
               PROVE  /\ result = "returned" => progress = num
                      /\ memory = [k \in Places |-> ByteAt(progress, k)]
    BY DEF FilledInOrder, ByteAt
  <2>1. FilledTo(progress) /\ (result = "returned" => progress = num)
    BY DEF SourcesInv, InIdle
  <2>2. memory \in [Places -> Int]
    BY DEF SourcesInv, SourceTypes
  <2> QED BY <2>1, <2>2 DEF FilledTo
<1> QED BY <1>1, <1>2, <1>3, PTL DEF SourcesSpec
=============================================================================
