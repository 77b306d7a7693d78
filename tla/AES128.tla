------------------------------- MODULE AES128 -------------------------------
(***************************************************************************)
(* The three block primitives of src/src/aes-ni.cpp - AES128, MMO128 and   *)
(* AESPRF128 - as one machine: the constructor expands the key one         *)
(* template instantiation at a time, then enc, dec and operator() run      *)
(* round by round on Width independent registers (one for the "single"     *)
(* templates, four for "quad", the argument count for "variadic").         *)
(***************************************************************************)
EXTENDS AesInstr

CONSTANTS
  NumRounds,   \* aes128::num_rounds, 10
  FeedRound,   \* the round whose output AESPRF128 feeds forward, 5
  RconArray,   \* rcon_array
  Width,       \* registers a call carries through the rounds
  Keys,        \* the keys a constructor may be given
  Inputs       \* the blocks a caller may pass

Lane  == 0 .. Width - 1
Kinds == {"AES128", "MMO128", "AESPRF128"}

ASSUME CipherAssumption ==
  /\ NumRounds \in Nat /\ NumRounds >= 2
  /\ FeedRound \in 1 .. NumRounds - 1
  /\ RconArray \in [0 .. NumRounds - 1 -> Word]
  /\ Width \in Nat \ {0}
  /\ Keys \subseteq Block
  /\ Inputs \subseteq Block

VARIABLES
  kind,           \* the class of the object
  expanded_keys,  \* expanded_keys_, by 16-byte slot
  pc,             \* where the running member function is
  N,              \* the template argument: the next round
  m,              \* the registers, by lane
  feed,           \* t of MMO128 and m5 of AESPRF128, by lane
  in, out,        \* the blocks read and written by the last call
  op,             \* the last call that returned: "none", "enc" or "dec"
  trace,          \* history: the registers after each round of the call
  last            \* history: the last encryption that returned

vars == <<kind, expanded_keys, pc, N, m, feed, in, out, op, trace, last>>

ZeroB  == [c \in 0..3 |-> ZeroW]
ZeroLs == [l \in Lane |-> ZeroB]
Lanes  == [Lane -> Block]

(* AES128 stores the decryption keys too; the other two only NumRounds + 1. *)
Slots(k) == IF k = "AES128" THEN 0 .. 2 * NumRounds - 1 ELSE 0 .. NumRounds
-----------------------------------------------------------------------------
(* Variant: the third shift is missing. *)
ShiftXorTwice(k0, k1) ==
  LET key1 == XorB(k0, Slli4(k0))
      key2 == XorB(key1, Slli4(key1))
  IN  XorB(key2, Shuffle3333(k1))

(* aes128_key_expansion_shift_xor *)
ShiftXor(k0, k1) ==
  LET key1 == XorB(k0, Slli4(k0))
      key2 == XorB(key1, Slli4(key1))
      key3 == XorB(key2, Slli4(key2))
  IN  XorB(key3, Shuffle3333(k1))

NextKey(k, n) == ShiftXor(k, KeyGenAssist(k, RconArray[n]))

(* Variant: the round keys backwards, without InvMixColumns. *)
PlainDecKey(ks, i) == ks[NumRounds - i]

(* aes128_load_expkey_for_dec: keys[i], i in 0 .. 10 *)
DecKey(ks, i) == IF i < NumRounds THEN ks[NumRounds + i] ELSE ks[0]

(* Variant: one round key too high. *)
ImcFromNext(n) == NumRounds - n

(* The slot aes128_key_expansion_imc_impl<n> writes and the one it reads. *)
ImcSlot(n) == NumRounds + 1 + n
ImcFrom(n) == NumRounds - 1 - n

(* Variant: the hash and the PRF forget their feed-forward. *)
NoFeedForward(k, c, f) == c

(* What a call xors into the state after its last round. *)
FeedForward(k, c, f) == IF k = "AES128" THEN c ELSE XorB(c, f)
-----------------------------------------------------------------------------
Init ==
  /\ kind \in Kinds
  /\ \E key \in Keys :
       expanded_keys = [s \in Slots(kind) |-> IF s = 0 THEN key ELSE ZeroB]
  /\ pc = "expand" /\ N = 0
  /\ m = ZeroLs /\ feed = ZeroLs /\ in = ZeroLs /\ out = ZeroLs
  /\ op = "none"
  /\ trace = [r \in 0 .. NumRounds - 1 |-> ZeroLs]
  /\ last = [valid |-> FALSE, plain |-> ZeroLs, cipher |-> ZeroLs,
             states |-> [r \in 0 .. NumRounds - 1 |-> ZeroLs]]

(* aes128_key_expansion_impl<N> *)
ExpandKey ==
  /\ pc = "expand"
  /\ expanded_keys' =
       [expanded_keys EXCEPT ![N + 1] = NextKey(expanded_keys[N], N)]
  /\ IF N + 1 < NumRounds
       THEN N' = N + 1 /\ pc' = "expand"
       ELSE N' = 0 /\ pc' = IF kind = "AES128" THEN "imc" ELSE "idle"
  /\ UNCHANGED <<kind, m, feed, in, out, op, trace, last>>

(* aes128_key_expansion_imc_impl<N> *)
ExpandImc ==
  /\ pc = "imc"
  /\ expanded_keys' =
       [expanded_keys EXCEPT ![ImcSlot(N)] = AesImc(expanded_keys[ImcFrom(N)])]
  /\ IF N + 1 < NumRounds - 1
       THEN N' = N + 1 /\ pc' = "imc"
       ELSE N' = 0 /\ pc' = "idle"
  /\ UNCHANGED <<kind, m, feed, in, out, op, trace, last>>

Begin(x, key, phase) ==
  /\ pc = "idle"
  /\ in' = x
  /\ m' = [l \in Lane |-> XorB(x[l], key)]
  /\ trace' = [r \in 0 .. NumRounds - 1 |-> m']
  /\ pc' = phase /\ N' = 1

StartEnc(x) ==
  /\ Begin(x, expanded_keys[0], "enc")
  /\ feed' = x
  /\ UNCHANGED <<kind, expanded_keys, out, op, last>>

(* One of rounds 1 to 9 on every register; round 5 also saves m5. *)
EncRound ==
  /\ pc = "enc" /\ N < NumRounds
  /\ m' = [l \in Lane |-> AesEnc(m[l], expanded_keys[N])]
  /\ feed' = IF kind = "AESPRF128" /\ N = FeedRound THEN m' ELSE feed
  /\ trace' = [trace EXCEPT ![N] = m']
  /\ N' = N + 1
  /\ UNCHANGED <<kind, expanded_keys, pc, in, out, op, last>>

EncLast ==
  /\ pc = "enc" /\ N = NumRounds
  /\ m' = [l \in Lane |-> FeedForward(kind,
                            AesEncLast(m[l], expanded_keys[NumRounds]), feed[l])]
  /\ out' = m'
  /\ op' = "enc" /\ pc' = "idle"
  /\ last' = [valid |-> TRUE, plain |-> in, cipher |-> m', states |-> trace]
  /\ UNCHANGED <<kind, expanded_keys, N, feed, in, trace>>

StartDec(y) ==
  /\ kind = "AES128"
  /\ Begin(y, DecKey(expanded_keys, 0), "dec")
  /\ UNCHANGED <<kind, expanded_keys, feed, out, op, last>>

DecRound ==
  /\ pc = "dec" /\ N < NumRounds
  /\ m' = [l \in Lane |-> AesDec(m[l], DecKey(expanded_keys, N))]
  /\ trace' = [trace EXCEPT ![N] = m']
  /\ N' = N + 1
  /\ UNCHANGED <<kind, expanded_keys, pc, feed, in, out, op, last>>

DecLast ==
  /\ pc = "dec" /\ N = NumRounds
  /\ m' = [l \in Lane |-> AesDecLast(m[l], DecKey(expanded_keys, NumRounds))]
  /\ out' = m'
  /\ op' = "dec" /\ pc' = "idle"
  /\ UNCHANGED <<kind, expanded_keys, N, feed, in, trace, last>>

Next ==
  \/ ExpandKey \/ ExpandImc
  \/ \E x \in [Lane -> Inputs] : StartEnc(x)
  \/ EncRound \/ EncLast
  \/ \E y \in [Lane -> Inputs] \cup {last.cipher} : StartDec(y)
  \/ DecRound \/ DecLast

Spec == Init /\ [][Next]_vars
-----------------------------------------------------------------------------
States == [0 .. NumRounds - 1 -> Lanes]

TypeOK ==
  /\ kind \in Kinds
  /\ expanded_keys \in [Slots(kind) -> Block]
  /\ pc \in {"expand", "imc", "idle", "enc", "dec"}
  /\ pc \in {"imc", "dec"} => kind = "AES128"
  /\ N \in 0 .. NumRounds
  /\ pc = "expand" => N < NumRounds
  /\ pc = "imc" => N < NumRounds - 1
  /\ pc \in {"enc", "dec"} => N >= 1
  /\ m \in Lanes /\ feed \in Lanes /\ in \in Lanes /\ out \in Lanes
  /\ op \in {"none", "enc", "dec"}
  /\ trace \in States
  /\ last \in [valid : BOOLEAN, plain : Lanes, cipher : Lanes, states : States]

(* FIPS-197 sec. 5.2 on four words at a time: w[i] = w[i-4] + w[i-1], with
   the last word of the previous key rotated, substituted and given the
   round constant first. *)
FipsNextKey(k, k1, rcon) ==
  /\ k1[0] = XorW(k[0], XorW(SubWord(RotWord(k[3])), rcon))
  /\ \A c \in 1..3 : k1[c] = XorW(k[c], k1[c - 1])

(* The three-fold shift-and-xor over the whole register computes the word
   recurrence of the standard, for every round key of all three classes. *)
FipsKeySchedule ==
  pc # "expand" =>
    \A r \in 0 .. NumRounds - 1 :
      FipsNextKey(expanded_keys[r], expanded_keys[r + 1], RconArray[r])

(* FIPS-197 sec. 5.1 as a relation: y is the encryption of x under the
   expanded keys ks, with st the state after each round but the last. *)
FipsCipher(ks, x, st, y) ==
  /\ st[0] = XorB(x, ks[0])
  /\ \A r \in 1 .. NumRounds - 1 : st[r] = XorB(Mix(ShiftSub(st[r - 1])), ks[r])
  /\ y = XorB(ShiftSub(st[NumRounds - 1]), ks[NumRounds])

StatesOf(tr, l) == [r \in 0 .. NumRounds - 1 |-> tr[r][l]]

(* enc is the cipher of the standard; MMO128 is E(x) + x and AESPRF128 is
   E(x) + the state after round FeedRound (Guo et al.; Mennink and Neves). *)
FipsOutput ==
  pc = "idle" /\ op = "enc" =>
    \A l \in Lane :
      LET st   == StatesOf(trace, l)
          mask == CASE kind = "AES128"    -> ZeroB
                    [] kind = "MMO128"    -> in[l]
                    [] kind = "AESPRF128" -> st[FeedRound]
      IN  FipsCipher(expanded_keys, in[l], st, XorB(out[l], mask))

(* The states of the encryption that a decryption ran backwards. *)
UndoneStates(tr, l) ==
  [r \in 0 .. NumRounds - 1 |-> InvShiftSub(tr[NumRounds - 1 - r][l])]

(* dec, with its own key order and InvMixColumns applied to nine of the
   keys, inverts the cipher on every block, an encryption of its own or not. *)
DecInvertsCipher ==
  pc = "idle" /\ op = "dec" =>
    \A l \in Lane :
      FipsCipher(expanded_keys, out[l], UndoneStates(trace, l), in[l])

(* dec of what enc last returned gives the caller its input back. *)
RoundTrip ==
  pc = "idle" /\ op = "dec" /\ last.valid /\ in = last.cipher => out = last.plain
-----------------------------------------------------------------------------
(* The inductive strengthening: what holds half-way through each loop.      *)
KeysSoFar ==
  \A r \in 0 .. NumRounds - 1 :
    \/ pc = "expand" /\ N <= r
    \/ FipsNextKey(expanded_keys[r], expanded_keys[r + 1], RconArray[r])

ImcSoFar ==
  kind = "AES128" =>
    \A n \in 0 .. NumRounds - 2 :
      \/ pc = "expand" \/ (pc = "imc" /\ N <= n)
      \/ expanded_keys[ImcSlot(n)] = InvMix(expanded_keys[ImcFrom(n)])

EncSoFar ==
  pc = "enc" =>
    /\ m = trace[N - 1]
    /\ \A l \in Lane : trace[0][l] = XorB(in[l], expanded_keys[0])
    /\ \A r \in 1 .. NumRounds - 1 : r < N =>
         \A l \in Lane : trace[r][l] = AesEnc(trace[r - 1][l], expanded_keys[r])
    /\ kind = "MMO128" => feed = in
    /\ kind = "AESPRF128" /\ N > FeedRound => feed = trace[FeedRound]

DecSoFar ==
  pc = "dec" =>
    /\ m = trace[N - 1]
    /\ \A l \in Lane : trace[0][l] = XorB(in[l], expanded_keys[NumRounds])
    /\ \A r \in 1 .. NumRounds - 1 : r < N =>
         \A l \in Lane : trace[r][l] =
           AesDec(trace[r - 1][l], InvMix(expanded_keys[NumRounds - r]))

(* Each decryption register holds the state of the encryption it undoes,   *)
(* one ShiftSub later.                                                      *)
BackSoFar ==
  pc = "dec" /\ last.valid /\ in = last.cipher =>
    \A l \in Lane : m[l] = ShiftSub(last.states[NumRounds - N][l])

LastIsFips ==
  last.valid /\ kind = "AES128" =>
    \A l \in Lane :
      FipsCipher(expanded_keys, last.plain[l], StatesOf(last.states, l), last.cipher[l])

NoCallYet == pc \in {"expand", "imc"} => op = "none" /\ ~last.valid

IInv ==
  /\ TypeOK
  /\ NoCallYet /\ KeysSoFar /\ ImcSoFar
  /\ EncSoFar /\ FipsOutput
  /\ DecSoFar /\ DecInvertsCipher
  /\ LastIsFips /\ BackSoFar /\ RoundTrip
=============================================================================
