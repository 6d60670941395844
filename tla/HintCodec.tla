----------------------------- MODULE HintCodec -----------------------------
(***************************************************************************)
(* The hint part of an ML-DSA signature, written by pack_sig and read by   *)
(* unpack_sig of ml-dsa/packing.c, one coefficient or byte per step: the   *)
(* indices of the non-zero coefficients, polynomial after polynomial, then *)
(* zeros up to OMEGA bytes, then for every polynomial where its indices    *)
(* end.  A signature must have one encoding only.                          *)
(***************************************************************************)
EXTENDS Integers, FiniteSets

CONSTANTS
  N,      \* coefficients of a polynomial, and values of a byte
  K,      \* polynomials
  OMEGA   \* the most non-zero coefficients there may be

\* What the parameters must be.
HintCodecParameters ==
  /\ {N, K, OMEGA} \subseteq Nat \ {0}
  /\ OMEGA < N

Index == 0 .. N - 1
Row == 0 .. K - 1
Byte == 0 .. N - 1
Position == 0 .. OMEGA + K - 1
Hint == [Row -> SUBSET Index]   \* the indices of the ones of each polynomial

VARIABLES
  pc,      \* the loop that is running
  h,       \* the hint that pack_sig is given
  sig,     \* the encoded hint
  i, j, k, \* the loop counters
  hint,    \* the hint that unpack_sig writes
  packed,  \* sig is what pack_sig wrote
  ret      \* what unpack_sig returns

vars == <<pc, h, sig, i, j, k, hint, packed, ret>>

Zero == [p \in Position |-> 0]

Init ==
  /\ pc = "start"
  /\ h = [r \in Row |-> {}] /\ hint \in {[r \in Row |-> {}], [r \in Row |-> Index]}
  /\ sig = Zero
  /\ i = 0 /\ j = 0 /\ k = 0
  /\ packed = FALSE /\ ret = 0

-----------------------------------------------------------------------------
\* What polyveck_make_hint counts.
Ones(x) == {o \in Row \X Index : o[2] \in x[o[1]]}
Weight(x) == Cardinality(Ones(x))

\* crypto_sign_signature_internal starts over if there are too many.
TooMany(x) == Weight(x) > OMEGA

CallPack ==
  /\ pc = "start"
  /\ \E x \in Hint : ~TooMany(x) /\ h' = x
  /\ sig' = Zero
  /\ pc' = "pack" /\ i' = 0 /\ j' = 0 /\ k' = 0
  /\ UNCHANGED <<hint, packed, ret>>

pack_coefficient ==
  /\ pc = "pack" /\ i < K /\ j < N
  /\ IF j \in h[i] THEN sig' = [sig EXCEPT ![k] = j] /\ k' = k + 1
     ELSE UNCHANGED <<sig, k>>
  /\ j' = j + 1
  /\ UNCHANGED <<pc, h, i, hint, packed, ret>>

\* Mutant: the number of indices of this polynomial alone.
EndOfRowAlone == Cardinality(h[i])
EndOfRow == k

pack_row ==
  /\ pc = "pack" /\ i < K /\ j = N
  /\ sig' = [sig EXCEPT ![OMEGA + i] = EndOfRow]
  /\ i' = i + 1 /\ j' = 0
  /\ UNCHANGED <<pc, h, k, hint, packed, ret>>

pack_return ==
  /\ pc = "pack" /\ i = K
  /\ pc' = "packed" /\ packed' = TRUE
  /\ UNCHANGED <<h, sig, i, j, k, hint, ret>>

-----------------------------------------------------------------------------
\* unpack_sig is given what was packed, or any bytes at all.
CallUnpack ==
  /\ \/ pc = "packed" /\ UNCHANGED sig
     \/ pc = "start" /\ sig' \in [Position -> Byte]
  /\ pc' = "row" /\ i' = 0 /\ j' = 0 /\ k' = 0
  /\ UNCHANGED <<h, hint, packed, ret>>

return(value) == pc' = "done" /\ ret' = value

BadEnd(end) == end < k \/ end > OMEGA

unpack_row ==
  /\ pc = "row" /\ i < K
  /\ hint' = [hint EXCEPT ![i] = {}]
  /\ IF BadEnd(sig[OMEGA + i]) THEN return(1) /\ UNCHANGED j
     ELSE pc' = "index" /\ j' = k /\ UNCHANGED ret
  /\ UNCHANGED <<h, sig, i, k, packed>>

\* Mutant: an index may be repeated.
OutOfOrderStrictly == j > k /\ sig[j] < sig[j - 1]
OutOfOrder == j > k /\ sig[j] <= sig[j - 1]

unpack_index ==
  /\ pc = "index" /\ j < sig[OMEGA + i]
  /\ IF OutOfOrder THEN return(1) /\ UNCHANGED <<hint, j>>
     ELSE /\ hint' = [hint EXCEPT ![i] = @ \cup {sig[j]}]
          /\ j' = j + 1
          /\ UNCHANGED <<pc, ret>>
  /\ UNCHANGED <<h, sig, i, k, packed>>

unpack_row_end ==
  /\ pc = "index" /\ j >= sig[OMEGA + i]
  /\ k' = sig[OMEGA + i]
  /\ i' = i + 1 /\ pc' = "row"
  /\ UNCHANGED <<h, sig, j, hint, packed, ret>>

unpack_extra ==
  /\ pc = "row" /\ i = K
  /\ pc' = "extra" /\ j' = k
  /\ UNCHANGED <<h, sig, i, k, hint, packed, ret>>

extra_index ==
  /\ pc = "extra" /\ j < OMEGA
  /\ IF sig[j] # 0 THEN return(1) /\ UNCHANGED j
     ELSE j' = j + 1 /\ UNCHANGED <<pc, ret>>
  /\ UNCHANGED <<h, sig, i, k, hint, packed>>

unpack_return ==
  /\ pc = "extra" /\ j >= OMEGA
  /\ return(0)
  /\ UNCHANGED <<h, sig, i, j, k, hint, packed>>

Next ==
  \/ CallPack \/ pack_coefficient \/ pack_row \/ pack_return
  \/ CallUnpack \/ unpack_row \/ unpack_index \/ unpack_row_end
  \/ unpack_extra \/ extra_index \/ unpack_return

Spec == Init /\ [][Next]_vars

-----------------------------------------------------------------------------
\* The counters stay inside the indices: nothing is read as an index behind
\* them, whatever the bytes are, and pack_sig writes no index over the ends of
\* the polynomials, because the signing loop has counted before.
TypeOK ==
  /\ pc \in {"start", "pack", "packed", "row", "index", "extra", "done"}
  /\ h \in Hint /\ hint \in Hint
  /\ sig \in [Position -> Byte]
  /\ i \in 0 .. K /\ j \in 0 .. N /\ k \in 0 .. OMEGA
  /\ pc \in {"index", "extra"} => j <= OMEGA
  /\ (pc = "pack" /\ i < K /\ j < N /\ j \in h[i]) => k < OMEGA
  /\ packed \in BOOLEAN /\ ret \in {0, 1}

\* What was packed is accepted and read back, into a vector of any content.
PackedIsRead ==
  /\ TypeOK
  /\ (pc = "done" /\ packed) => ret = 0 /\ hint = h

\* The bytes s from b to e - 1 are the elements of a set in order, each once.
Lists(s, b, e, set) ==
  /\ e - b = Cardinality(set)
  /\ {s[p] : p \in b .. e - 1} = set
  /\ \A p, q \in b .. e - 1 : p < q => s[p] < s[q]

\* The encoding of a hint, read off: where the indices of a polynomial begin
\* and end, that they are its ones in order, and zeros behind the last.
Begin(s, r) == IF r = 0 THEN 0 ELSE s[OMEGA + r - 1]
End(s, r) == s[OMEGA + r]
IsEncodingOf(x) ==
  /\ \A r \in Row : Lists(sig, Begin(sig, r), End(sig, r), x[r])
  /\ \A p \in End(sig, K - 1) .. OMEGA - 1 : sig[p] = 0

\* Whatever bytes are accepted, they are the one encoding of the hint that
\* was read: a signature cannot be written in a second way.
AcceptedIsCanonical == (pc = "done" /\ ret = 0) => IsEncodingOf(hint)
=============================================================================
