------------------------- MODULE DilithiumSampling -------------------------
(***************************************************************************)
(* The samplers of ml-dsa/poly.c: poly_uniform and poly_uniform_eta reject *)
(* candidates of a stream that comes in blocks, poly_challenge places signs*)
(* at random positions.  A step is a call, an iteration of a loop, another *)
(* block, or a return.  The streams of SHAKE128 and SHAKE256 are constants.*)
(***************************************************************************)
EXTENDS Integers, Sequences, FiniteSets

CONSTANTS N, Q, TAU,
          Block,         \* bytes of a block, any number of them: STREAM128_BLOCKBYTES
                         \* and STREAM256_BLOCKBYTES, and SHAKE256_RATE for challenges
          NBlocks,       \* blocks of the first squeeze
          Etas,          \* values of ETA the program is built with
          Nonces,        \* the streams: seeds and nonces
          Stream(_, _)   \* byte k of a stream

\* What the parameters must be: a block has more than two bytes.
SamplingParameters ==
  /\ N \in Nat \ {0} /\ Q \in Nat \ {0} /\ TAU \in 1..N
  /\ Block \in Nat /\ Block > 2 /\ NBlocks \in Nat \ {0}
  /\ Etas \subseteq {2, 4}

VARIABLES fn,      \* the function that runs, "none" between calls
          eta,     \* ETA
          nonce,   \* the stream
          sq,      \* bytes squeezed from it
          buf, buflen, pos,
          ctr,     \* coefficients written; in poly_challenge, i
          a,       \* the polynomial
          seen,    \* candidates looked at
          origin   \* of each coefficient: the candidate, or the position drawn
vars == <<fn, eta, nonce, sq, buf, buflen, pos, ctr, a, seen, origin>>

Index == 0..(N - 1)

\* stream128_squeezeblocks and the like: n bytes go to buf, from off on.
Squeeze(s, k, old, off, n) ==
  [i \in 0..(off + n - 1) |-> IF i < off THEN old[i] ELSE Stream(s, k + i - off)]

---------------------------------------------------------------------------
(* poly_uniform                                                            *)

\* 23 bits of three bytes
Candidate(b0, b1, b2) == (b0 + 256 * b1 + 65536 * b2) % 8388608

poly_uniform(s) ==
  /\ fn = "none"
  /\ fn' = "uniform" /\ nonce' = s
  /\ buflen' = NBlocks * Block /\ sq' = NBlocks * Block
  /\ buf' = Squeeze(s, 0, <<>>, 0, NBlocks * Block)
  /\ pos' = 0 /\ ctr' = 0 /\ seen' = 0
  /\ UNCHANGED <<eta, a, origin>>

\* An iteration of rej_uniform
rej_uniform ==
  /\ fn = "uniform" /\ ctr < N /\ pos + 3 <= buflen
  /\ LET t == Candidate(buf[pos], buf[pos + 1], buf[pos + 2])
     IN  IF t < Q
         THEN /\ a' = [a EXCEPT ![ctr] = t]
              /\ origin' = [origin EXCEPT ![ctr] = seen]
              /\ ctr' = ctr + 1
         ELSE UNCHANGED <<a, origin, ctr>>
  /\ pos' = pos + 3
  /\ seen' = seen + 1
  /\ UNCHANGED <<fn, eta, nonce, sq, buf, buflen>>

\* The bytes that are left over go to the front of the next block.  With blocks of
\* STREAM128_BLOCKBYTES, a multiple of three, off is 0.
uniform_refill ==
  /\ fn = "uniform" /\ ctr < N /\ pos + 3 > buflen
  /\ LET off == buflen % 3
         moved == [i \in 0..(off - 1) |-> buf[buflen - off + i]]
     IN  /\ buf' = Squeeze(nonce, sq, moved, off, Block)
         /\ buflen' = Block + off
  /\ sq' = sq + Block
  /\ pos' = 0
  /\ UNCHANGED <<fn, eta, nonce, ctr, a, seen, origin>>

---------------------------------------------------------------------------
(* poly_uniform_eta                                                        *)

Accepted(t) == IF eta = 2 THEN t < 15 ELSE t < 9
\* 205 * t >> 10 is t / 5 here
Centred(t) == IF eta = 2 THEN 2 - (t - ((205 * t) \div 1024) * 5) ELSE 4 - t

poly_uniform_eta(s) ==
  /\ fn = "none"
  /\ fn' = "eta" /\ nonce' = s
  /\ buflen' = NBlocks * Block /\ sq' = NBlocks * Block
  /\ buf' = Squeeze(s, 0, <<>>, 0, NBlocks * Block)
  /\ pos' = 0 /\ ctr' = 0 /\ seen' = 0
  /\ UNCHANGED <<eta, a, origin>>

\* An iteration of rej_eta: both halves of a byte, if there is room for both.
rej_eta ==
  /\ fn = "eta" /\ ctr < N /\ pos < buflen
  /\ LET t0 == buf[pos] % 16
         t1 == buf[pos] \div 16
         c1 == IF Accepted(t0) THEN ctr + 1 ELSE ctr
         two == Accepted(t1) /\ c1 < N
     IN  /\ ctr' = IF two THEN c1 + 1 ELSE c1
         /\ a' = [i \in Index |-> IF i = ctr /\ Accepted(t0) THEN Centred(t0)
                                  ELSE IF i = c1 /\ two THEN Centred(t1) ELSE a[i]]
         /\ origin' = [i \in Index |-> IF i = ctr /\ Accepted(t0) THEN seen
                                       ELSE IF i = c1 /\ two THEN seen + 1 ELSE origin[i]]
  /\ pos' = pos + 1
  /\ seen' = seen + 2
  /\ UNCHANGED <<fn, eta, nonce, sq, buf, buflen>>

\* Mutant: rej_eta is given all of the buffer again, with what was in it behind
\* the new block.
eta_refill_stale ==
  /\ fn = "eta" /\ ctr < N /\ pos >= buflen
  /\ buf' = [i \in 0..(buflen - 1) |-> IF i < Block THEN Stream(nonce, sq + i) ELSE buf[i]]
  /\ sq' = sq + Block
  /\ pos' = 0
  /\ UNCHANGED <<fn, eta, nonce, buflen, ctr, a, seen, origin>>

\* One block more, and only that is looked at.
eta_refill ==
  /\ fn = "eta" /\ ctr < N /\ pos >= buflen
  /\ buf' = Squeeze(nonce, sq, <<>>, 0, Block)
  /\ buflen' = Block
  /\ sq' = sq + Block
  /\ pos' = 0
  /\ UNCHANGED <<fn, eta, nonce, ctr, a, seen, origin>>

---------------------------------------------------------------------------
(* poly_challenge                                                          *)

\* The first eight bytes are the signs; sign k is theirs from the low end.
Sign(s, k) == 1 - 2 * ((Stream(s, k \div 8) \div 2 ^ (k % 8)) % 2)

poly_challenge(s) ==
  /\ fn = "none" /\ Block > 8
  /\ fn' = "challenge" /\ nonce' = s
  /\ buflen' = Block /\ sq' = Block
  /\ buf' = Squeeze(s, 0, <<>>, 0, Block)
  /\ pos' = 8
  /\ ctr' = N - TAU
  /\ a' = [i \in Index |-> 0]
  /\ seen' = 0
  /\ UNCHANGED <<eta, origin>>

\* Another block when this one is used up
challenge_refill ==
  /\ fn = "challenge" /\ ctr < N /\ pos >= Block
  /\ buf' = Squeeze(nonce, sq, <<>>, 0, Block)
  /\ sq' = sq + Block
  /\ pos' = 0
  /\ UNCHANGED <<fn, eta, nonce, buflen, ctr, a, seen, origin>>

\* Mutant: the coefficient that was at the position is lost.
PlaceOver(c, i, b, sign) == [c EXCEPT ![b] = sign]
\* The coefficient at the position moves to the end.
Place(c, i, b, sign) == [c EXCEPT ![i] = c[b], ![b] = sign]

\* A position that is too large is drawn again.
challenge_draw ==
  /\ fn = "challenge" /\ ctr < N /\ pos < Block
  /\ LET b == buf[pos]
     IN  IF b > ctr
         THEN UNCHANGED <<ctr, a, origin>>
         ELSE /\ a' = Place(a, ctr, b, Sign(nonce, ctr - (N - TAU)))
              /\ origin' = [origin EXCEPT ![ctr] = b]
              /\ ctr' = ctr + 1
  /\ pos' = pos + 1
  /\ seen' = seen + 1
  /\ UNCHANGED <<fn, eta, nonce, sq, buf, buflen>>

---------------------------------------------------------------------------
\* The locals are gone, and the polynomial is the caller's.
Return ==
  /\ fn # "none" /\ ctr = N
  /\ fn' = "none"
  /\ sq' = 0 /\ buf' = <<>> /\ buflen' = 0 /\ pos' = 0 /\ ctr' = 0 /\ seen' = 0
  /\ a' = [i \in Index |-> 0] /\ origin' = a'
  /\ UNCHANGED <<eta, nonce>>

Init ==
  /\ fn = "none" /\ eta \in Etas /\ nonce \in Nonces
  /\ sq = 0 /\ buf = <<>> /\ buflen = 0 /\ pos = 0 /\ ctr = 0 /\ seen = 0
  /\ a = [i \in Index |-> 0] /\ origin = a

Step ==
  \/ rej_uniform \/ uniform_refill
  \/ rej_eta \/ eta_refill
  \/ challenge_draw \/ challenge_refill
  \/ Return

Next ==
  \/ \E s \in Nonces : poly_uniform(s) \/ poly_uniform_eta(s) \/ poly_challenge(s)
  \/ Step

Spec == Init /\ [][Next]_vars

---------------------------------------------------------------------------
\* Candidates of the contiguous stream, whatever its blocks: three bytes of
\* poly_uniform, half a byte of poly_uniform_eta.
CandidateAt(c) ==
  IF fn = "uniform"
  THEN Candidate(Stream(nonce, 3 * c), Stream(nonce, 3 * c + 1), Stream(nonce, 3 * c + 2))
  ELSE IF c % 2 = 0 THEN Stream(nonce, c \div 2) % 16 ELSE Stream(nonce, c \div 2) \div 16
AcceptedAt(c) == IF fn = "uniform" THEN CandidateAt(c) < Q ELSE Accepted(CandidateAt(c))
\* The coefficient that the candidate t gives: itself, or its residue in -eta..eta.
ValueOf(t) ==
  IF fn = "uniform" THEN t
  ELSE CHOOSE v \in (-eta)..eta : (eta - v - t) % (2 * eta + 1) = 0

\* poly_uniform, poly_uniform_eta: the coefficients are the first accepted
\* candidates of the stream in order, none of them skipped, used twice or cut in
\* two where a block ends.
FirstAccepted ==
  fn \in {"uniform", "eta"} =>
    /\ \A i \in 0..(ctr - 1) :
         /\ origin[i] < seen /\ AcceptedAt(origin[i])
         /\ a[i] = ValueOf(CandidateAt(origin[i]))
         /\ i > 0 => origin[i - 1] < origin[i]
    /\ \A c \in 0..(seen - 1) :
         AcceptedAt(c) => \/ \E i \in 0..(ctr - 1) : origin[i] = c
                          \/ ctr = N /\ c > origin[N - 1]

\* Every way to draw a challenge, and the polynomial that each gives.
Draws == {d \in [(N - TAU)..(N - 1) -> Index] : \A i \in (N - TAU)..(N - 1) : d[i] <= i}
Drawn(d, signs) ==
  LET c[i \in (N - TAU)..N] ==
        IF i = N - TAU THEN [j \in Index |-> 0]
        ELSE Place(c[i - 1], i - 1, d[i - 1], signs[i - 1])
  IN  c[N]
Factorial[n \in Nat] == IF n = 0 THEN 1 ELSE n * Factorial[n - 1]

\* poly_challenge: after each draw the polynomial has one coefficient more that
\* is not zero, and none of the coefficients to come; at the end as many draws
\* lead to it as lead to any other, TAU!, so that it is uniform if they are.
ChallengeIsUniform ==
  fn = "challenge" =>
    /\ Cardinality({i \in Index : a[i] # 0}) = ctr - (N - TAU)
    /\ \A i \in Index : a[i] # 0 => i < ctr
    /\ ctr = N => Cardinality({x \in Draws \X [(N - TAU)..(N - 1) -> {-1, 1}] :
                                 Drawn(x[1], x[2]) = a}) = Factorial[TAU]
===========================================================================
