---------------------------- MODULE RandomBytes -----------------------------
(***************************************************************************)
(* common/randombytes.c.  The deterministic generator of the boards        *)
(* without a hardware one: a counter in[0..3] of four words is hashed by   *)
(* surf into one half of out_buf at a time, and out_buf is handed out from *)
(* its end.  The output of surf is the value of the counter it was         *)
(* computed from.  The hardware generator of the STM32: words of four      *)
(* bytes, the last of a request in part and from its end; what it draws    *)
(* is the number of the word.                                              *)
(***************************************************************************)
EXTENDS Integers, Sequences, Functions

CONSTANTS
  Base,     \* values of a word of the counter, 2^32
  Half,     \* bytes surf produces, 32
  MaxLen,   \* bound: longest request
  MaxBytes, \* bound: bytes asked for altogether
  MaxDrawn  \* bound: words drawn when the last request comes

\* What the parameters must be.
RandomBytesParameters ==
  /\ {Base, Half, MaxLen, MaxBytes, MaxDrawn} \subseteq Nat
  /\ Base > 1
  /\ Half > 0

VARIABLES
  hardware, \* the branch of the file that was compiled
  drawn,    \* words drawn from the hardware generator
  in,       \* the words in[0..3]
  out_buf,  \* the block being handed out
  outleft,  \* its bytes that are left
  inCall,   \* randombytes is being executed
  xlen,     \* what the call has still to write
  asked,    \* bytes of all requests so far
  output    \* all bytes handed out so far, in the order they were written

vars == <<hardware, drawn, in, out_buf, outleft, inCall, xlen, asked, output>>

Counter == [0 .. 3 -> 0 .. Base - 1]
Size == 2 * Half  \* sizeof(out_buf)

Init ==
  /\ hardware \in BOOLEAN
  /\ drawn = 0
  /\ in = [k \in 0 .. 3 |-> 0]
  /\ out_buf = [j \in 0 .. Size - 1 |-> "zero"]
  /\ outleft = 0
  /\ inCall = FALSE
  /\ xlen = 0
  /\ asked = 0
  /\ output = <<>>

\* if (!++in[0]) if (!++in[1]) if (!++in[2]) ++in[3]
Increment(c) ==
  [k \in 0 .. 3 |-> IF \A j \in 0 .. k - 1 : c[j] = Base - 1 THEN (c[k] + 1) % Base ELSE c[k]]

SecondIncrement(c) == Increment(c)

surf(c) == [j \in 0 .. Half - 1 |-> <<c, j>>]

randombytes_regen ==
  LET c1 == Increment(in)
      c2 == SecondIncrement(c1)
  IN /\ in' = c2
     /\ out_buf' = [j \in 0 .. Size - 1 |->
                     IF j < Half THEN surf(c1)[j] ELSE surf(c2)[j - Half]]
     /\ outleft' = Size

-----------------------------------------------------------------------------
randombytes(len) ==
  /\ ~ inCall
  /\ asked + len <= MaxBytes
  /\ drawn <= MaxDrawn
  /\ inCall' = TRUE
  /\ xlen' = len
  /\ asked' = asked + len
  /\ UNCHANGED <<hardware, drawn, in, out_buf, outleft, output>>

\* Mutant: the rest of a block too short for the request is thrown away.
regen_eager ==
  /\ ~ hardware /\ inCall /\ xlen > 0 /\ outleft < xlen /\ outleft < Size
  /\ randombytes_regen
  /\ UNCHANGED <<hardware, drawn, inCall, xlen, asked, output>>

regen ==
  /\ ~ hardware /\ inCall /\ xlen > 0 /\ outleft = 0
  /\ randombytes_regen
  /\ UNCHANGED <<hardware, drawn, inCall, xlen, asked, output>>

write_byte ==
  /\ ~ hardware /\ inCall /\ xlen > 0 /\ outleft > 0
  /\ outleft' = outleft - 1
  /\ output' = Append(output, out_buf[outleft - 1])
  /\ xlen' = xlen - 1
  /\ UNCHANGED <<hardware, drawn, in, out_buf, inCall, asked>>

\* while (len > 4): the four bytes of a word, in their order.
rng_word ==
  /\ hardware /\ inCall /\ xlen > 4
  /\ drawn' = drawn + 1
  /\ output' = output \o [b \in 1 .. 4 |-> <<drawn, b - 1>>]
  /\ xlen' = xlen - 4
  /\ UNCHANGED <<hardware, in, out_buf, outleft, inCall, asked>>

\* aschar[len - 1] for the last len bytes, from one word.
rng_last ==
  /\ hardware /\ inCall /\ xlen \in 1 .. 4
  /\ drawn' = drawn + 1
  /\ output' = output \o [b \in 1 .. xlen |-> <<drawn, xlen - b>>]
  /\ xlen' = 0
  /\ UNCHANGED <<hardware, in, out_buf, outleft, inCall, asked>>

return ==
  /\ inCall /\ xlen = 0
  /\ inCall' = FALSE
  /\ UNCHANGED <<hardware, drawn, in, out_buf, outleft, xlen, asked, output>>

Step == regen \/ write_byte \/ rng_word \/ rng_last \/ return

Next == (\E len \in 0 .. MaxLen : randombytes(len)) \/ Step

Spec == Init /\ [][Next]_vars

-----------------------------------------------------------------------------
\* The n-th value of the counter, by arithmetic: its digits to the base of a word.
CounterAt(n) ==
  LET n1 == n \div Base
      n2 == n1 \div Base
      n3 == n2 \div Base
  IN [k \in 0 .. 3 |-> <<n, n1, n2, n3>>[k + 1] % Base]

\* The n-th byte of the generator: block n \div Size, from its end.
Stream(n) ==
  LET j == Size - 1 - (n % Size)
  IN <<CounterAt(2 * (n \div Size) + 1 + j \div Half), j % Half>>

\* Between two calls all that was asked for has been written.  The bytes of the
\* deterministic generator are those of one fixed stream, in order and without
\* a gap, however the requests are cut; no byte of the hardware generator is
\* handed out twice.
OutputIsStream ==
  /\ ~ inCall => Len(output) = asked
  /\ IF hardware THEN IsInjective(output)
     ELSE \A n \in 1 .. Len(output) : output[n] = Stream(n - 1)
=============================================================================
