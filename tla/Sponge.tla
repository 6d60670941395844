------------------------------- MODULE Sponge -------------------------------
(***************************************************************************)
(* What the three Keccak implementations of the repository share: the      *)
(* bytes, the addresses a sponge reads and writes, and the five primitives *)
(* they apply to the state.                                                *)
(*                                                                         *)
(* The 200-byte state is represented by the history that determines it: a  *)
(* sponge that has permuted base / Rate times has XORed lanes[a] into the  *)
(* rate part at address a, where address base + i is byte i of the current *)
(* block.  The permutation is a free constructor: a byte read from the     *)
(* state is the term <<lanes, address>>, and two terms are equal exactly   *)
(* when they are the same byte of the same history.                        *)
(***************************************************************************)
EXTENDS Integers

CONSTANTS
  Rate,     \* r, the bytes of the state a block fills
  Atom,     \* the bits a symbolic byte may contain
  Suffix,   \* p, the domain-separation byte (0x1F or 0x06), as a set of bits
  TopBit,   \* 0x80, as a set of bits
  MaxIn,    \* bound: the longest message
  Msg,      \* the message bytes, in the order the caller hands them over
  MaxOut    \* bound: the longest output

ASSUME SpongeAssumption ==
  /\ Rate \in Nat \ {0}
  /\ MaxIn \in Nat
  /\ MaxOut \in Nat
  /\ Suffix \subseteq Atom
  /\ TopBit \subseteq Atom
  /\ Suffix \cap TopBit = {}
  /\ Msg \in [0 .. MaxIn - 1 -> SUBSET Atom]

Byte == SUBSET Atom
Xor(x, y) == (x \ y) \cup (y \ x)

\* Absorbing never goes past the block that holds the last message byte.
Addr == 0 .. MaxIn + Rate - 1
Lanes == [Addr -> Byte]

Blank == << >>
Cell == {Blank} \cup (Lanes \X Nat)
Buffer == [0 .. MaxOut - 1 -> Cell]

ZeroLanes == [a \in Addr |-> {}]
EmptyBuffer == [j \in 0 .. MaxOut - 1 |-> Blank]

\* XOR one byte into the state at address a.
AddByte(lanes, a, b) == [lanes EXCEPT ![a] = Xor(@, b)]

\* XOR the len message bytes from index in on into the state at address a.
AddBytes(lanes, a, in, len) ==
  [x \in Addr |-> IF a <= x /\ x < a + len THEN Xor(lanes[x], Msg[in + x - a])
                                            ELSE lanes[x]]

\* One application of the permutation: the next block starts.
Permute(base) == base + Rate

\* Write len bytes of the state, from address a on, to out[o], out[o + 1], ...
ExtractBytes(lanes, a, out, o, len) ==
  [j \in DOMAIN out |-> IF o <= j /\ j < o + len THEN <<lanes, a + j - o>> ELSE out[j]]

-----------------------------------------------------------------------------
\* What the standard says of a message of n bytes: pad10*1 after the suffix,
\* and output from the block that follows the padded message.
FirstOut(n) == Rate * (n \div Rate + 1)

Padded(n) ==
  [a \in Addr |->
     IF a < n THEN Msg[a]
     ELSE Xor(IF a = n THEN Suffix ELSE {}, IF a = FirstOut(n) - 1 THEN TopBit ELSE {})]

Stream(n, j) == <<Padded(n), FirstOut(n) + j>>
=============================================================================
