----------------------------- MODULE ScalarMult -----------------------------
(***************************************************************************)
(* ecdh25519/smult.c: scalar multiplication, with the table that           *)
(* gen_base_table.c makes for the base point, and the key exchange two     *)
(* parties run with it as test.c does.  A call is stepped through one bit  *)
(* (crypto_scalarmult) or one window (crypto_scalarmult_base) at a time.   *)
(* A scalar is a number of 8 * Bytes bits.                                 *)
(***************************************************************************)
EXTENDS Group

CONSTANTS
  Bytes,     \* the bytes of a scalar: 32
  Scalars,   \* the scalars a secret key may be
  Received,  \* strings that may be received for a public key
  Parties

BASE_WINDOW_BITS == 4
BASE_WINDOW_SIZE == 2 ^ BASE_WINDOW_BITS
BASE_WINDOW_COUNT == (8 * Bytes) \div BASE_WINDOW_BITS

\* group_ge_base: a point whose order is the prime.
BaseExponent == 8
group_ge_base == Representative(BaseExponent, 1)

\* No key or secret is there yet; a call that failed returned -1.
None == -2
Failed == -1

\* Powers of two, as far as a scalar goes.
TwoTo[n \in 0 .. 8 * Bytes] == IF n = 0 THEN 1 ELSE 2 * TwoTo[n - 1]

ASSUME ScalarMultAssumption ==
  /\ Bytes \in Nat \ {0}
  /\ Scalars \subseteq 0 .. TwoTo[8 * Bytes] - 1
  /\ Received \subseteq Nat

-----------------------------------------------------------------------------
Bit(e, n) == (e \div TwoTo[n]) % 2
Window(e, w) == (e \div TwoTo[w * BASE_WINDOW_BITS]) % BASE_WINDOW_SIZE

\* Mutant: the top bit stays as it was drawn.
ClampLow(k) == (k % TwoTo[8 * Bytes - 1]) - (k % 8)

\* t[0] &= 248; t[31] &= 127; t[31] |= 64
Clamp(k) ==
  LET top == TwoTo[8 * Bytes - 2] IN top + (k % top) - (k % 8)

\* Mutant: the loop over the bits starts at the top bit.
TopBit == 8 * Bytes - 2
\* j = 5: the loop over the bits starts below the top bit.
FirstBit == 8 * Bytes - 3

\* table[w][j]: j times the base of the window, which is doubled four times
\* from one window to the next.
WindowBase[w \in 0 .. BASE_WINDOW_COUNT - 1] ==
  LET D(q) == group_ge_double(q)
  IN IF w = 0 THEN group_ge_base ELSE D(D(D(D(WindowBase[w - 1]))))

crypto_scalarmult_base_table ==
  [w \in 0 .. BASE_WINDOW_COUNT - 1 |->
     LET entry[j \in 0 .. BASE_WINDOW_SIZE - 1] ==
           CASE j = 0 -> group_ge_neutral
             [] j = 1 -> WindowBase[w]
             [] OTHER -> group_ge_add(entry[j - 1], WindowBase[w])
     IN entry]

\* Mutant: the last entry of a window is not looked at.
SelectBelow(w, nibble) ==
  crypto_scalarmult_base_table[w]
    [IF nibble < BASE_WINDOW_SIZE - 1 THEN nibble ELSE 0]
\* The entry the masked moves leave: the one whose index is the nibble.
base_select_window(w, nibble) == crypto_scalarmult_base_table[w][nibble]

-----------------------------------------------------------------------------
VARIABLES
  sk, pk, ss,  \* the keys and the shared secret of each party
  peer,        \* the string each party computed its shared secret from
  pc,          \* "idle", or the function a call is in
  who,         \* the party that called it
  scalar,      \* the clamped scalar of the call: t or e
  base,        \* p: the point that was unpacked
  acc,         \* the point the loop works on: k or acc
  next         \* the bit or the window that is next, -1 after the loop

keys == <<sk, pk, ss, peer>>
exchangeVars == <<keys, pc, who, scalar, base, acc, next>>

ExchangeInit ==
  /\ sk \in [Parties -> Scalars]
  /\ pk = [x \in Parties |-> None]
  /\ ss = [x \in Parties |-> None]
  /\ peer = [x \in Parties |-> None]
  /\ pc = "idle"
  /\ who = CHOOSE x \in Parties : TRUE
  /\ scalar = 0 /\ next = -1
  /\ base = group_ge_neutral /\ acc = group_ge_neutral

\* A call is over: its local variables are gone.
Return ==
  /\ pc' = "idle"
  /\ scalar' = 0 /\ next' = -1
  /\ base' = group_ge_neutral /\ acc' = group_ge_neutral
  /\ UNCHANGED who

\* crypto_scalarmult_base(pk, sk): up to its loop.
CallBase(x) ==
  /\ pc = "idle" /\ pk[x] = None
  /\ pc' = "scalarmult_base" /\ who' = x
  /\ scalar' = Clamp(sk[x])
  /\ acc' = group_ge_neutral
  /\ next' = BASE_WINDOW_COUNT - 1
  /\ UNCHANGED <<keys, base>>

\* One window: the sum is kept unless the nibble is 0.
WindowStep ==
  /\ pc = "scalarmult_base" /\ next >= 0
  /\ LET nibble == Window(scalar, next)
         sum == group_ge_add(acc, base_select_window(next, nibble))
     IN acc' = IF nibble # 0 THEN sum ELSE acc
  /\ next' = next - 1
  /\ UNCHANGED <<keys, pc, who, scalar, base>>

ReturnBase ==
  /\ pc = "scalarmult_base" /\ next < 0
  /\ pk' = [pk EXCEPT ![who] = group_ge_pack(acc)]
  /\ Return
  /\ UNCHANGED <<sk, ss, peer>>

\* crypto_scalarmult(ss, sk, string): up to its loop, or back with -1.
CallScalarmult(x, string) ==
  LET u == group_ge_unpack(string) IN
  /\ pc = "idle" /\ ss[x] = None
  /\ peer' = [peer EXCEPT ![x] = string]
  /\ who' = x
  /\ \/ /\ u.ret # 0
        /\ ss' = [ss EXCEPT ![x] = Failed]
        /\ UNCHANGED <<sk, pk, pc, scalar, base, acc, next>>
     \/ /\ u.ret = 0
        /\ pc' = "scalarmult"
        /\ scalar' = Clamp(sk[x])
        /\ base' = u.point /\ acc' = u.point
        /\ next' = FirstBit
        /\ UNCHANGED <<sk, pk, ss>>

\* One bit: double, and keep the sum with p if the bit is set.
BitStep ==
  /\ pc = "scalarmult" /\ next >= 0
  /\ LET D == group_ge_double(acc)
         A == group_ge_add(D, base)
     IN acc' = IF Bit(scalar, next) = 1 THEN A ELSE D
  /\ next' = next - 1
  /\ UNCHANGED <<keys, pc, who, scalar, base>>

ReturnScalarmult ==
  /\ pc = "scalarmult" /\ next < 0
  /\ ss' = [ss EXCEPT ![who] = group_ge_pack(acc)]
  /\ Return
  /\ UNCHANGED <<sk, pk, peer>>

\* A party receives the public key of another one, or any string.
Exchange(x) ==
  \/ \E y \in Parties \ {x} : pk[y] # None /\ CallScalarmult(x, pk[y])
  \/ \E string \in Received : CallScalarmult(x, string)

\* A call runs to its end: nothing else happens on the device meanwhile.
ExchangeNext ==
  \/ \E x \in Parties : CallBase(x) \/ Exchange(x)
  \/ WindowStep \/ ReturnBase
  \/ BitStep \/ ReturnScalarmult

ExchangeSpec == ExchangeInit /\ [][ExchangeNext]_exchangeVars

-----------------------------------------------------------------------------
\* The loop of crypto_scalarmult holds p times the bits it has read: it starts
\* at p, one bit below the top one, because clamping always sets the top one.
LadderIsPrefix ==
  pc = "scalarmult" =>
    \E e \in Even : /\ Represents(base, e)
                    /\ Represents(acc, (e * (scalar \div TwoTo[next + 1])) % Order)

\* The loop of crypto_scalarmult_base holds the base point times the windows it
\* has read, each at its place: no doubling is left to do after it.
WindowsAddUp ==
  pc = "scalarmult_base" =>
    LET place == TwoTo[BASE_WINDOW_BITS * (next + 1)]
    IN Represents(acc, (BaseExponent * ((scalar \div place) * place)) % Order)

\* A shared secret is what both parties compute from the other's public key.
SecretsAgree ==
  \A x, y \in Parties :
    (/\ x # y
     /\ peer[x] = pk[y] /\ peer[y] = pk[x]
     /\ ss[x] # None /\ ss[y] # None
     /\ pc = "idle" /\ pk[x] # None /\ pk[y] # None)
       => (ss[x] = ss[y] /\ ss[x] # Failed)
=============================================================================
