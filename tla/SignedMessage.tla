---------------------------- MODULE SignedMessage ---------------------------
(***************************************************************************)
(* The functions of ml-dsa/sign.c that a program calls: a message is       *)
(* signed under a context, as a signature beside it or in front of it in   *)
(* one array, and verified or opened again.  Memory is one array of bytes, *)
(* in which the arguments are equal or disjoint, as the comments of the    *)
(* functions allow.  The signature of a digest is an array of SigLen bytes *)
(* that determine the digest (Signing and HintCodec are about its bytes).  *)
(***************************************************************************)
EXTENDS Integers, Sequences, FiniteSets

CONSTANTS
  SigLen,     \* CRYPTO_BYTES
  MaxCtx,     \* the longest context, 255
  Messages, Contexts,  \* sequences of bytes
  Places,     \* where a program puts the message it signs
  OpenPlaces, \* where it has it opened
  MemLen,     \* the length of the memory
  Word,       \* 2^32 on the board, the range of a size_t
  Bytes,      \* the bytes that an altered array may hold
  MaxCalls    \* bound: calls and alterations

Byte(n) == <<n>>
Junk == Byte(Word)   \* what no one wrote
sm == 0
Address == 0 .. MemLen - 1
Lengths == {Len(m) : m \in Messages}
Received == {SigLen + n : n \in Lengths} \cup 0 .. SigLen - 1  \* lengths of what is opened

Plain == {Byte(n) : n \in 0 .. Word}

ASSUME SignedMessageAssumption ==
  /\ {SigLen, MaxCtx, MemLen, Word, MaxCalls} \subseteq Nat \ {0}
  /\ Messages \cup Contexts \subseteq Seq(Plain) /\ Bytes \subseteq Plain
  /\ Places \cup OpenPlaces \subseteq Nat
  /\ \A n \in Lengths : SigLen + n < Word /\ SigLen + n <= MemLen
  \* "can be equal to m", or else the arrays do not overlap
  /\ \A p \in Places, n \in Lengths : p + n <= MemLen /\ (p <= SigLen \/ p >= SigLen + n)
  /\ \A p \in OpenPlaces, n \in Received : p + n <= MemLen /\ (p <= SigLen \/ p >= n)

VARIABLES
  mem,
  smlen, mlen,   \* the lengths the calls write
  ret,           \* what the last call returned
  did,           \* the last call: its name and arguments
  intact,        \* what the array at sm was signed for, if nothing touched it since
  signed,        \* the contexts and messages signed so far
  calls

vars == <<mem, smlen, mlen, ret, did, intact, signed, calls>>

NoCall == [op |-> "none"]

Init ==
  /\ mem = [a \in Address |-> Junk]
  /\ smlen \in {0, Word - 1} /\ mlen = 0
  /\ ret = 0 /\ did = NoCall /\ intact = {} /\ signed = {} /\ calls = 0

-----------------------------------------------------------------------------
Read(memory, at, n) == [i \in 1 .. n |-> memory[at + i - 1]]
Store(memory, at, s) ==
  [a \in Address |-> IF a \in at .. at + Len(s) - 1 THEN s[a - at + 1] ELSE memory[a]]

\* The copying loops: from the last byte, and from the first.
CopyFromFirst(memory, to, from, n) ==
  LET copy[k \in 0 .. n] ==
        IF k = 0 THEN memory ELSE [copy[k - 1] EXCEPT ![to + k - 1] = copy[k - 1][from + k - 1]]
  IN copy[n]
CopyFromLast(memory, to, from, n) ==
  LET copy[k \in 0 .. n] ==
        IF k = 0 THEN memory ELSE [copy[k - 1] EXCEPT ![to + n - k] = copy[k - 1][from + n - k]]
  IN copy[n]

\* Mutant: the context alone, without its length.
PrefixPlain(ctx) == <<Byte(0)>> \o ctx
Prefix(ctx) == <<Byte(0), Byte(Len(ctx))>> \o ctx

Signature(mu) == [i \in 1 .. SigLen |-> <<i, mu>>]

\* What crypto_sign_signature makes of the memory and of *siglen.
crypto_sign_signature(memory, len, at, n, ctx) ==
  IF Len(ctx) > MaxCtx
  THEN [ret |-> -1, mem |-> memory, len |-> len]
  ELSE [ret |-> 0, len |-> SigLen,
        mem |-> Store(memory, sm, Signature(Prefix(ctx) \o Read(memory, at, n)))]

crypto_sign_verify(memory, siglen, at, n, ctx) ==
  IF /\ Len(ctx) <= MaxCtx
     /\ siglen = SigLen
     /\ Read(memory, sm, SigLen) = Signature(Prefix(ctx) \o Read(memory, at, n))
  THEN 0 ELSE -1

-----------------------------------------------------------------------------
Call(op, ctx, at, n) ==
  /\ calls < MaxCalls /\ calls' = calls + 1
  /\ did' = [op |-> op, ctx |-> ctx, at |-> at, n |-> n]

Signs(r, ctx, msg) ==
  /\ mem' = r.mem /\ ret' = r.ret
  /\ signed' = IF r.ret = 0 THEN signed \cup {<<ctx, msg>>} ELSE signed
  /\ UNCHANGED mlen

\* The program writes the message and has it signed, the signature apart.
sign_detached(msg, ctx) ==
  LET r == crypto_sign_signature(Store(mem, sm + SigLen, msg), smlen, sm + SigLen, Len(msg), ctx) IN
  /\ Call("signature", ctx, sm + SigLen, Len(msg))
  /\ Signs(r, ctx, msg)
  /\ smlen' = r.len /\ intact' = {}

\* What moves the message behind the place of its signature.
MoveBack(memory, to, from, n) == CopyFromLast(memory, to, from, n)

crypto_sign(msg, ctx, at) ==
  LET moved == MoveBack(Store(mem, at, msg), sm + SigLen, at, Len(msg))
      r == crypto_sign_signature(moved, smlen, sm + SigLen, Len(msg), ctx)
  IN
  /\ Call("sign", ctx, at, Len(msg))
  /\ Signs(r, ctx, msg)
  /\ smlen' = (r.len + Len(msg)) % Word
  /\ intact' = IF r.ret = 0 THEN {<<ctx, msg>>} ELSE {}

verify_detached(siglen, n, ctx) ==
  /\ Call("verify", ctx, sm + SigLen, n)
  /\ ret' = crypto_sign_verify(mem, siglen, sm + SigLen, n, ctx)
  /\ UNCHANGED <<mem, smlen, mlen, intact, signed>>

\* Mutant: the length to clear is read after it was set to 0.
ClearedNone(n) == 0
\* How many bytes of m are cleared when n were received.
Cleared(n) == n

\* The array at sm, n bytes of it, is opened into the array at "at".
crypto_sign_open(n, ctx, at) ==
  LET len == n - SigLen
      good == n >= SigLen /\ crypto_sign_verify(mem, SigLen, sm + SigLen, len, ctx) = 0
  IN
  /\ Call("open", ctx, at, n)
  /\ \/ /\ good
        /\ ret' = 0 /\ mlen' = len
        /\ mem' = CopyFromFirst(mem, at, sm + SigLen, len)
     \/ /\ ~ good
        /\ ret' = -1 /\ mlen' = 0
        /\ mem' = Store(mem, at, [i \in 1 .. Cleared(n) |-> Byte(0)])
  /\ intact' = {} /\ UNCHANGED <<smlen, signed>>

\* A byte of the array is altered on its way.
alter(a, b) ==
  /\ calls < MaxCalls /\ calls' = calls + 1
  /\ mem' = [mem EXCEPT ![a] = b]
  /\ did' = NoCall /\ intact' = {}
  /\ UNCHANGED <<smlen, mlen, ret, signed>>

Next ==
  \/ \E ctx \in Contexts :
       \/ \E msg \in Messages :
            sign_detached(msg, ctx) \/ \E at \in Places : crypto_sign(msg, ctx, at)
       \/ \E n \in Lengths, siglen \in {SigLen - 1, SigLen} : verify_detached(siglen, n, ctx)
       \/ \E n \in Received, at \in OpenPlaces : crypto_sign_open(n, ctx, at)
  \/ \E a \in Address, b \in Bytes : alter(a, b)

Spec == Init /\ [][Next]_vars

-----------------------------------------------------------------------------
\* What was signed and not touched since is opened: of the length crypto_sign
\* wrote, under its context and into any of the places, overlapping or not,
\* the message that was given comes out, wherever it lay when it was signed.
OpenReturnsMessage ==
  [][\A given \in intact :
       /\ did'.op = "open" => smlen = SigLen + Len(given[2])
       /\ did'.op = "open" /\ did'.ctx = given[1] /\ did'.n = smlen =>
            ret' = 0 /\ Read(mem', did'.at, mlen') = given[2]]_vars

\* Nothing is accepted, opened or verified, that was not signed: neither
\* another message nor another division of the same bytes into context and
\* message, whatever calls and alterations came between.
AcceptedWasSigned ==
  ret = 0 =>
    /\ did.op = "open" => <<did.ctx, Read(mem, did.at, mlen)>> \in signed
    /\ did.op = "verify" => <<did.ctx, Read(mem, did.at, did.n)>> \in signed

\* A program that is told -1 finds no byte of a message in its array: all that
\* was received is cleared and the length is 0, also when it opened in place.
RejectedIsCleared ==
  did.op = "open" /\ ret = -1 =>
    mlen = 0 /\ \A i \in 0 .. did.n - 1 : mem[did.at + i] = Byte(0)
=============================================================================
