----------------------------- MODULE MCSponges ------------------------------
(* The three copies of the sponge, each with its own buffer and its own     *)
(* convention for the position: a behaviour is of one of them.  What they   *)
(* share with their caller (messages, output, phase) are the same           *)
(* variables, those only another one has keep their first value.            *)
(*                                                                          *)
(* A rate of three bytes: message lengths on both sides of one and of two   *)
(* blocks, outputs of up to two blocks and a bit.  The bits 0..7 are those  *)
(* of the padding bytes; every message byte is a bit of its own.            *)
EXTENDS Keccak

VARIABLES
  oneshot, m, mlen, nblocks,  \* of Shake256
  i, inlen,                   \* of KeccakBytes
  code                        \* the implementation that runs

Blocks == INSTANCE Shake256
Bytes == INSTANCE KeccakBytes

ofBlocks == <<oneshot, m, mlen, nblocks>>
ofBytes == <<i, inlen>>
sponges == <<vars, ofBlocks, ofBytes, code>>

NoBlocks == oneshot = FALSE /\ m = 0 /\ mlen = 0 /\ nblocks = 0
NoBytes == i = 0 /\ inlen = 0

SpongesInit ==
  \/ code = "ml-kem" /\ Init /\ NoBlocks /\ NoBytes
  \/ code = "ml-dsa" /\ Bytes!Init /\ NoBlocks
  \/ /\ code = "shake256" /\ Blocks!Init /\ NoBytes
     /\ pos = 0 /\ call = "incremental" /\ in = 0 /\ left = 0

OfKem(A) == code = "ml-kem" /\ A /\ UNCHANGED <<ofBlocks, ofBytes, code>>
OfDsa(A) == code = "ml-dsa" /\ A /\ UNCHANGED <<ofBlocks, code>>
OfShake256(A) == code = "shake256" /\ A /\ UNCHANGED <<pos, call, in, left, ofBytes, code>>

SpongesNext ==
  \/ OfKem(Next)
  \/ OfDsa(Bytes!Next)
  \/ OfShake256(Blocks!Next)

\* A called function keeps running; a caller need never call again.
SpongesSpec ==
  /\ SpongesInit /\ [][SpongesNext]_sponges
  /\ WF_sponges(OfKem(Step)) /\ WF_sponges(OfDsa(Bytes!Step)) /\ WF_sponges(OfShake256(Blocks!Step))

-----------------------------------------------------------------------------
MCAtom == 0 .. 16
MCSuffix == 0 .. 4
MCTopBit == {7}
MCMsg == [a \in 0 .. MaxIn - 1 |-> {10 + a}]
=============================================================================
