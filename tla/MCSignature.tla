---------------------------- MODULE MCSignature -----------------------------
(* The signature as bytes.  A behaviour is of the hint part of it, packed   *)
(* and read back (HintCodec), of the fields of fixed width of it and of     *)
(* keys and ciphertexts (PackedKeys), or of the functions that put it       *)
(* beside a message (SignedMessage); the variables of the others keep       *)
(* their first value.                                                       *)
(*                                                                          *)
(* Hints: three polynomials of five coefficients with three ones at most;   *)
(* every hint is packed and every string of bytes is read.                  *)
(* Keys: polynomials of one block of the longest format, vectors of one and *)
(* two, every parameter set; the coefficients go through all powers of two. *)
(* Messages: signatures of two bytes, messages of up to three (so that a    *)
(* message and its copy behind the signature overlap), contexts of up to    *)
(* one byte and one that is too long; the message in the array of the       *)
(* signature, behind it and away from it, and opened in place, over itself  *)
(* or elsewhere.                                                            *)
EXTENDS SignedMessage, PackedKeys

CONSTANTS HintN, HintK, OMEGA

VARIABLES
  pc, h, sig, i, j, k, hint, packed, unpacked,  \* of HintCodec
  part

Hints == INSTANCE HintCodec WITH ret <- unpacked, N <- HintN, K <- HintK

ASSUME SignatureAssumption == Hints!HintCodecParameters /\ PackedKeysParameters

ofHints == <<pc, h, sig, i, j, k, hint, packed, unpacked>>
signatureVars == <<ofHints, vars, keysVars, part>>

SignatureInit ==
  /\ Hints!Init /\ Init /\ KeysInit
  /\ part \in {"hints", "messages", "keys"}
  /\ part # "messages" => smlen = 0
  /\ part # "hints" => hint = h
  /\ part # "keys" => mode = 2 /\ kind = "pk"

SignatureNext ==
  /\ \/ part = "hints" /\ Hints!Next /\ UNCHANGED <<vars, keysVars>>
     \/ part = "messages" /\ Next /\ UNCHANGED <<ofHints, keysVars>>
     \/ part = "keys" /\ KeysNext /\ UNCHANGED <<ofHints, vars>>
  /\ UNCHANGED part

SignatureSpec == SignatureInit /\ [][SignatureNext]_signatureVars

-----------------------------------------------------------------------------
\* The other side reads the hint that was packed, into a vector of any content,
\* and the loops stay inside the hint whatever the bytes are.
PackedIsRead == Hints!PackedIsRead

\* Whatever bytes unpack_sig accepts, they are the one encoding of the hint that
\* it read.
AcceptedIsCanonical == Hints!AcceptedIsCanonical

MCMessages == {<< >>, <<Byte(1)>>, <<Byte(2), Byte(1)>>, <<Byte(2), Byte(1), Byte(1)>>}
MCContexts == {<< >>, <<Byte(1)>>, <<Byte(2)>>, <<Byte(1), Byte(2)>>}
MCBytes == {Byte(1)}
MCShifts == 0 .. 21
=============================================================================
