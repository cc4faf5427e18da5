---------------------------- MODULE Lz4Constants ----------------------------
(* What the decoders of lz4.c share: the constants of the format, and how  *)
(* a length that does not fit its token goes on.                           *)
EXTENDS Integers

CONSTANT ByteMax   \* 255, the byte that says a length goes on

ASSUME ByteAssumption == ByteMax \in Nat \ {0}

MinMatch == 4
LastLiterals == 5
MFLimit == 12
RunMask == 15
MLMask == 15

Junk == 1000000   \* what a byte nobody wrote holds

(* The bytes that a length takes beyond its four bits in the token. *)
Extra(n, mask) == IF n < mask THEN 0 ELSE (n - mask) \div ByteMax + 1
=============================================================================
