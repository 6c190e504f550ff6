----------------------------- MODULE MCSendLoop -----------------------------
(* The instance of SendLoop TLC explores: bytes of two values. *)
EXTENDS SendLoop, TLC

MCIVSize == [c \in Ciphers |-> IF c = "xchacha20" THEN 4 ELSE 3]

\* Two IVs a few steps apart, one of which wraps around within a transfer; a longer
\* one whose carry runs through every byte.
MCSalts == [c \in Ciphers |-> IF c = "xchacha20" THEN {<<1, 1, 1, 0>>}
                              ELSE {<<0, 1, 1>>, <<1, 0, 0>>}]

\* Nothing tells the keys apart but that they differ.
KeySymmetry == Permutations(KeyFiles)
=============================================================================
