--------------------------- MODULE MCS3ObjectCache ---------------------------
(***************************************************************************)
(* Small instances of S3ObjectCache for TLC.                               *)
(***************************************************************************)
EXTENDS S3ObjectCache

\* Version n is n bytes long: with MaxBytes = 1 the second does not fit, with
\* MaxBytes = 2 it needs the whole cache and evicts every other entry.
MCSize == [v \in 1..MaxVersion |-> v]

\* Keys are interchangeable.
Sym == Permutations(Key)
=============================================================================
