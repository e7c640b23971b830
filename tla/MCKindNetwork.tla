--------------------------- MODULE MCKindNetwork ---------------------------
(***************************************************************************)
(* Instances of KindNetwork for TLC.                                       *)
(***************************************************************************)
EXTENDS KindNetwork

\* Numbers of two digits, so that five of them fit TLC's integers.
MCRadix == 100

\* The minimum; versions above it, below it in each of the numbers, with too few
\* numbers, with too many, with one too long; and one that does not parse.
MCMinKernel == <<4, 18, 0>>
MCKernels   == {<<4, 18, 0>>, <<5, 4, 0>>, <<4, 17, 99>>, <<3, 19, 1>>,
                <<5, 4>>, <<2, 6, 32, 12>>, <<4, 17, 123>>, <<>>}
=============================================================================
