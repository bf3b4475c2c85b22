--------------------------- MODULE MCTrendReader ---------------------------
(***************************************************************************)
(* Values for the constants of TrendReader.  Three word values are enough  *)
(* for a number ahead of the expected one, one behind it, and a wrap.      *)
(***************************************************************************)
EXTENDS TrendReader

\* Empty, shorter than BufSize = 2, and exactly as long.
AllLens == {0, 1, 2}
=============================================================================
