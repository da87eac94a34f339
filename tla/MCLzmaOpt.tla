----------------------------- MODULE MCLzmaOpt -----------------------------
EXTENDS LzmaOpt

\* All data of two letters and a few bytes, after a part that is coded, with
\* the last distances the coded part may have left.
Words(n) == {w \in [1..n -> {0, 1}] : w[1] = 0}
MCInputs == [data : Words(9), coded : {3}, 
              reps : {<<1, 2, 1, 2>>, <<1, 2, 3, 1>>, <<3, 1, 2, 2>>}, fast : BOOLEAN]
=============================================================================
