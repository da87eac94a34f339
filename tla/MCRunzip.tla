------------------------------ MODULE MCRunzip ------------------------------
(* One or two chunks of at most five bytes, matches that overlap themselves,   *)
(* and buffers from too small for a token to large enough for everything.      *)
EXTENDS Runzip

MCPrograms ==
  { << <<lit(2), mat(1, 3)>> >>, << <<>> >>,
    << <<lit(1)>>, <<lit(1), mat(1, 2)>> >>,
    << <<lit(2), mat(2, 1), lit(1)>>, <<lit(2), mat(2, 2)>> >> }

MCWrites ==
  { << <<app(2), pat(0), app(2)>> >>,
    << <<app(2), pat(0)>>, <<app(1), app(2), pat(1)>> >> }

MCLayouts ==
  { <<0>>, <<1, 0>>, <<1, 0, 0>>, <<1, 0, 0, 0>>, <<1, 0, 0, 1>>, <<0, 1, 1, 0>>,
    <<0, 1, 0, 1>>, <<1, 0, 1, 0>> }
=============================================================================
