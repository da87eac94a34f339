----------------------------- MODULE MCRzipHash -----------------------------
(* A table of eight buckets, which is cleaned from the fifth entry on, and  *)
(* tags that share buckets and have one, two, three and four low bits set.  *)
EXTENDS RzipHash

SomeTags == {1, 5, 3, 7, 15}
=============================================================================
