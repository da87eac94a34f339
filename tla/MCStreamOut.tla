----------------------------- MODULE MCStreamOut -----------------------------
(* Compression of inputs of up to three units in chunks of up to two, so    *)
(* that there are files of one and of two chunks, and input from STDIN that *)
(* ends within a chunk and exactly at the end of one.                       *)
EXTENDS StreamOut

Called(in, out, enc, f) ==
  [stdin |-> in, stdout |-> out, encrypt |-> enc, filter |-> f]

(* A regular file or STDIN is compressed to a file, with and without        *)
(* encryption, or a regular file to STDOUT.                                 *)
ToFile == {Called(in, FALSE, enc, "x86") : in \in BOOLEAN, enc \in BOOLEAN}
ToStdout == {Called(FALSE, TRUE, FALSE, "delta")}
AllWays == ToFile \cup ToStdout

(* A regular file is compressed to STDOUT; STDIN is. *)
FileToStdout == {Called(FALSE, TRUE, FALSE, "none")}
StdinToStdout == {Called(TRUE, TRUE, FALSE, "none")}

(* The RISC-V filter is used. *)
RiscvToFile == {Called(FALSE, FALSE, FALSE, "riscv")}
=============================================================================
