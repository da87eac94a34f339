------------------------------- MODULE Session -------------------------------
(* One run of the program as its user sees it: the configuration file and the  *)
(* options of main.c, the loop over the files of the command line, and what    *)
(* compress_file, decompress_file and get_fileinfo of lrzip.c do to the files  *)
(* on disk, step by step.  Every step may fail, and SIGINT or SIGTERM may come *)
(* at any time after the handler is installed.                                 *)
(*                                                                             *)
(* A file on disk is only told apart by what it is worth to the user: the      *)
(* input, a file that was there before, an output that is not finished, or the *)
(* finished output.  What the coders do with the data is in StreamOut and      *)
(* StreamIn; here rzip_fd and runzip_fd succeed or fail.                       *)
EXTENDS Naturals, FiniteSets

CONSTANTS
  NFiles,     \* the number of names on the command line may be 0 to NFiles
  MaxOpts     \* options given at most

ASSUME SessionAssumption == NFiles \in 1..2 /\ MaxOpts \in Nat

VARIABLES
  pc,         \* where main is
  nopts,      \* options processed
  names,      \* argv after the options: "file" or "-"
  base,       \* base_control: the settings all files share
  i,          \* the file main is working on
  lctl,       \* local_control: the settings of this file, and its outfile
  disk,       \* path -> what the file there is, "none" if there is no such file
  sent,       \* what standard output has of file i: "none", "partial", "complete"
  exit        \* "no", or how the program ended

vars == <<pc, nopts, names, base, i, lctl, disk, sent, exit>>

Index == 1..NFiles

Paths == {"in", "out"} \X Index

(* The option letters that only add flags, and the flags they add. *)
Adds ==
  [c |-> {"CHECK"}, d |-> {"DECOMPRESS"}, e |-> {"ENCRYPT"}, f |-> {"FORCE"},
   K |-> {"KEEP_BROKEN"}, U |-> {"UNLIMITED"}]

Flags == (UNION {Adds[o] : o \in DOMAIN Adds})
         \cup {"KEEP_FILES", "TEST_ONLY", "STDIN", "STDOUT", "INFO", "THRESHOLD"}

Methods == {"lzma", "zpaq", "lzo"}

Has(ctl, f) == f \in ctl.flags

(* initialise_control, and the name the program was called by: lrzncat writes  *)
(* to standard output, which is known before any option.                       *)
NewControl(lrzncat) ==
  [flags |-> {"KEEP_FILES", "THRESHOLD"}
             \cup (IF lrzncat THEN {"DECOMPRESS", "STDOUT"} ELSE {}),
   method |-> "lzma", confMethod |-> FALSE, outname |-> "none", outdir |-> FALSE,
   window |-> FALSE, filter |-> FALSE, lrzncat |-> lrzncat, outfile |-> <<>>]

(* read_config: lrzip.conf may change one of the settings; the command line    *)
(* adds the combinations.                                                      *)
ReadConfig(ctl) ==
  {ctl,
   [ctl EXCEPT !.method = "zpaq", !.confMethod = TRUE],
   [ctl EXCEPT !.flags = @ \ {"KEEP_FILES"}],
   [ctl EXCEPT !.window = TRUE],
   [ctl EXCEPT !.outdir = TRUE]}
  \cup {[ctl EXCEPT !.flags = @ \cup {f}] :
          f \in {"KEEP_BROKEN", "FORCE", "UNLIMITED", "CHECK", "ENCRYPT"}}

Init ==
  /\ pc = "options" /\ nopts = 0 /\ i = 1 /\ sent = "none" /\ exit = "no"
  /\ names \in UNION {[1..n -> {"file", "-"}] : n \in 0..NFiles}
  /\ \E lrzncat \in BOOLEAN : base \in ReadConfig(NewControl(lrzncat))
  /\ lctl = [NewControl(FALSE) EXCEPT !.flags = {}]
  /\ \E old \in [Index -> {"none", "old"}] :
       disk = [p \in Paths |-> IF p[1] = "in" THEN "input" ELSE old[p[2]]]

-----------------------------------------------------------------------------
(* Plausible bug: fatal_exit forgets the output file. *)
AfterFatalKeeps(ctl) == disk

(* What fatal_exit leaves on disk for the control block it is given: the file  *)
(* control->outfile is deleted, unless the output does not go to a file, or    *)
(* broken files are to be kept.                                                *)
AfterFatal(ctl) ==
  IF ctl.outfile # <<>> /\ {"STDOUT", "TEST_ONLY", "KEEP_BROKEN"} \cap ctl.flags = {}
  THEN [disk EXCEPT ![ctl.outfile] = "none"]
  ELSE disk

FatalExit(ctl) ==
  /\ disk' = AfterFatal(ctl)
  /\ exit' = "fatal" /\ pc' = "exited"

(* The program stops without fatal_exit: main returns, or it crashes. *)
Stop(how) ==
  /\ exit' = how /\ pc' = "exited"
  /\ UNCHANGED <<nopts, names, base, i, lctl, disk, sent>>

(* A fatal error in main's own code is raised for base_control, which never    *)
(* has an outfile. *)
MainFatal == FatalExit(base) /\ UNCHANGED <<nopts, names, base, i, lctl, sent>>

SetOption(new) ==
  /\ base' = new /\ nopts' = nopts + 1
  /\ UNCHANGED <<pc, names, i, lctl, disk, sent, exit>>

Options == pc = "options" /\ nopts < MaxOpts

(* -b -g -l -n -z -Z -B: one method only, but the one of lrzip.conf may be     *)
(* replaced once. *)
OptMethod ==
  /\ Options
  /\ \E mo \in Methods \ {"lzma"} :
       IF base.method # "lzma" /\ ~base.confMethod
       THEN MainFatal
       ELSE SetOption([base EXCEPT !.method = mo, !.confMethod = FALSE])

OptFlag ==
  /\ Options
  /\ \E o \in DOMAIN Adds : SetOption([base EXCEPT !.flags = @ \cup Adds[o]])

OptDelete == Options /\ SetOption([base EXCEPT !.flags = @ \ {"KEEP_FILES"}])

OptInfo ==
  Options /\ SetOption([base EXCEPT !.flags = (@ \ {"DECOMPRESS"}) \cup {"INFO"}])

(* -o and -O exclude each other, and are refused for lrzncat.  The name may be *)
(* "-", the input's own name, or another. *)
OptOutname ==
  /\ Options
  /\ \E n \in {"-", "same", "other"} :
       IF base.outdir \/ Has(base, "STDOUT")
       THEN MainFatal ELSE SetOption([base EXCEPT !.outname = n])

OptOutdir ==
  /\ Options
  /\ IF base.outname # "none" \/ Has(base, "STDOUT")
     THEN MainFatal ELSE SetOption([base EXCEPT !.outdir = TRUE])

OptTest ==
  /\ Options
  /\ IF base.outname # "none" \/ ~Has(base, "KEEP_FILES")
     THEN MainFatal ELSE SetOption([base EXCEPT !.flags = @ \cup {"TEST_ONLY"}])

(* The long options: --lzma drops any other method; the first filter counts,   *)
(* and -w a window. *)
OptLong ==
  /\ Options
  /\ \/ SetOption([base EXCEPT !.method = "lzma"])
     \/ SetOption([base EXCEPT !.filter = TRUE])
     \/ SetOption([base EXCEPT !.window = TRUE])

(* The options with a number (-L -R -m -N -p -w -E -H -T, the block sizes) or  *)
(* a text (-C -S) change nothing that is modelled here, or are refused.        *)
OptValue == Options /\ (MainFatal \/ SetOption(base))

(* -h, -V and an unknown option end the program. *)
OptQuit == Options /\ Stop("success")

(* What main does once all options are read, and before the first file. *)
EndOptions ==
  /\ pc = "options"
  /\ IF base.outname # "none" /\ Cardinality(DOMAIN names) > 1
     THEN MainFatal
     ELSE LET stdin == IF names = <<>> THEN {"STDIN"} ELSE {}
              unlim == IF "STDIN" \in stdin THEN {"UNLIMITED"} ELSE {}
              thr   == IF base.filter \/ base.method = "lzo" THEN {"THRESHOLD"} ELSE {}
          IN /\ base' = [base EXCEPT !.window = @ /\ ~Has(base, "UNLIMITED"),
                                     !.flags = (@ \cup stdin) \ (unlim \cup thr)]
             /\ pc' = "next"
             /\ UNCHANGED <<nopts, names, i, lctl, disk, sent, exit>>

-----------------------------------------------------------------------------
(* The head of the loop over the files.  A "-" only means standard input when  *)
(* compressing.  FLAG_STDIN and FLAG_STDOUT are set in base_control.           *)
Done == i > Cardinality(DOMAIN names) /\ ~(i = 1 /\ names = <<>>)

FinishMain ==
  /\ pc = "next" /\ Done
  /\ pc' = "exited" /\ exit' = "success"
  /\ UNCHANGED <<nopts, names, base, i, lctl, disk, sent>>

Reads == {"DECOMPRESS", "INFO", "TEST_ONLY"}

FileFlags ==
  LET stdin  == IF names # <<>> /\ names[i] = "-" /\ Reads \cap base.flags = {}
                THEN {"STDIN"} ELSE {}
      isin   == Has(base, "STDIN") \/ stdin # {}
      stdout == IF base.outname = "-" \/ (base.outname = "none" /\ isin) \/ base.lrzncat
                THEN {"STDOUT"} ELSE {}
  IN base.flags \cup stdin \cup stdout

(* memcpy to local_control: what is set for one file is forgotten for the next.*)
StartFile ==
  /\ pc = "next" /\ ~Done
  /\ LET fl    == FileFlags
         check == IF "DECOMPRESS" \notin fl \/ "STDOUT" \in fl THEN {"CHECK"} ELSE {}
         new   == [base EXCEPT !.flags = fl \ check]
     IN IF \/ "INFO" \in fl /\ "STDIN" \in fl
           \/ "STDOUT" \in fl /\ "ENCRYPT" \in fl /\ Reads \cap fl = {}
        THEN MainFatal
        ELSE /\ base' = new /\ lctl' = new /\ sent' = "none"
             /\ pc' = IF {"DECOMPRESS", "TEST_ONLY"} \cap fl # {} THEN "d_name"
                      ELSE IF "INFO" \in fl THEN "info" ELSE "c_open"
             /\ UNCHANGED <<nopts, names, i, disk, exit>>

(* Terminals are refused without -f; the input must be a regular file. *)
RefuseFile == pc = "next" /\ ~Done /\ MainFatal

(* SIGINT or SIGTERM: the handler calls fatal_exit for local_control, which is *)
(* still that of the last file between two files. *)
Signal ==
  /\ pc \notin {"options", "exited"} /\ (pc = "next" => i > 1)
  /\ disk' = AfterFatal(lctl)
  /\ exit' = "signal" /\ pc' = "exited"
  /\ UNCHANGED <<nopts, names, base, i, lctl, sent>>

-----------------------------------------------------------------------------
ToFile == ~Has(lctl, "STDOUT") /\ ~Has(lctl, "TEST_ONLY")

FromFile == ~Has(lctl, "STDIN")

(* A file named "-" that is not standard input is an ordinary name; no such    *)
(* file exists. *)
InPath == <<"in", i>>

OutPath == IF base.outname = "same" /\ FromFile THEN InPath ELSE <<"out", i>>

InputThere == names[i] = "file" /\ disk[InPath] # "none"

Step(next) == pc' = next /\ UNCHANGED <<nopts, names, base, i, exit>>

(* Any of the calls of a step may fail, and fatal is called. *)
FileFatal ==
  /\ pc \in {"info", "c_open", "c_name", "c_data", "c_magic", "c_close", "c_unlink",
             "d_name", "d_open", "d_magic", "d_valid", "d_data", "d_close", "d_unlink"}
  /\ FatalExit(lctl)
  /\ UNCHANGED <<nopts, names, base, i, lctl, sent>>

(* Plausible bug: the file that is there is taken for a broken one of ours. *)
KeepExistingForgotten(ctl) == ctl

(* open with O_CREAT | O_EXCL; with -f an existing file is removed first.  The *)
(* code is the same in compress_file and decompress_file.  When there is no    *)
(* file of ours, none must be deleted.                                         *)
KeepExisting(ctl) == [ctl EXCEPT !.flags = @ \cup {"KEEP_BROKEN"}]

CreateFails ==
  LET kept == IF ToFile THEN KeepExisting(lctl) ELSE lctl
  IN lctl' = kept /\ FatalExit(kept) /\ UNCHANGED <<nopts, names, base, i, sent>>

CreateWorks(next) ==
  /\ ToFile => disk[lctl.outfile] = "none" \/ Has(lctl, "FORCE")
  /\ Step(next)
  /\ disk' = IF ToFile THEN [disk EXCEPT ![lctl.outfile] = "partial"] ELSE disk
  /\ UNCHANGED <<lctl, sent>>

Create(next) == CreateFails \/ CreateWorks(next)

(* The data that is complete goes to the file, or to standard output. *)
Deliver(what) ==
  IF ToFile
  THEN disk' = [disk EXCEPT ![lctl.outfile] = what] /\ UNCHANGED sent
  ELSE UNCHANGED disk /\ sent' = IF Has(lctl, "STDOUT") THEN what ELSE sent

CompressOpen ==
  /\ pc = "c_open" /\ (FromFile => InputThere)
  /\ Step("c_name") /\ UNCHANGED <<lctl, disk, sent>>

(* The name of the output is registered for deletion before the file is ours.  *)
CompressName ==
  /\ pc = "c_name"
  /\ IF ~ToFile
     THEN Step("c_create") /\ UNCHANGED <<lctl, disk, sent>>
     ELSE LET named == [lctl EXCEPT !.outfile = OutPath]
          IN /\ lctl' = named
             /\ IF FromFile /\ OutPath = InPath
                THEN FatalExit(named) /\ UNCHANGED <<nopts, names, base, i, sent>>
                ELSE Step("c_create") /\ UNCHANGED <<disk, sent>>

CompressCreate == pc = "c_create" /\ Create("c_data")

(* Plausible bug: the input is deleted before the magic is written. *)
CompressDataUnlinks ==
  /\ pc = "c_data"
  /\ Step("c_unlink") /\ UNCHANGED lctl
  /\ IF ToFile THEN UNCHANGED <<disk, sent>> ELSE Deliver("complete")

(* rzip_fd.  To standard output it also writes the magic. *)
CompressData ==
  /\ pc = "c_data"
  /\ Step("c_magic") /\ UNCHANGED lctl
  /\ IF ToFile THEN UNCHANGED <<disk, sent>> ELSE Deliver("complete")

(* write_magic: until then the file begins with zeroes. *)
CompressMagic ==
  /\ pc = "c_magic"
  /\ Step("c_close") /\ UNCHANGED lctl
  /\ IF ToFile THEN Deliver("complete") ELSE UNCHANGED <<disk, sent>>

(* preserve_times, and both files closed. *)
CloseFiles(here, next) ==
  pc = here /\ Step(next) /\ UNCHANGED <<lctl, disk, sent>>

CompressClose == CloseFiles("c_close", "c_unlink")

(* The input is deleted, when that is asked for. *)
UnlinkInput(here, next) ==
  /\ pc = here
  /\ IF ~Has(lctl, "KEEP_FILES") /\ FromFile
     THEN disk' = [disk EXCEPT ![InPath] = "none"] ELSE UNCHANGED disk
  /\ Step(next) /\ UNCHANGED <<lctl, sent>>

CompressUnlink == UnlinkInput("c_unlink", "c_end")

(* outfile is released: from here the handler has nothing to delete. *)
EndFile ==
  /\ pc \in {"c_end", "d_end"}
  /\ lctl' = [lctl EXCEPT !.outfile = <<>>]
  /\ pc' = "next" /\ i' = i + 1
  /\ UNCHANGED <<nopts, names, base, disk, sent, exit>>

-----------------------------------------------------------------------------
(* The names are compared although there is none for standard input: the      *)
(* program crashes, or a build may happen to go on. *)
DecompressName ==
  /\ pc = "d_name" /\ (FromFile => InputThere)
  /\ IF ~ToFile
     THEN Step("d_open") /\ UNCHANGED <<lctl, disk, sent>>
     ELSE LET named == [lctl EXCEPT !.outfile = OutPath]
              tested == [named EXCEPT !.flags = @ \cup {"TEST_ONLY"}]
          IN IF FromFile /\ OutPath = InPath
             THEN lctl' = tested /\ FatalExit(tested) /\ UNCHANGED <<nopts, names, base, i, sent>>
             ELSE lctl' = named /\ Step("d_open") /\ UNCHANGED <<disk, sent>>

DecompressCrash == pc = "d_name" /\ ~FromFile /\ ToFile /\ Stop("crash")

(* The archive is opened; from standard input its magic is read now, and an    *)
(* encrypted one is refused. *)
DecompressOpen ==
  /\ pc = "d_open"
  /\ Step("d_create") /\ UNCHANGED <<lctl, disk, sent>>

DecompressCreate == pc = "d_create" /\ Create("d_magic")

(* open_tmpoutbuf, read_magic, the free space and the passphrase. *)
DecompressMagic ==
  /\ pc = "d_magic"
  /\ Step(IF FromFile THEN "d_valid" ELSE "d_data") /\ UNCHANGED <<lctl, disk, sent>>

(* get_fileinfo, which only reads. *)
DecompressValidate ==
  pc = "d_valid" /\ Step("d_data") /\ UNCHANGED <<lctl, disk, sent>>

(* runzip_fd with its checks.  Standard output gets every chunk as soon as it  *)
(* is there. *)
DecompressData ==
  /\ pc = "d_data"
  /\ Step("d_close") /\ Deliver("complete") /\ UNCHANGED lctl

DecompressSome ==
  /\ pc = "d_data" /\ Has(lctl, "STDOUT") /\ ~Has(lctl, "TEST_ONLY")
  /\ Step("d_data") /\ sent' = "partial" /\ UNCHANGED <<lctl, disk>>

(* runzip_fd reports that the archive ends too early: decompress_file and main *)
(* return, and fatal_exit is not called. *)
DecompressShort ==
  pc = "d_data" /\ Stop("returned")

DecompressClose == CloseFiles("d_close", "d_unlink")

DecompressUnlink == UnlinkInput("d_unlink", "d_end")

(* get_fileinfo for -i. *)
Info ==
  /\ pc = "info" /\ InputThere
  /\ pc' = "next" /\ i' = i + 1
  /\ UNCHANGED <<nopts, names, base, lctl, disk, sent, exit>>

-----------------------------------------------------------------------------
OptionStep ==
  \/ OptMethod \/ OptFlag \/ OptDelete \/ OptInfo \/ OptOutname \/ OptOutdir
  \/ OptTest \/ OptLong \/ OptValue \/ OptQuit \/ EndOptions

CompressStep ==
  \/ CompressOpen \/ CompressName \/ CompressCreate \/ CompressData \/ CompressMagic
  \/ CompressClose \/ CompressUnlink

DecompressStep ==
  \/ DecompressName \/ DecompressCrash \/ DecompressOpen \/ DecompressCreate \/ DecompressMagic
  \/ DecompressValidate \/ DecompressData \/ DecompressSome \/ DecompressShort
  \/ DecompressClose \/ DecompressUnlink

MainStep ==
  \/ OptionStep \/ FinishMain \/ StartFile \/ RefuseFile \/ FileFatal
  \/ CompressStep \/ DecompressStep \/ EndFile \/ Info

Exited == pc = "exited" /\ UNCHANGED vars

Next == MainStep \/ Signal \/ Exited

(* The program goes on by itself; nothing makes a signal come. *)
Spec == Init /\ [][Next]_vars /\ WF_vars(MainStep)

-----------------------------------------------------------------------------
(* The state that the control blocks and the loop of main stay in; between two *)
(* files no output is registered for deletion. *)
SessionTypeOK ==
  /\ exit \in {"no", "success", "fatal", "signal", "returned", "crash"}
  /\ (exit = "no") = (pc # "exited")
  /\ i \in 1..(NFiles + 1) /\ nopts \in 0..MaxOpts
  /\ base.flags \subseteq Flags /\ lctl.flags \subseteq Flags
  /\ pc = "next" => lctl.outfile = <<>>
  /\ base.outfile = <<>> /\ lctl.outfile \in {<<>>} \cup Paths
  /\ disk \in [Paths -> {"none", "input", "old", "partial", "complete"}]

(* What the user wants to keep of file k: its input, or the finished output.   *)
DataThere(k) == disk[<<"in", k>>] # "none" \/ disk[<<"out", k>>] = "complete"

(* -D (compress_file 1561-1580, decompress_file 1792-1807): at no step do both *)
(* the input and the finished output of a file go missing, but for the file at *)
(* work, and only when its output went to standard output, or in one of three  *)
(* ways that the code does not exclude: a test followed by -D on the command   *)
(* line; an output with the input's own name when compressing, which           *)
(* fatal_exit deletes; and a signal after the input has been deleted and       *)
(* before the name of the output is released, which deletes the output too.    *)
DataLostOnly ==
  [][\A k \in Index :
       DataThere(k) /\ ~DataThere(k)'
         => /\ k = i
            /\ \/ Has(lctl, "STDOUT") /\ sent = "complete"
               \/ Has(lctl, "TEST_ONLY")
               \/ base.outname = "same"
               \/ exit' = "signal" /\ pc \in {"c_end", "d_end"}]_vars

(* fatal_exit (util.c 80): however the program ends, an unfinished output is   *)
(* left behind only with -K, or when runzip_fd reports an archive that ends    *)
(* too early (runzip.c 394): decompress_file and main then return, and nobody  *)
(* calls fatal_exit for the file that was being written.                       *)
BrokenOnlyWhenShort ==
  pc = "exited" =>
    \A k \in Index : disk[<<"out", k>>] = "partial" =>
      Has(base, "KEEP_BROKEN") \/ (exit = "returned" /\ k = i)

(* The manual on keep-broken (man/lrzip-next.1 304): "When compression or      *)
(* decompression is interrupted either by user or error [...] it is normally   *)
(* deleted".  The code does not keep this: README, Deviations.                 *)
BrokenDeleted ==
  exit \notin {"no", "success"} =>
    \A k \in Index : disk[<<"out", k>>] = "partial" => Has(base, "KEEP_BROKEN")

(* Without -f a file that was there is lost in no other way than this: the     *)
(* program is interrupted, or an archive cannot be opened, while the name of   *)
(* the output is registered and the file not yet created.                      *)
ExistingLostOnlyEarly ==
  [][\A k \in Index :
       disk[<<"out", k>>] = "old" /\ disk'[<<"out", k>>] # "old"
         => \/ Has(lctl, "FORCE")
            \/ exit' = "signal" /\ pc \in {"c_create", "d_open", "d_create"}
            \/ exit' = "fatal" /\ pc = "d_open"]_vars

(* The manual on -f: "If this option is not specified (Default) then           *)
(* lrzip-next will not overwrite any existing files", and the comment in       *)
(* decompress_file that a file that exists must not be deleted.                *)
(* The code does not keep this: README, Deviations.                            *)
ExistingKept ==
  [][\A k \in Index :
       disk[<<"out", k>>] = "old" /\ disk'[<<"out", k>>] # "old"
         => Has(lctl, "FORCE") \/ exit' = "signal"]_vars

(* Which unfinished output is left when the program ends, and between two      *)
(* files no name is registered that fatal_exit would delete (util.c 80,        *)
(* compress_file 1580).                                                        *)
LeftoversKnown == SessionTypeOK /\ BrokenOnlyWhenShort
=============================================================================
