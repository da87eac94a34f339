---------------------------- MODULE SessionProofs ----------------------------
(***************************************************************************)
(* Proofs about the files on disk, for every number of names and options   *)
(* and whatever fails or interrupts the program.  The inductive invariant  *)
(* ties the place in compress_file and decompress_file to the name that is *)
(* registered for deletion and to what is on disk under that name.         *)
(***************************************************************************)
EXTENDS Session, FiniteSetTheorems, TLAPS

(* The control blocks. *)
Control ==
  [flags: SUBSET Flags, method: Methods, confMethod: BOOLEAN,
   outname: {"none", "-", "same", "other"}, outdir: BOOLEAN, window: BOOLEAN,
   filter: BOOLEAN, lrzncat: BOOLEAN, outfile: {<<>>} \cup Paths]

(* Places: before the output has a name, before it is there, while it is    *)
(* being written, and when it is complete.                                  *)
Unnamed == {"info", "c_open", "c_name", "d_name"}
Named == {"c_create", "d_open", "d_create"}
Writing == {"c_data", "c_magic", "d_magic", "d_valid", "d_data"}
Closing == {"c_close", "c_unlink", "d_close", "d_unlink"}
Ending == {"c_end", "d_end"}
InFile == Unnamed \cup Named \cup Writing \cup Closing \cup Ending

SessionTypes ==
  /\ base \in Control /\ lctl \in Control /\ base.outfile = <<>>
  /\ pc \in {"options", "next", "exited"} \cup InFile
  /\ exit \in {"no", "success", "fatal", "signal", "returned", "crash"}
  /\ (exit = "no") = (pc # "exited")
  /\ i \in 1 .. (NFiles + 1) /\ nopts \in 0 .. MaxOpts
  /\ sent \in {"none", "partial", "complete"}
  /\ disk \in [Paths -> {"none", "input", "old", "partial", "complete"}]
  /\ Cardinality(DOMAIN names) \in 0 .. NFiles

Output == <<"out", i>>

(* fatal_exit would delete the output of this file, and nothing else.       *)
OutfileKnown ==
  /\ pc \in InFile => i \in Index /\ lctl.flags = base.flags
  /\ pc # "exited" =>
       lctl.outfile = IF pc \in InFile \ Unnamed /\ ToFile THEN Output ELSE <<>>

(* An unfinished output is the one that is being written, and from its      *)
(* creation on the output is no file that was there before.                 *)
OutputKnown ==
  /\ pc # "exited" =>
       \A k \in Index : disk[<<"out", k>>] = "partial" =>
         Has(base, "KEEP_BROKEN") \/ (k = i /\ pc \in Writing /\ ToFile)
  /\ pc \in Writing \cup Closing \cup Ending /\ ToFile =>
       disk[Output] \in {"partial", "complete"}
  /\ pc \in Closing =>
       /\ ToFile => disk[Output] = "complete"
       /\ Has(lctl, "STDOUT") => sent = "complete"
  /\ pc = "c_magic" /\ Has(lctl, "STDOUT") => sent = "complete"

SessionInv == SessionTypes /\ OutfileKnown /\ OutputKnown /\ BrokenOnlyWhenShort
-----------------------------------------------------------------------------
(* The flags that are set by name are flags. *)
LEMMA FlagNames ==
  /\ {"KEEP_FILES", "TEST_ONLY", "STDIN", "STDOUT", "INFO", "THRESHOLD"} \subseteq Flags
  /\ \A o \in DOMAIN Adds : Adds[o] \subseteq Flags
  /\ {"CHECK", "DECOMPRESS", "ENCRYPT", "FORCE", "KEEP_BROKEN", "UNLIMITED"} \subseteq Flags
<1>1. \A o \in DOMAIN Adds : Adds[o] \subseteq Flags
  BY DEF Flags
<1>2. {"KEEP_FILES", "TEST_ONLY", "STDIN", "STDOUT", "INFO", "THRESHOLD"} \subseteq Flags
  BY DEF Flags
<1>3. {"c", "d", "e", "f", "K", "U"} \subseteq DOMAIN Adds
  BY DEF Adds
<1>4. /\ Adds["c"] = {"CHECK"} /\ Adds["d"] = {"DECOMPRESS"} /\ Adds["e"] = {"ENCRYPT"}
      /\ Adds["f"] = {"FORCE"} /\ Adds["K"] = {"KEEP_BROKEN"} /\ Adds["U"] = {"UNLIMITED"}
  BY DEF Adds
<1>. QED  BY <1>1, <1>2, <1>3, <1>4

(* No flag that is added is KEEP_BROKEN's loss: what the options, the end of *)
(* the options and the start of a file make of a control block is one.       *)
LEMMA NewControlTyped ==
  \A b \in BOOLEAN : /\ NewControl(b) \in Control
                     /\ NewControl(b).outfile = <<>>
  BY FlagNames DEF NewControl, Control, Methods

LEMMA ReadConfigTyped ==
  ASSUME NEW c \in Control, NEW d \in ReadConfig(c)
  PROVE  d \in Control /\ d.outfile = c.outfile
<1>1. /\ c.flags \in SUBSET Flags /\ c.method \in Methods /\ c.confMethod \in BOOLEAN
      /\ c.outname \in {"none", "-", "same", "other"} /\ c.outdir \in BOOLEAN
      /\ c.window \in BOOLEAN /\ c.filter \in BOOLEAN /\ c.lrzncat \in BOOLEAN
      /\ c.outfile \in {<<>>} \cup Paths
      /\ c = [flags |-> c.flags, method |-> c.method, confMethod |-> c.confMethod,
              outname |-> c.outname, outdir |-> c.outdir, window |-> c.window,
              filter |-> c.filter, lrzncat |-> c.lrzncat, outfile |-> c.outfile]
  BY DEF Control
<1>2. CASE d = c
  BY <1>2
<1>3. CASE d = [c EXCEPT !.method = "zpaq", !.confMethod = TRUE]
  BY <1>1, <1>3 DEF Control, Methods
<1>4. CASE d = [c EXCEPT !.window = TRUE]
  BY <1>1, <1>4 DEF Control
<1>5. CASE d = [c EXCEPT !.outdir = TRUE]
  BY <1>1, <1>5 DEF Control
<1>6. ASSUME NEW F \in SUBSET Flags, d = [c EXCEPT !.flags = F]
      PROVE  d \in Control /\ d.outfile = c.outfile
  BY <1>1, <1>6 DEF Control
<1>7. CASE d = [c EXCEPT !.flags = @ \ {"KEEP_FILES"}]
  <2>1. c.flags \ {"KEEP_FILES"} \in SUBSET Flags
    BY <1>1
  <2>. QED  BY <2>1, <1>6, <1>7
<1>8. ASSUME NEW f \in {"KEEP_BROKEN", "FORCE", "UNLIMITED", "CHECK", "ENCRYPT"},
             d = [c EXCEPT !.flags = @ \cup {f}]
      PROVE  d \in Control /\ d.outfile = c.outfile
  <2>1. c.flags \cup {f} \in SUBSET Flags
    BY <1>1, FlagNames
  <2>. QED  BY <2>1, <1>6, <1>8
<1>. QED  BY <1>2, <1>3, <1>4, <1>5, <1>7, <1>8 DEF ReadConfig

(* The places in a file are no others. *)
LEMMA InitSession == Init => SessionInv
<1>. SUFFICES ASSUME Init PROVE SessionInv
  OBVIOUS
<1>1. base \in Control /\ base.outfile = <<>>
  BY NewControlTyped, ReadConfigTyped DEF Init
<1>2. lctl \in Control /\ lctl.outfile = <<>>
  BY NewControlTyped DEF Init, Control
<1>3. Cardinality(DOMAIN names) \in 0 .. NFiles
  <2>1. PICK n \in 0 .. NFiles : names \in [1 .. n -> {"file", "-"}]
    BY DEF Init
  <2>2. DOMAIN names = 1 .. n /\ n \in Nat
    BY <2>1, SessionAssumption
  <2>3. Cardinality(1 .. n) = n
    BY <2>2, FS_Interval
  <2>. QED  BY <2>1, <2>2, <2>3
<1>4. /\ disk \in [Paths -> {"none", "input", "old", "partial", "complete"}]
      /\ \A k \in Index : disk[<<"out", k>>] # "partial"
  <2>1. PICK old \in [Index -> {"none", "old"}] :
          disk = [p \in Paths |-> IF p[1] = "in" THEN "input" ELSE old[p[2]]]
    BY DEF Init
  <2>2. \A p \in Paths : p[1] \in {"in", "out"} /\ p[2] \in Index
    BY DEF Paths
  <2>3. \A p \in Paths : disk[p] \in {"none", "input", "old"}
    BY <2>1, <2>2
  <2>. QED  BY <2>1, <2>3 DEF Paths
<1>5. pc = "options" /\ exit = "no" /\ i = 1 /\ nopts = 0 /\ sent = "none"
  BY DEF Init
<1>6. SessionTypes
  BY <1>1, <1>2, <1>3, <1>4, <1>5, SessionAssumption DEF SessionTypes
<1>. QED
  BY <1>2, <1>4, <1>5, <1>6
     DEF SessionInv, OutfileKnown, OutputKnown, BrokenOnlyWhenShort, InFile, Unnamed, Named,
         Writing, Closing, Ending
-----------------------------------------------------------------------------
(* A control block with other flags, or another name for the output.        *)
LEMMA ControlFlags ==
  ASSUME NEW c \in Control, NEW F \in SUBSET Flags
  PROVE  LET d == [c EXCEPT !.flags = F]
         IN d \in Control /\ d.flags = F /\ d.outfile = c.outfile
  BY DEF Control

LEMMA ControlOutfile ==
  ASSUME NEW c \in Control, NEW o \in {<<>>} \cup Paths
  PROVE  LET d == [c EXCEPT !.outfile = o]
         IN d \in Control /\ d.flags = c.flags /\ d.outfile = o
  BY DEF Control

(* What fatal_exit deletes is the output of its control block, if anything. *)
LEMMA FatalLeaves ==
  ASSUME SessionTypes, NEW c \in Control
  PROVE  /\ AfterFatal(c) \in [Paths -> {"none", "input", "old", "partial", "complete"}]
         /\ \A q \in Paths : AfterFatal(c)[q] \in {disk[q], "none"}
         /\ \A q \in Paths : q # c.outfile => AfterFatal(c)[q] = disk[q]
         /\ c.outfile # <<>> /\ {"STDOUT", "TEST_ONLY", "KEEP_BROKEN"} \cap c.flags = {}
              => AfterFatal(c)[c.outfile] = "none"
         /\ c.outfile = <<>> \/ {"STDOUT", "TEST_ONLY", "KEEP_BROKEN"} \cap c.flags # {}
              => AfterFatal(c) = disk
<1>1. c.outfile \in {<<>>} \cup Paths
  BY DEF Control
<1>2. disk \in [Paths -> {"none", "input", "old", "partial", "complete"}]
  BY DEF SessionTypes
<1>3. CASE c.outfile # <<>> /\ {"STDOUT", "TEST_ONLY", "KEEP_BROKEN"} \cap c.flags = {}
  <2>1. AfterFatal(c) = [disk EXCEPT ![c.outfile] = "none"] /\ c.outfile \in Paths
    BY <1>1, <1>3 DEF AfterFatal
  <2>. QED  BY <1>2, <1>3, <2>1
<1>4. CASE ~(c.outfile # <<>> /\ {"STDOUT", "TEST_ONLY", "KEEP_BROKEN"} \cap c.flags = {})
  <2>1. AfterFatal(c) = disk
    BY <1>4 DEF AfterFatal
  <2>. QED  BY <1>1, <1>2, <1>4, <2>1
<1>. QED  BY <1>3, <1>4

(* The program ends with what fatal_exit leaves behind, and no unfinished   *)
(* output is among it.                                                      *)
LEMMA EndsFatal ==
  ASSUME SessionInv, pc # "exited", pc' = "exited", exit' \in {"fatal", "signal"},
         UNCHANGED <<nopts, names, base, i, sent>>, lctl' \in Control,
         NEW c \in Control, disk' = AfterFatal(c), pc \in Writing => c = lctl
  PROVE  SessionInv'
<1>1. SessionTypes'
  BY FatalLeaves DEF SessionInv, SessionTypes
<1>2. OutfileKnown' /\ OutputKnown'
  BY DEF OutfileKnown, OutputKnown, InFile, Unnamed, Named, Writing, Closing, Ending
<1>3. ASSUME NEW k \in Index, disk'[<<"out", k>>] = "partial"
      PROVE  Has(base, "KEEP_BROKEN")
  <2>1. <<"out", k>> \in Paths
    BY DEF Paths
  <2>2. disk[<<"out", k>>] = "partial"
    BY <1>3, <2>1, FatalLeaves DEF SessionInv
  <2>3. CASE k = i /\ pc \in Writing /\ ToFile
    <3>1. lctl.outfile = Output /\ lctl.flags = base.flags
      BY <2>3 DEF SessionInv, OutfileKnown, InFile, Unnamed, Writing
    <3>2. disk'[lctl.outfile] = "partial" /\ lctl.outfile # <<>> /\ c = lctl
      BY <1>3, <2>3, <3>1 DEF Output
    <3>3. {"STDOUT", "TEST_ONLY", "KEEP_BROKEN"} \cap lctl.flags # {}
      BY <3>2, FatalLeaves DEF SessionInv
    <3>. QED  BY <2>3, <3>1, <3>3 DEF ToFile, Has
  <2>. QED  BY <2>2, <2>3 DEF SessionInv, OutputKnown
<1>4. BrokenOnlyWhenShort'
  BY <1>3 DEF BrokenOnlyWhenShort, Has, Index
<1>. QED  BY <1>1, <1>2, <1>4 DEF SessionInv

LEMMA MainFatalKeeps ==
  ASSUME SessionInv, pc \in {"options", "next"}, MainFatal
  PROVE  SessionInv'
<1>1. base \in Control /\ lctl \in Control
  BY DEF SessionInv, SessionTypes
<1>. QED  BY <1>1, EndsFatal DEF MainFatal, FatalExit, Writing

(* The program ends without fatal_exit: what was being written is left      *)
(* behind, and only runzip_fd's early return meets a file being written.    *)
LEMMA StopKeeps ==
  ASSUME SessionInv, pc # "exited", NEW how \in {"success", "returned", "crash"}, Stop(how),
         how = "returned" \/ pc \notin Writing
  PROVE  SessionInv'
  BY DEF Stop, SessionInv, SessionTypes, OutfileKnown, OutputKnown, BrokenOnlyWhenShort,
         InFile, Unnamed, Named, Writing, Closing, Ending

-----------------------------------------------------------------------------
(* An option changes base_control alone, and never takes -K back. *)
LEMMA SetOptionKeeps ==
  ASSUME SessionInv, Options, NEW new \in Control, new.outfile = <<>>,
         Has(base, "KEEP_BROKEN") => Has(new, "KEEP_BROKEN"), SetOption(new)
  PROVE  SessionInv'
<1>1. pc = "options" /\ pc' = "options" /\ base' = new /\ nopts' = nopts + 1
      /\ nopts < MaxOpts /\ UNCHANGED <<names, i, lctl, disk, sent, exit>>
  BY DEF Options, SetOption
<1>2. SessionTypes'
  BY <1>1, SessionAssumption DEF SessionInv, SessionTypes
<1>3. OutfileKnown'
  BY <1>1 DEF SessionInv, OutfileKnown, InFile, Unnamed, Named, Writing, Closing, Ending
<1>4. ASSUME NEW k \in Index, disk'[<<"out", k>>] = "partial"
      PROVE  Has(base', "KEEP_BROKEN")
  BY <1>1, <1>4 DEF SessionInv, OutputKnown, Writing
<1>5. OutputKnown'
  BY <1>1, <1>4 DEF OutputKnown, Writing, Closing, Ending, Has, Index
<1>6. BrokenOnlyWhenShort'
  BY <1>1 DEF SessionInv, SessionTypes, BrokenOnlyWhenShort
<1>. QED  BY <1>2, <1>3, <1>5, <1>6 DEF SessionInv

LEMMA OptionKeeps == SessionInv /\ OptionStep => SessionInv'
<1>. SUFFICES ASSUME SessionInv, OptionStep PROVE SessionInv'
  OBVIOUS
<1>1. base \in Control /\ base.outfile = <<>> /\ base.flags \in SUBSET Flags
  BY DEF SessionInv, SessionTypes, Control
<1>2. /\ base.method \in Methods /\ base.outname \in {"none", "-", "same", "other"}
      /\ base = [flags |-> base.flags, method |-> base.method,
                 confMethod |-> base.confMethod, outname |-> base.outname,
                 outdir |-> base.outdir, window |-> base.window,
                 filter |-> base.filter, lrzncat |-> base.lrzncat,
                 outfile |-> base.outfile]
  BY <1>1 DEF Control
<1>3. ASSUME NEW F \in SUBSET Flags, Options, SetOption([base EXCEPT !.flags = F]),
             Has(base, "KEEP_BROKEN") => "KEEP_BROKEN" \in F
      PROVE  SessionInv'
  BY <1>1, <1>3, ControlFlags, SetOptionKeeps DEF Has
<1>4. ASSUME Options, MainFatal PROVE SessionInv'
  BY <1>4, MainFatalKeeps DEF Options
<1>5. CASE OptMethod
  <2> DEFINE new(mo) == [base EXCEPT !.method = mo, !.confMethod = FALSE]
  <2>1. \A mo \in Methods : /\ new(mo) \in Control /\ new(mo).outfile = <<>>
                             /\ new(mo).flags = base.flags
    BY <1>1 DEF Control
  <2>2. Options /\ \E mo \in Methods \ {"lzma"} :
                       IF base.method # "lzma" /\ ~base.confMethod
                       THEN MainFatal ELSE SetOption(new(mo))
    BY <1>5, Zenon DEF OptMethod
  <2>. HIDE DEF new
  <2>3. CASE MainFatal
    BY <1>4, <2>2, <2>3
  <2>4. ASSUME NEW mo \in Methods, SetOption(new(mo)) PROVE SessionInv'
    BY <2>1, <2>2, <2>4, SetOptionKeeps DEF Has
  <2>. QED  BY <2>2, <2>3, <2>4
<1>6. CASE OptFlag
  <2>1. PICK o \in DOMAIN Adds : SetOption([base EXCEPT !.flags = @ \cup Adds[o]])
    BY <1>6 DEF OptFlag
  <2>2. base.flags \cup Adds[o] \in SUBSET Flags
    BY <1>1, FlagNames
  <2>. QED  BY <1>3, <1>6, <2>1, <2>2 DEF OptFlag, Has
<1>7. CASE OptDelete
  <2>1. base.flags \ {"KEEP_FILES"} \in SUBSET Flags
    BY <1>1
  <2>. QED  BY <1>3, <1>7, <2>1 DEF OptDelete, Has
<1>8. CASE OptInfo
  <2>1. (base.flags \ {"DECOMPRESS"}) \cup {"INFO"} \in SUBSET Flags
    BY <1>1, FlagNames
  <2>. QED  BY <1>3, <1>8, <2>1 DEF OptInfo, Has
<1>9. CASE OptOutname
  <2>1. PICK n \in {"-", "same", "other"} :
          MainFatal \/ SetOption([base EXCEPT !.outname = n])
    BY <1>9 DEF OptOutname
  <2>2. /\ [base EXCEPT !.outname = n] \in Control
        /\ [base EXCEPT !.outname = n].outfile = <<>>
        /\ [base EXCEPT !.outname = n].flags = base.flags
    BY <1>1 DEF Control
  <2>3. Options
    BY <1>9 DEF OptOutname
  <2>. QED  BY <2>1, <2>2, <2>3, <1>4, SetOptionKeeps DEF Has
<1>10. CASE OptOutdir
  <2>1. MainFatal \/ SetOption([base EXCEPT !.outdir = TRUE])
    BY <1>10 DEF OptOutdir
  <2>2. /\ [base EXCEPT !.outdir = TRUE] \in Control
        /\ [base EXCEPT !.outdir = TRUE].outfile = <<>>
        /\ [base EXCEPT !.outdir = TRUE].flags = base.flags
    BY <1>1 DEF Control
  <2>3. Options
    BY <1>10 DEF OptOutdir
  <2>. QED  BY <2>1, <2>2, <2>3, <1>4, SetOptionKeeps DEF Has
<1>11. CASE OptTest
  <2>1. base.flags \cup {"TEST_ONLY"} \in SUBSET Flags
    BY <1>1, FlagNames
  <2>. QED  BY <1>3, <1>4, <1>11, <2>1 DEF OptTest, Has
<1>12. CASE OptLong
  <2>1. Options /\ \E new \in {[base EXCEPT !.method = "lzma"],
                               [base EXCEPT !.filter = TRUE],
                               [base EXCEPT !.window = TRUE]} : SetOption(new)
    BY <1>12 DEF OptLong
  <2>2. \A new \in {[base EXCEPT !.method = "lzma"], [base EXCEPT !.filter = TRUE],
                    [base EXCEPT !.window = TRUE]} :
          new \in Control /\ new.outfile = <<>> /\ new.flags = base.flags
    BY <1>1 DEF Control, Methods
  <2>. QED  BY <2>1, <2>2, SetOptionKeeps DEF Has
<1>13. CASE OptValue
  BY <1>1, <1>4, <1>13, SetOptionKeeps DEF OptValue
<1>14. CASE OptQuit
  BY <1>14, StopKeeps DEF OptQuit, Options, Writing
<1>15. CASE EndOptions
  <2>1. CASE MainFatal
    BY <1>15, <2>1, MainFatalKeeps DEF EndOptions
  <2>2. CASE ~MainFatal
    <3> DEFINE stdin == IF names = <<>> THEN {"STDIN"} ELSE {}
               unlim == IF "STDIN" \in stdin THEN {"UNLIMITED"} ELSE {}
               thr == IF base.filter \/ base.method = "lzo" THEN {"THRESHOLD"} ELSE {}
               F == (base.flags \cup stdin) \ (unlim \cup thr)
               w == base.window /\ ~Has(base, "UNLIMITED")
    <3>1. /\ base' = [base EXCEPT !.window = w, !.flags = F]
          /\ F \in SUBSET Flags /\ w \in BOOLEAN
          /\ Has(base, "KEEP_BROKEN") => "KEEP_BROKEN" \in F
      <4>1. base' = [base EXCEPT !.window = w, !.flags = F]
        BY <1>15, <2>2 DEF EndOptions
      <4>2. F \in SUBSET Flags /\ (Has(base, "KEEP_BROKEN") => "KEEP_BROKEN" \in F)
        BY <1>1, FlagNames DEF Has
      <4>3. w \in BOOLEAN
        BY DEF Has
      <4>. QED  BY <4>1, <4>2, <4>3
    <3>. HIDE DEF F, w
    <3>2. pc = "options" /\ pc' = "next" /\ UNCHANGED <<nopts, names, i, lctl, disk, sent, exit>>
      BY <1>15, <2>2 DEF EndOptions
    <3>3. base' \in Control /\ base'.flags = F /\ base'.outfile = <<>>
      BY <1>1, <3>1 DEF Control
    <3>4. SessionTypes'
      BY <3>2, <3>3 DEF SessionInv, SessionTypes
    <3>5. OutfileKnown'
      BY <3>2 DEF SessionInv, OutfileKnown, InFile, Unnamed, Named, Writing, Closing, Ending
    <3>6. OutputKnown'
      BY <3>1, <3>2, <3>3 DEF SessionInv, OutputKnown, Writing, Closing, Ending, Has, Index
    <3>7. BrokenOnlyWhenShort'
      BY <3>2 DEF SessionInv, SessionTypes, BrokenOnlyWhenShort
    <3>. QED  BY <3>4, <3>5, <3>6, <3>7 DEF SessionInv
  <2>. QED  BY <2>1, <2>2
<1>. QED
  BY <1>5, <1>6, <1>7, <1>8, <1>9, <1>10, <1>11, <1>12, <1>13, <1>14, <1>15 DEF OptionStep
-----------------------------------------------------------------------------
(* The steps of one file. *)

(* A file is started with a copy of base_control. *)
LEMMA StartKeeps == SessionInv /\ StartFile => SessionInv'
<1>. SUFFICES ASSUME SessionInv, StartFile PROVE SessionInv'
  OBVIOUS
<1>1. CASE MainFatal
  BY <1>1, MainFatalKeeps DEF StartFile
<1>2. CASE ~MainFatal
  <2> DEFINE check == IF "DECOMPRESS" \notin FileFlags \/ "STDOUT" \in FileFlags
                      THEN {"CHECK"} ELSE {}
             F == FileFlags \ check
  <2>1. /\ base' = [base EXCEPT !.flags = F] /\ lctl' = [base EXCEPT !.flags = F]
        /\ sent' = "none" /\ pc' \in {"d_name", "info", "c_open"}
        /\ pc = "next" /\ ~Done /\ UNCHANGED <<nopts, names, i, disk, exit>>
    BY <1>2 DEF StartFile
  <2>2. FileFlags \in SUBSET Flags /\ base.flags \subseteq FileFlags
    <3>1. base.flags \in SUBSET Flags
      BY DEF SessionInv, SessionTypes, Control
    <3>. QED  BY <3>1, FlagNames DEF FileFlags
  <2>3. F \in SUBSET Flags /\ (Has(base, "KEEP_BROKEN") => "KEEP_BROKEN" \in F)
    BY <2>2 DEF Has
  <2>. HIDE DEF F
  <2>4. /\ base' \in Control /\ base'.flags = F /\ base'.outfile = <<>>
        /\ lctl' \in Control /\ lctl'.flags = F /\ lctl'.outfile = <<>>
    BY <2>1, <2>3, ControlFlags DEF SessionInv, SessionTypes
  <2>5. i \in Index
    <3>1. i \in 1 .. (NFiles + 1) /\ Cardinality(DOMAIN names) \in 0 .. NFiles
      BY DEF SessionInv, SessionTypes
    <3>2. i <= Cardinality(DOMAIN names) \/ i = 1
      BY <2>1, <3>1, SessionAssumption DEF Done
    <3>. QED  BY <3>1, <3>2, SessionAssumption DEF Index
  <2>6. SessionTypes'
    BY <2>1, <2>4 DEF SessionInv, SessionTypes, InFile, Unnamed
  <2>7. OutfileKnown'
    BY <2>1, <2>4, <2>5 DEF OutfileKnown, InFile, Unnamed, Named, Writing, Closing, Ending
  <2>8. OutputKnown'
    BY <2>1, <2>3, <2>4 DEF SessionInv, OutputKnown, Writing, Closing, Ending, Has, Index
  <2>9. BrokenOnlyWhenShort'
    BY <2>1 DEF SessionInv, SessionTypes, BrokenOnlyWhenShort
  <2>. QED  BY <2>6, <2>7, <2>8, <2>9 DEF SessionInv
<1>. QED  BY <1>1, <1>2

(* A step that only goes on to the next place, where no more is known of    *)
(* the output than here.                                                    *)
LEMMA GoesOn ==
  ASSUME SessionInv, pc \in InFile, UNCHANGED <<nopts, names, base, i, exit, lctl, disk>>,
         \/ pc \in Unnamed /\ pc' \in Unnamed
         \/ pc \in Unnamed /\ ~ToFile /\ pc' \in Named
         \/ pc \in Named /\ pc' \in Named
         \/ pc \in Writing /\ pc' \in Writing
         \/ pc \in Closing /\ pc' \in Closing,
         sent' # sent => pc \in Writing /\ sent' \in {"none", "partial", "complete"},
         pc' = "c_magic" /\ Has(lctl, "STDOUT") => sent' = "complete"
  PROVE  SessionInv'
<1>1. pc' \in InFile /\ pc # "exited" /\ pc' # "exited" /\ ToFile' = ToFile
  BY DEF InFile, Unnamed, Named, Writing, Closing, Ending, ToFile, Has
<1>2. SessionTypes'
  BY <1>1 DEF SessionInv, SessionTypes
<1>3. OutfileKnown'
  BY <1>1 DEF SessionInv, OutfileKnown, InFile, Unnamed, Named, Writing, Closing, Ending, Output
<1>4. OutputKnown'
  BY <1>1 DEF SessionInv, OutputKnown, Unnamed, Named, Writing, Closing, Ending, Output, Has
<1>5. BrokenOnlyWhenShort'
  BY <1>1 DEF SessionInv, SessionTypes, BrokenOnlyWhenShort
<1>. QED  BY <1>2, <1>3, <1>4, <1>5 DEF SessionInv

(* The output gets its name; nothing is there yet that is unfinished.       *)
LEMMA NameKeeps ==
  ASSUME SessionInv, pc \in Unnamed, pc' \in Named, ToFile,
         lctl' = [lctl EXCEPT !.outfile = Output],
         UNCHANGED <<nopts, names, base, i, exit, disk, sent>>
  PROVE  SessionInv'
<1>1. i \in Index /\ lctl.flags = base.flags
  BY DEF SessionInv, OutfileKnown, InFile
<1>2. Output \in {<<>>} \cup Paths
  BY <1>1 DEF Output, Paths
<1>3. lctl' \in Control /\ lctl'.flags = lctl.flags /\ lctl'.outfile = Output
  BY <1>2, ControlOutfile DEF SessionInv, SessionTypes
<1>4. pc' \in InFile \ Unnamed /\ pc # "exited" /\ pc' # "exited" /\ ToFile'
  BY <1>3 DEF InFile, Unnamed, Named, Writing, Closing, Ending, ToFile, Has
<1>5. SessionTypes'
  BY <1>3, <1>4 DEF SessionInv, SessionTypes
<1>6. OutfileKnown'
  BY <1>1, <1>3, <1>4 DEF OutfileKnown, Output
<1>7. OutputKnown'
  BY <1>4 DEF SessionInv, OutputKnown, Unnamed, Named, Writing, Closing, Ending, Output, Has
<1>8. BrokenOnlyWhenShort'
  BY <1>4 DEF SessionInv, SessionTypes, BrokenOnlyWhenShort
<1>. QED  BY <1>5, <1>6, <1>7, <1>8 DEF SessionInv

(* An output with the name of the input is refused. *)
LEMMA OwnNameKeeps ==
  ASSUME SessionInv, pc \in Unnamed, NEW c \in Control, lctl' = c, FatalExit(c),
         UNCHANGED <<nopts, names, base, i, sent>>
  PROVE  SessionInv'
<1>1. pc # "exited" /\ pc \notin Writing
  BY DEF Unnamed, Writing
<1>. QED  BY <1>1, EndsFatal DEF FatalExit

LEMMA PathsHere ==
  ASSUME SessionInv, pc \in InFile
  PROVE  InPath \in Paths /\ OutPath \in Paths /\ (OutPath # InPath => OutPath = Output)
<1>1. i \in Index
  BY DEF SessionInv, OutfileKnown
<1>. QED  BY <1>1 DEF InPath, OutPath, Output, Paths

(* open with O_EXCL. *)
LEMMA CreateKeeps ==
  ASSUME SessionInv, pc \in Named, NEW next \in Writing \ {"c_magic"}, Create(next)
  PROVE  SessionInv'
<1>1. pc \in InFile \ Unnamed /\ pc # "exited" /\ next \in InFile \ Unnamed
      /\ pc \notin Writing
  BY DEF InFile, Unnamed, Named, Writing, Closing, Ending
<1>2. i \in Index /\ lctl.flags = base.flags
      /\ lctl.outfile = IF ToFile THEN Output ELSE <<>>
  BY <1>1 DEF SessionInv, OutfileKnown
<1>3. CASE CreateFails
  <2>1. lctl.flags \cup {"KEEP_BROKEN"} \in SUBSET Flags /\ lctl \in Control
    BY FlagNames DEF SessionInv, SessionTypes, Control
  <2>2. lctl' \in Control
    BY <1>3, <2>1, ControlFlags DEF CreateFails, KeepExisting
  <2>. QED  BY <1>1, <1>3, <2>2, EndsFatal DEF CreateFails, FatalExit
<1>4. CASE CreateWorks(next)
  <2>1. /\ pc' = next /\ UNCHANGED <<nopts, names, base, i, exit, lctl, sent>>
        /\ disk' = IF ToFile THEN [disk EXCEPT ![lctl.outfile] = "partial"] ELSE disk
    BY <1>4 DEF CreateWorks, Step
  <2>2. Output \in Paths /\ \A k \in Index : <<"out", k>> \in Paths
    BY <1>2 DEF Output, Paths
  <2>3. disk \in [Paths -> {"none", "input", "old", "partial", "complete"}]
    BY DEF SessionInv, SessionTypes
  <2>4. /\ disk' \in [Paths -> {"none", "input", "old", "partial", "complete"}]
        /\ ToFile => disk'[Output] = "partial"
        /\ \A k \in Index : k # i \/ ~ToFile => disk'[<<"out", k>>] = disk[<<"out", k>>]
    BY <1>2, <2>1, <2>2, <2>3 DEF Output
  <2>5. ToFile' = ToFile /\ Output' = Output /\ pc' # "exited"
    BY <1>1, <2>1 DEF ToFile, Has, Output, InFile, Unnamed, Named, Writing, Closing, Ending
  <2>6. SessionTypes'
    BY <1>1, <2>1, <2>4, <2>5 DEF SessionInv, SessionTypes
  <2>7. OutfileKnown'
    BY <1>1, <1>2, <2>1, <2>5 DEF OutfileKnown
  <2>8. ASSUME NEW k \in Index, disk'[<<"out", k>>] = "partial"
        PROVE  Has(base, "KEEP_BROKEN") \/ (k = i /\ ToFile)
    BY <1>1, <2>4, <2>8 DEF SessionInv, OutputKnown
  <2>9. next \in Writing /\ next \notin Closing /\ next # "c_magic"
    BY DEF Writing, Closing
  <2>10. OutputKnown'
    BY <2>1, <2>4, <2>5, <2>8, <2>9 DEF OutputKnown, Has, Index, Writing, Ending
  <2>11. BrokenOnlyWhenShort'
    BY <1>1, <2>1, <2>5 DEF SessionInv, SessionTypes, BrokenOnlyWhenShort
  <2>. QED  BY <2>6, <2>7, <2>10, <2>11 DEF SessionInv
<1>. QED  BY <1>3, <1>4 DEF Create

(* The data is complete: the file, or what went to standard output.         *)
LEMMA DeliverKeeps ==
  ASSUME SessionInv, pc \in Writing, pc' \in Closing, Deliver("complete"),
         UNCHANGED <<nopts, names, base, i, exit, lctl>>
  PROVE  SessionInv'
<1>1. pc \in InFile \ Unnamed /\ pc # "exited" /\ pc' \in InFile \ Unnamed
      /\ pc' # "exited" /\ pc' \notin Writing /\ pc' # "c_magic"
  BY DEF InFile, Unnamed, Named, Writing, Closing, Ending
<1>2. i \in Index /\ lctl.flags = base.flags
      /\ lctl.outfile = IF ToFile THEN Output ELSE <<>>
  BY <1>1 DEF SessionInv, OutfileKnown
<1>3. /\ ToFile => disk' = [disk EXCEPT ![Output] = "complete"] /\ sent' = sent
      /\ ~ToFile => disk' = disk /\ sent' = IF Has(lctl, "STDOUT") THEN "complete" ELSE sent
  BY <1>2 DEF Deliver
<1>4. Output \in Paths /\ \A k \in Index : <<"out", k>> \in Paths
  BY <1>2 DEF Output, Paths
<1>5. disk \in [Paths -> {"none", "input", "old", "partial", "complete"}]
  BY DEF SessionInv, SessionTypes
<1>6. /\ disk' \in [Paths -> {"none", "input", "old", "partial", "complete"}]
      /\ ToFile => disk'[Output] = "complete"
      /\ \A k \in Index : k # i \/ ~ToFile => disk'[<<"out", k>>] = disk[<<"out", k>>]
  BY <1>3, <1>4, <1>5 DEF Output
<1>7. ToFile' = ToFile /\ Output' = Output
  BY DEF ToFile, Has, Output
<1>8. SessionTypes'
  BY <1>1, <1>3, <1>6 DEF SessionInv, SessionTypes
<1>9. OutfileKnown'
  BY <1>1, <1>2, <1>7 DEF OutfileKnown
<1>10. ASSUME NEW k \in Index, disk'[<<"out", k>>] = "partial"
       PROVE  Has(base, "KEEP_BROKEN")
  <2>1. k # i \/ ~ToFile
    BY <1>6, <1>10 DEF Output
  <2>2. disk[<<"out", k>>] = "partial"
    BY <1>6, <1>10, <2>1
  <2>. QED  BY <1>1, <2>1, <2>2 DEF SessionInv, OutputKnown
<1>11. Has(lctl, "STDOUT") => ~ToFile /\ sent' = "complete"
  BY <1>3 DEF ToFile
<1>12. OutputKnown'
  BY <1>1, <1>6, <1>7, <1>10, <1>11 DEF OutputKnown, Has, Index, Closing, Ending
<1>13. BrokenOnlyWhenShort'
  BY <1>1 DEF SessionInv, SessionTypes, BrokenOnlyWhenShort
<1>. QED  BY <1>8, <1>9, <1>12, <1>13 DEF SessionInv

(* -D. *)
LEMMA UnlinkKeeps ==
  ASSUME SessionInv, NEW here \in Closing, NEW next \in Ending, UnlinkInput(here, next)
  PROVE  SessionInv'
<1>1. /\ pc = here /\ pc' = next /\ UNCHANGED <<nopts, names, base, i, exit, lctl, sent>>
      /\ disk' = disk \/ disk' = [disk EXCEPT ![InPath] = "none"]
  BY DEF UnlinkInput, Step
<1>2. pc \in InFile \ Unnamed /\ pc # "exited" /\ pc' \in InFile \ Unnamed
      /\ pc' # "exited" /\ pc \notin Writing /\ pc' \notin Writing \cup Closing
      /\ pc' # "c_magic"
  BY <1>1 DEF InFile, Unnamed, Named, Writing, Closing, Ending
<1>3. i \in Index /\ InPath \in Paths /\ \A k \in Index : <<"out", k>> \in Paths
  BY <1>2 DEF SessionInv, OutfileKnown, InPath, Paths
<1>4. disk \in [Paths -> {"none", "input", "old", "partial", "complete"}]
  BY DEF SessionInv, SessionTypes
<1>5. /\ disk' \in [Paths -> {"none", "input", "old", "partial", "complete"}]
      /\ \A k \in Index : disk'[<<"out", k>>] = disk[<<"out", k>>]
  BY <1>1, <1>3, <1>4 DEF InPath
<1>6. ToFile' = ToFile /\ Output' = Output
  BY <1>1 DEF ToFile, Has, Output
<1>7. SessionTypes'
  BY <1>1, <1>2, <1>5 DEF SessionInv, SessionTypes
<1>8. OutfileKnown'
  BY <1>1, <1>2, <1>6 DEF SessionInv, OutfileKnown
<1>9. OutputKnown'
  <2>1. Output' = <<"out", i>> /\ (ToFile => disk[<<"out", i>>] = "complete")
    BY <1>1 DEF SessionInv, OutputKnown, Output
  <2>2. ToFile => disk'[Output'] = "complete"
    BY <1>3, <1>5, <2>1
  <2>3. ASSUME NEW k \in Index, disk'[<<"out", k>>] = "partial"
        PROVE  Has(base, "KEEP_BROKEN")
    BY <1>2, <1>5, <2>3 DEF SessionInv, OutputKnown
  <2>. QED  BY <1>1, <1>2, <1>6, <2>2, <2>3 DEF OutputKnown, Has, Index
<1>10. BrokenOnlyWhenShort'
  BY <1>1, <1>2 DEF SessionInv, SessionTypes, BrokenOnlyWhenShort
<1>. QED  BY <1>7, <1>8, <1>9, <1>10 DEF SessionInv

(* The file is done with, and its name is forgotten. *)
LEMMA EndKeeps == SessionInv /\ (EndFile \/ Info) => SessionInv'
<1>. SUFFICES ASSUME SessionInv, EndFile \/ Info PROVE SessionInv'
  OBVIOUS
<1>1. /\ pc \in Ending \cup Unnamed /\ pc' = "next" /\ i' = i + 1
      /\ UNCHANGED <<nopts, names, base, disk, sent, exit>>
      /\ \/ lctl' = [lctl EXCEPT !.outfile = <<>>]
         \/ lctl' = lctl /\ pc = "info"
  BY DEF EndFile, Info, Ending, Unnamed
<1>2. pc \in InFile /\ pc # "exited" /\ pc \notin Writing
  BY <1>1 DEF InFile, Ending, Unnamed, Writing
<1>3. i \in Index
  BY <1>2 DEF SessionInv, OutfileKnown
<1>4. lctl' \in Control /\ lctl'.outfile = <<>>
  <2>1. lctl \in Control
    BY DEF SessionInv, SessionTypes
  <2>2. pc = "info" => lctl.outfile = <<>>
    BY DEF SessionInv, OutfileKnown, Unnamed
  <2>. QED  BY <1>1, <2>1, <2>2, ControlOutfile
<1>5. SessionTypes'
  BY <1>1, <1>2, <1>3, <1>4, SessionAssumption DEF SessionInv, SessionTypes, Index
<1>6. OutfileKnown'
  BY <1>1, <1>4 DEF OutfileKnown, InFile, Unnamed, Named, Writing, Closing, Ending
<1>7. OutputKnown'
  BY <1>1, <1>2 DEF SessionInv, OutputKnown, Writing, Closing, Ending, Has, Index
<1>8. BrokenOnlyWhenShort'
  BY <1>1, <1>2 DEF SessionInv, SessionTypes, BrokenOnlyWhenShort
<1>. QED  BY <1>5, <1>6, <1>7, <1>8 DEF SessionInv
LEMMA CompressKeeps == SessionInv /\ CompressStep => SessionInv'
<1>. SUFFICES ASSUME SessionInv, CompressStep PROVE SessionInv'
  OBVIOUS
<1>1. CASE CompressOpen
  BY <1>1, GoesOn DEF CompressOpen, Step, InFile, Unnamed
<1>2. CASE CompressName
  <2>1. pc = "c_name" /\ pc \in Unnamed /\ pc \in InFile /\ lctl \in Control
    BY <1>2 DEF CompressName, Unnamed, InFile, SessionInv, SessionTypes
  <2>2. CASE ~ToFile
    BY <1>2, <2>1, <2>2, GoesOn DEF CompressName, Step, Unnamed, Named
  <2>3. CASE ToFile /\ FromFile /\ OutPath = InPath
    <3>1. [lctl EXCEPT !.outfile = OutPath] \in Control
      BY <2>1, PathsHere, ControlOutfile
    <3>. QED  BY <1>2, <2>1, <2>3, <3>1, OwnNameKeeps DEF CompressName
  <2>4. CASE ToFile /\ ~(FromFile /\ OutPath = InPath)
    <3>1. OutPath = Output
      BY <2>4 DEF OutPath, Output
    <3>2. /\ pc' = "c_create" /\ lctl' = [lctl EXCEPT !.outfile = Output]
          /\ UNCHANGED <<nopts, names, base, i, exit, disk, sent>>
      BY <1>2, <2>4, <3>1 DEF CompressName, Step
    <3>. QED  BY <2>1, <2>4, <3>2, NameKeeps DEF Named
  <2>. QED  BY <2>2, <2>3, <2>4
<1>3. CASE CompressCreate
  BY <1>3, CreateKeeps DEF CompressCreate, Named, Writing
<1>4. CASE CompressData
  <2>1. /\ pc = "c_data" /\ pc' = "c_magic" /\ UNCHANGED <<nopts, names, base, i, exit, lctl>>
        /\ IF ToFile THEN UNCHANGED <<disk, sent>> ELSE Deliver("complete")
    BY <1>4 DEF CompressData, Step
  <2>2. /\ disk' = disk /\ sent' \in {sent, "complete"}
        /\ Has(lctl, "STDOUT") => sent' = "complete"
    BY <2>1 DEF Deliver, ToFile
  <2>3. pc \in Writing /\ pc' \in Writing /\ pc \in InFile
        /\ sent \in {"none", "partial", "complete"}
    BY <2>1 DEF Writing, InFile, SessionInv, SessionTypes
  <2>. QED  BY <2>1, <2>2, <2>3, GoesOn
<1>5. CASE CompressMagic
  <2>1. /\ pc = "c_magic" /\ pc' = "c_close" /\ UNCHANGED <<nopts, names, base, i, exit, lctl>>
        /\ IF ToFile THEN Deliver("complete") ELSE UNCHANGED <<disk, sent>>
    BY <1>5 DEF CompressMagic, Step
  <2>2. Deliver("complete")
    BY <2>1 DEF Deliver, SessionInv, OutputKnown
  <2>. QED  BY <2>1, <2>2, DeliverKeeps DEF Writing, Closing
<1>6. CASE CompressClose
  BY <1>6, GoesOn DEF CompressClose, CloseFiles, Step, InFile, Closing
<1>7. CASE CompressUnlink
  BY <1>7, UnlinkKeeps DEF CompressUnlink, Closing, Ending
<1>. QED  BY <1>1, <1>2, <1>3, <1>4, <1>5, <1>6, <1>7 DEF CompressStep

LEMMA DecompressKeeps == SessionInv /\ DecompressStep => SessionInv'
<1>. SUFFICES ASSUME SessionInv, DecompressStep PROVE SessionInv'
  OBVIOUS
<1>1. CASE DecompressName
  <2>1. pc = "d_name" /\ pc \in Unnamed /\ pc \in InFile /\ lctl \in Control
    BY <1>1 DEF DecompressName, Unnamed, InFile, SessionInv, SessionTypes
  <2>2. CASE ~ToFile
    BY <1>1, <2>1, <2>2, GoesOn DEF DecompressName, Step, Unnamed, Named
  <2>3. CASE ToFile /\ FromFile /\ OutPath = InPath
    <3> DEFINE named == [lctl EXCEPT !.outfile = OutPath]
               tested == [named EXCEPT !.flags = @ \cup {"TEST_ONLY"}]
    <3>1. named \in Control
      BY <2>1, PathsHere, ControlOutfile
    <3>2. lctl' = tested /\ FatalExit(tested) /\ UNCHANGED <<nopts, names, base, i, sent>>
      BY <1>1, <2>1, <2>3 DEF DecompressName
    <3>. HIDE DEF named
    <3>3. named.flags \cup {"TEST_ONLY"} \in SUBSET Flags
      BY <3>1, FlagNames DEF Control
    <3>4. tested \in Control
      BY <3>1, <3>3, ControlFlags
    <3>. QED  BY <2>1, <3>2, <3>4, OwnNameKeeps
  <2>4. CASE ToFile /\ ~(FromFile /\ OutPath = InPath)
    <3>1. OutPath = Output
      BY <2>4 DEF OutPath, Output
    <3>2. /\ pc' = "d_open" /\ lctl' = [lctl EXCEPT !.outfile = Output]
          /\ UNCHANGED <<nopts, names, base, i, exit, disk, sent>>
      BY <1>1, <2>4, <3>1 DEF DecompressName, Step
    <3>. QED  BY <2>1, <2>4, <3>2, NameKeeps DEF Named
  <2>. QED  BY <2>2, <2>3, <2>4
<1>2. CASE DecompressCrash
  BY <1>2, StopKeeps DEF DecompressCrash, Writing
<1>3. CASE DecompressOpen
  BY <1>3, GoesOn DEF DecompressOpen, Step, InFile, Named
<1>4. CASE DecompressCreate
  BY <1>4, CreateKeeps DEF DecompressCreate, Named, Writing
<1>5. CASE DecompressMagic
  BY <1>5, GoesOn DEF DecompressMagic, Step, InFile, Writing
<1>6. CASE DecompressValidate
  BY <1>6, GoesOn DEF DecompressValidate, Step, InFile, Writing
<1>7. CASE DecompressData
  BY <1>7, DeliverKeeps DEF DecompressData, Step, Writing, Closing
<1>8. CASE DecompressSome
  BY <1>8, GoesOn DEF DecompressSome, Step, InFile, Writing
<1>9. CASE DecompressShort
  BY <1>9, StopKeeps DEF DecompressShort
<1>10. CASE DecompressClose
  BY <1>10, GoesOn DEF DecompressClose, CloseFiles, Step, InFile, Closing
<1>11. CASE DecompressUnlink
  BY <1>11, UnlinkKeeps DEF DecompressUnlink, Closing, Ending
<1>. QED
  BY <1>1, <1>2, <1>3, <1>4, <1>5, <1>6, <1>7, <1>8, <1>9, <1>10, <1>11 DEF DecompressStep

(* One step of the program. *)
LEMMA SessionStep == SessionInv /\ [Next]_vars => SessionInv'
<1>. SUFFICES ASSUME SessionInv, [Next]_vars PROVE SessionInv'
  OBVIOUS
<1>0. lctl \in Control /\ base \in Control
  BY DEF SessionInv, SessionTypes
<1>1. CASE OptionStep
  BY <1>1, OptionKeeps
<1>2. CASE FinishMain
  <2>1. Stop("success") /\ pc # "exited" /\ pc \notin Writing
    BY <1>2 DEF FinishMain, Stop, Writing
  <2>. QED  BY <2>1, StopKeeps
<1>3. CASE StartFile
  BY <1>3, StartKeeps
<1>4. CASE RefuseFile
  BY <1>4, MainFatalKeeps DEF RefuseFile
<1>5. CASE FileFatal
  BY <1>0, <1>5, EndsFatal DEF FileFatal, FatalExit
<1>6. CASE CompressStep
  BY <1>6, CompressKeeps
<1>7. CASE DecompressStep
  BY <1>7, DecompressKeeps
<1>8. CASE EndFile \/ Info
  BY <1>8, EndKeeps
<1>9. CASE Signal
  BY <1>0, <1>9, EndsFatal DEF Signal
<1>10. CASE UNCHANGED vars
  BY <1>10 DEF vars, SessionInv, SessionTypes, OutfileKnown, OutputKnown, BrokenOnlyWhenShort,
               ToFile, Has, Output
<1>. QED
  BY <1>1, <1>2, <1>3, <1>4, <1>5, <1>6, <1>7, <1>8, <1>9, <1>10
     DEF Next, MainStep, Exited

(* The inductive invariant: at every place of the program, which output is  *)
(* registered for deletion, and what is on disk under its name.             *)
THEOREM SessionInvariant == Spec => []SessionInv
<1>. QED  BY InitSession, SessionStep, PTL DEF Spec

(* However the program ends, an unfinished output is left behind only with  *)
(* -K or when runzip_fd reports an archive that ends too early, and then it *)
(* is that of the file at work; between two files no name is registered     *)
(* (util.c 80, runzip.c 394, compress_file 1580).                           *)
THEOREM SessionLeftovers == Spec => []LeftoversKnown
<1>1. SessionInv => LeftoversKnown
  BY DEF SessionInv, SessionTypes, OutfileKnown, LeftoversKnown, SessionTypeOK, Control,
         InFile, Unnamed, Named, Writing, Closing, Ending
<1>. QED  BY <1>1, SessionInvariant, PTL

-----------------------------------------------------------------------------
(* What becomes of the files that were there. *)
(* A signal or an error deletes at most the output of the file main is at,  *)
(* and none of the program's other steps but UnlinkInput takes a file away. *)
LEMMA LeavesDisk ==
  ASSUME SessionInv, [Next]_vars
  PROVE  \/ disk' = disk
         \/ /\ pc # "exited" /\ disk' = AfterFatal(lctl) /\ exit' = "signal"
            /\ pc' = "exited"
         \/ /\ pc # "exited" /\ disk' = AfterFatal(lctl) /\ exit' = "fatal" /\ FileFatal
            /\ pc' = "exited"
         \/ /\ base.outname = "same" /\ disk' = [disk EXCEPT ![InPath] = "none"]
            /\ pc = "c_name" /\ pc' = "exited"
         \/ /\ pc \in Named /\ ToFile /\ disk' = [disk EXCEPT ![Output] = "partial"]
            /\ disk[Output] = "none" \/ Has(lctl, "FORCE")
         \/ pc \in Writing /\ ToFile /\ disk' = [disk EXCEPT ![Output] = "complete"]
         \/ pc \in Closing /\ disk' = [disk EXCEPT ![InPath] = "none"] /\ pc' \in Ending
<1>0. base \in Control /\ base.outfile = <<>> /\ lctl \in Control
  BY DEF SessionInv, SessionTypes
<1>1. CASE MainFatal
  BY <1>0, <1>1, FatalLeaves DEF MainFatal, FatalExit, SessionInv
<1>2. CASE OptionStep /\ ~MainFatal
  <2>. SUFFICES disk' = disk
    OBVIOUS
  <2>0. ASSUME NEW new, SetOption(new) PROVE disk' = disk
    BY <2>0 DEF SetOption
  <2>1. CASE OptMethod \/ OptFlag \/ OptDelete \/ OptInfo
    BY <1>2, <2>0, <2>1, Zenon DEF OptMethod, OptFlag, OptDelete, OptInfo
  <2>2. CASE OptOutname \/ OptOutdir \/ OptTest
    BY <1>2, <2>0, <2>2, Zenon DEF OptOutname, OptOutdir, OptTest
  <2>3. CASE OptLong \/ OptValue \/ OptQuit
    BY <1>2, <2>0, <2>3, Zenon DEF OptLong, OptValue, OptQuit, Stop
  <2>4. CASE EndOptions
    BY <1>2, <2>4 DEF EndOptions
  <2>. QED  BY <1>2, <2>1, <2>2, <2>3, <2>4 DEF OptionStep
<1>3. CASE FinishMain \/ (StartFile /\ ~MainFatal) \/ EndFile \/ Info
  BY <1>3 DEF FinishMain, StartFile, EndFile, Info
<1>4. CASE FileFatal
  BY <1>4 DEF FileFatal, FatalExit
<1>5. CASE Signal
  BY <1>5 DEF Signal
<1>6. ASSUME NEW next, Create(next), pc \in Named
      PROVE  \/ disk' = disk
             \/ /\ ToFile /\ disk' = [disk EXCEPT ![Output] = "partial"]
                /\ disk[Output] = "none" \/ Has(lctl, "FORCE")
  <2>1. lctl.outfile = IF ToFile THEN Output ELSE <<>>
    BY <1>6 DEF SessionInv, OutfileKnown, InFile, Unnamed, Named
  <2>2. CASE CreateFails
    <3>1. CASE ToFile
      <4>1. lctl.flags \cup {"KEEP_BROKEN"} \in SUBSET Flags
        BY <1>0, FlagNames DEF Control
      <4>2. KeepExisting(lctl) \in Control /\ "KEEP_BROKEN" \in KeepExisting(lctl).flags
        BY <1>0, <4>1, ControlFlags DEF KeepExisting
      <4>3. disk' = AfterFatal(KeepExisting(lctl))
        BY <2>2, <3>1 DEF CreateFails, FatalExit
      <4>4. {"STDOUT", "TEST_ONLY", "KEEP_BROKEN"} \cap KeepExisting(lctl).flags # {}
        BY <4>2
      <4>. QED  BY <4>2, <4>3, <4>4, FatalLeaves DEF SessionInv
    <3>2. CASE ~ToFile
      BY <1>0, <2>1, <2>2, <3>2, FatalLeaves DEF CreateFails, FatalExit, SessionInv
    <3>. QED  BY <3>1, <3>2
  <2>3. CASE CreateWorks(next)
    BY <2>1, <2>3 DEF CreateWorks
  <2>. QED  BY <1>6, <2>2, <2>3 DEF Create
<1>7. CASE CompressCreate \/ DecompressCreate
  BY <1>6, <1>7 DEF CompressCreate, DecompressCreate, Named
<1>8. ASSUME pc \in Writing, Deliver("complete") \/ disk' = disk
      PROVE  disk' = disk \/ (ToFile /\ disk' = [disk EXCEPT ![Output] = "complete"])
  BY <1>8 DEF Deliver, SessionInv, OutfileKnown, InFile, Unnamed, Writing
<1>9. CASE CompressData \/ CompressMagic \/ DecompressData
  BY <1>8, <1>9 DEF CompressData, CompressMagic, DecompressData, Writing
<1>10. CASE CompressUnlink \/ DecompressUnlink
  BY <1>10 DEF CompressUnlink, DecompressUnlink, UnlinkInput, Step, Closing, Ending
<1>11. CASE CompressName
  <2>1. CASE ToFile /\ FromFile /\ OutPath = InPath
    <3> DEFINE named == [lctl EXCEPT !.outfile = OutPath]
    <3>1. named \in Control /\ named.outfile = InPath
      BY <1>0, <1>11, <2>1, PathsHere, ControlOutfile
         DEF CompressName, InFile, Unnamed
    <3>2. disk' = AfterFatal(named) /\ pc = "c_name" /\ pc' = "exited"
      BY <1>11, <2>1 DEF CompressName, FatalExit
    <3>3. base.outname = "same"
      BY <2>1 DEF OutPath, InPath
    <3>4. disk' = disk \/ disk' = [disk EXCEPT ![InPath] = "none"]
      BY <3>1, <3>2 DEF AfterFatal
    <3>. QED  BY <3>2, <3>3, <3>4
  <2>2. CASE ~(ToFile /\ FromFile /\ OutPath = InPath)
    BY <1>11, <2>2 DEF CompressName
  <2>. QED  BY <2>1, <2>2
<1>12. CASE DecompressName
  <2>1. CASE ToFile /\ FromFile /\ OutPath = InPath
    <3> DEFINE named == [lctl EXCEPT !.outfile = OutPath]
               tested == [named EXCEPT !.flags = @ \cup {"TEST_ONLY"}]
    <3>1. named \in Control
      BY <1>0, <1>12, <2>1, PathsHere, ControlOutfile
         DEF DecompressName, InFile, Unnamed
    <3>2. disk' = AfterFatal(tested)
      BY <1>12, <2>1 DEF DecompressName, FatalExit
    <3>. HIDE DEF named
    <3>3. named.flags \cup {"TEST_ONLY"} \in SUBSET Flags
      BY <3>1, FlagNames DEF Control
    <3>4. tested \in Control /\ tested.flags = named.flags \cup {"TEST_ONLY"}
      BY <3>1, <3>3, ControlFlags
    <3>5. {"STDOUT", "TEST_ONLY", "KEEP_BROKEN"} \cap tested.flags # {}
      BY <3>4
    <3>. QED  BY <3>2, <3>4, <3>5, FatalLeaves DEF SessionInv
  <2>2. CASE ~(ToFile /\ FromFile /\ OutPath = InPath)
    BY <1>12, <2>2 DEF DecompressName
  <2>. QED  BY <2>1, <2>2
<1>13. CASE \/ CompressOpen \/ CompressClose \/ DecompressCrash \/ DecompressOpen
            \/ DecompressMagic \/ DecompressValidate \/ DecompressSome \/ DecompressShort
            \/ DecompressClose
  BY <1>13 DEF CompressOpen, CompressClose, DecompressCrash, DecompressOpen,
               DecompressMagic, DecompressValidate, DecompressSome, DecompressShort,
               DecompressClose, CloseFiles, Stop
<1>14. CASE UNCHANGED vars
  BY <1>14 DEF vars
<1>. QED
  BY <1>1, <1>2, <1>3, <1>4, <1>5, <1>7, <1>9, <1>10, <1>11, <1>12, <1>13, <1>14
     DEF Next, MainStep, Exited, CompressStep, DecompressStep, RefuseFile

(* The names of two files, and of an input and an output, are different.    *)
LEMMA PathsDiffer ==
  ASSUME NEW k \in Index
  PROVE  /\ <<"in", k>> \in Paths /\ <<"out", k>> \in Paths
         /\ <<"in", k>> # Output /\ <<"out", k>> # InPath
         /\ (<<"in", k>> = InPath => k = i) /\ (<<"out", k>> = Output => k = i)
  BY DEF Paths, Output, InPath

(* Where no file is being worked on, no name is registered. *)
LEMMA OutfileIs ==
  ASSUME SessionInv, pc # "exited"
  PROVE  /\ lctl.outfile \in {<<>>, Output}
         /\ lctl.outfile = Output => pc \in InFile \ Unnamed /\ ToFile
  BY DEF SessionInv, OutfileKnown, Output

(* The input of the file at work is there until it is deleted at the end of *)
(* the file, and those of the files to come are not touched.                *)
InputKnown ==
  pc # "exited" =>
    \A k \in Index : k > i \/ (k = i /\ pc \notin Ending) => disk[<<"in", k>>] # "none"

(* main goes on in the same file, ends, or comes to the next file.          *)
LEMMA Moves ==
  ASSUME SessionInv, [Next]_vars, pc' # "exited"
  PROVE  \/ i' = i /\ (pc \in Ending <=> pc' \in Ending)
         \/ i' = i /\ pc' \in Ending
         \/ i' = i + 1 /\ pc' = "next"
<1>1. CASE OptionStep
  <2>0. ASSUME NEW new, Options, SetOption(new)
        PROVE  i' = i /\ pc \notin Ending /\ pc' \notin Ending
    BY <2>0 DEF Options, SetOption, Ending
  <2>1. ~MainFatal
    BY DEF MainFatal, FatalExit
  <2>2. CASE OptMethod \/ OptFlag \/ OptDelete \/ OptInfo
    BY <2>0, <2>1, <2>2, Zenon DEF OptMethod, OptFlag, OptDelete, OptInfo
  <2>3. CASE OptOutname \/ OptOutdir \/ OptTest
    BY <2>0, <2>1, <2>3, Zenon DEF OptOutname, OptOutdir, OptTest
  <2>4. CASE OptLong \/ OptValue
    BY <2>0, <2>1, <2>4, Zenon DEF OptLong, OptValue
  <2>5. CASE OptQuit
    BY <2>5 DEF OptQuit, Stop
  <2>6. CASE EndOptions
    BY <2>1, <2>6 DEF EndOptions, Ending
  <2>. QED  BY <1>1, <2>2, <2>3, <2>4, <2>5, <2>6 DEF OptionStep
<1>2. CASE StartFile
  <2>1. pc = "next" /\ i' = i /\ pc' \in {"d_name", "info", "c_open"}
    BY <1>2 DEF StartFile, MainFatal, FatalExit
  <2>. QED  BY <2>1 DEF Ending
<1>3. CASE FinishMain \/ RefuseFile \/ FileFatal \/ Signal
  BY <1>3 DEF FinishMain, RefuseFile, MainFatal, FatalExit, FileFatal, Signal
<1>4. CASE CompressStep
  BY <1>4 DEF CompressStep, CompressOpen, CompressName, CompressCreate, Create, CreateFails,
              CreateWorks, CompressData, CompressMagic, CompressClose, CloseFiles,
              CompressUnlink, UnlinkInput, Step, FatalExit, Ending
<1>5. CASE DecompressStep
  BY <1>5 DEF DecompressStep, DecompressName, DecompressCrash, Stop, DecompressOpen,
              DecompressCreate, Create, CreateFails, CreateWorks, DecompressMagic,
              DecompressValidate, DecompressData, DecompressSome, DecompressShort,
              DecompressClose, CloseFiles, DecompressUnlink, UnlinkInput, Step, FatalExit,
              Ending
<1>6. CASE EndFile \/ Info
  BY <1>6 DEF EndFile, Info
<1>7. CASE UNCHANGED vars
  BY <1>7 DEF vars
<1>. QED  BY <1>1, <1>2, <1>3, <1>4, <1>5, <1>6, <1>7 DEF Next, MainStep, Exited

(* UnlinkInput is the only step that takes an input away, and it is the last *)
(* but one of the file (compress_file 1575, decompress_file 1800); the rest  *)
(* that does so ends the program.                                            *)
THEOREM SessionInputs == Spec => []InputKnown
<1>1. Init => InputKnown
  <2>. SUFFICES ASSUME Init, NEW k \in Index PROVE disk[<<"in", k>>] # "none"
    BY DEF InputKnown
  <2>1. PICK old \in [Index -> {"none", "old"}] :
          disk = [p \in Paths |-> IF p[1] = "in" THEN "input" ELSE old[p[2]]]
    BY DEF Init
  <2>. QED  BY <2>1 DEF Paths
<1>2. SessionInv /\ InputKnown /\ [Next]_vars => InputKnown'
  <2>. SUFFICES ASSUME SessionInv, InputKnown, [Next]_vars, pc' # "exited", NEW k \in Index,
                       k > i' \/ (k = i' /\ pc' \notin Ending)
                PROVE  disk'[<<"in", k>>] # "none"
    BY DEF InputKnown, Index
  <2>1. disk \in [Paths -> {"none", "input", "old", "partial", "complete"}]
        /\ i \in Nat /\ k \in Nat
    BY SessionAssumption DEF SessionInv, SessionTypes, Index
  <2>2. pc # "exited"
    BY DEF Next, MainStep, OptionStep, Exited, vars, OptMethod, OptFlag, OptDelete, OptInfo,
           OptOutname, OptOutdir, OptTest, OptLong, OptValue, OptQuit, EndOptions, Options,
           FinishMain, StartFile, RefuseFile, FileFatal, EndFile, Info, Signal,
           CompressStep, CompressOpen, CompressName, CompressCreate, CompressData,
           CompressMagic, CompressClose, CloseFiles, CompressUnlink, UnlinkInput,
           DecompressStep, DecompressName, DecompressCrash, DecompressOpen,
           DecompressCreate, DecompressMagic, DecompressValidate, DecompressData,
           DecompressSome, DecompressShort, DecompressClose, DecompressUnlink
  <2>3. k > i \/ (k = i /\ pc \notin Ending)
    BY <2>1, Moves
  <2>4. disk[<<"in", k>>] # "none"
    BY <2>2, <2>3 DEF InputKnown
  <2>5. <<"in", k>> \in Paths /\ <<"in", k>> # Output
        /\ (<<"in", k>> = InPath => k = i)
    BY PathsDiffer
  <2>6. CASE disk' = [disk EXCEPT ![InPath] = "none"] /\ pc' \in Ending /\ pc \in Closing
    <3>1. k # i
      BY <2>1, <2>6, Moves DEF Closing, Ending
    <3>. QED  BY <2>1, <2>4, <2>5, <2>6, <3>1
  <2>. QED  BY <2>1, <2>4, <2>5, <2>6, LeavesDisk
<1>. QED  BY <1>1, <1>2, SessionInvariant, PTL DEF Spec

(* -D: both the input and the finished output of a file go missing only     *)
(* when the output went to standard output, or in the three ways that       *)
(* DataLostOnly names (compress_file 1561-1580, decompress_file 1792-1807). *)
THEOREM SessionDataKept == Spec => DataLostOnly
<1> DEFINE Allowed(k) ==
      /\ k = i
      /\ \/ Has(lctl, "STDOUT") /\ sent = "complete"
         \/ Has(lctl, "TEST_ONLY")
         \/ base.outname = "same"
         \/ exit' = "signal" /\ pc \in {"c_end", "d_end"}
<1>1. ASSUME SessionInv, InputKnown, [Next]_vars, NEW k \in Index,
             DataThere(k), ~(DataThere(k)')
      PROVE  Allowed(k)
  <2>0. disk'[<<"in", k>>] = "none" /\ disk'[<<"out", k>>] # "complete"
    BY <1>1 DEF DataThere
  <2>1. disk \in [Paths -> {"none", "input", "old", "partial", "complete"}]
        /\ <<"in", k>> \in Paths /\ <<"in", k>> # Output /\ <<"in", k>> # <<>>
        /\ <<"out", k>> \in Paths /\ <<"out", k>> # InPath /\ <<"out", k>> # <<>>
        /\ (<<"in", k>> = InPath => k = i) /\ (<<"out", k>> = Output => k = i)
        /\ lctl \in Control
    BY <1>1, PathsDiffer DEF SessionInv, SessionTypes
  <2>2. CASE /\ pc # "exited" /\ disk' = AfterFatal(lctl)
             /\ exit' = "signal" \/ (exit' = "fatal" /\ FileFatal)
    <3>1. disk[<<"in", k>>] = "none"
      BY <1>1, <2>0, <2>1, <2>2, FatalLeaves, OutfileIs DEF SessionInv
    <3>2. disk[<<"out", k>>] = "complete"
      BY <1>1, <3>1 DEF DataThere
    <3>3. lctl.outfile = <<"out", k>>
      BY <1>1, <2>0, <2>1, <2>2, <3>2, FatalLeaves DEF SessionInv
    <3>4. k = i
      BY <1>1, <2>1, <2>2, <3>3, OutfileIs
    <3>5. pc \in {"c_end", "d_end"}
      BY <1>1, <2>2, <3>1, <3>4 DEF InputKnown, Ending
    <3>6. ~FileFatal
      BY <3>5 DEF FileFatal
    <3>. QED  BY <2>2, <3>4, <3>5, <3>6
  <2>3. CASE pc \in Closing /\ disk' = [disk EXCEPT ![InPath] = "none"]
    <3>1. k = i
      BY <1>1, <2>0, <2>1, <2>3 DEF DataThere
    <3>2. ~ToFile
      BY <2>0, <2>1, <2>3, <3>1, <1>1 DEF SessionInv, OutputKnown, Output
    <3>3. Has(lctl, "STDOUT") => sent = "complete"
      BY <1>1, <2>3 DEF SessionInv, OutputKnown
    <3>. QED  BY <3>1, <3>2, <3>3 DEF ToFile
  <2>4. CASE base.outname = "same" /\ disk' = [disk EXCEPT ![InPath] = "none"]
    BY <1>1, <2>0, <2>1, <2>4 DEF DataThere
  <2>5. ASSUME NEW what \in {"partial", "complete"}, disk' = [disk EXCEPT ![Output] = what],
               what = "partial" => pc \in Named
        PROVE  FALSE
    <3>1. disk[<<"in", k>>] = "none"
      BY <2>0, <2>1, <2>5
    <3>2. disk[<<"out", k>>] = "complete" /\ k = i /\ what = "partial"
      BY <1>1, <2>0, <2>1, <2>5, <3>1 DEF DataThere, Output
    <3>. QED  BY <1>1, <2>5, <3>1, <3>2 DEF InputKnown, Named, Ending
  <2>6. disk' # disk
    BY <1>1 DEF DataThere
  <2>. QED  BY <1>1, <2>2, <2>3, <2>4, <2>5, <2>6, LeavesDisk
<1>2. SessionInv /\ InputKnown /\ [Next]_vars =>
        [\A k \in Index : DataThere(k) /\ ~(DataThere(k)') => Allowed(k)]_vars
  BY <1>1
<1>. QED  BY <1>2, SessionInvariant, SessionInputs, PTL DEF DataLostOnly, Spec

(* Without -f a file that was there is lost only by an interruption, or by  *)
(* an archive that cannot be opened, before the output is created.          *)
THEOREM SessionExistingKept == Spec => ExistingLostOnlyEarly
<1>1. ASSUME SessionInv, [Next]_vars, NEW k \in Index,
             disk[<<"out", k>>] = "old", disk'[<<"out", k>>] # "old"
      PROVE  \/ Has(lctl, "FORCE")
             \/ exit' = "signal" /\ pc \in {"c_create", "d_open", "d_create"}
             \/ exit' = "fatal" /\ pc = "d_open"
  <2>1. disk \in [Paths -> {"none", "input", "old", "partial", "complete"}]
        /\ <<"out", k>> \in Paths /\ <<"out", k>> # InPath /\ <<"out", k>> # <<>>
        /\ (<<"out", k>> = Output => k = i) /\ lctl \in Control
    BY <1>1, PathsDiffer DEF SessionInv, SessionTypes
  <2>2. CASE /\ pc # "exited" /\ disk' = AfterFatal(lctl)
             /\ exit' = "signal" \/ (exit' = "fatal" /\ FileFatal)
    <3>1. lctl.outfile = Output /\ k = i /\ pc \in InFile \ Unnamed /\ ToFile
      BY <1>1, <2>1, <2>2, FatalLeaves, OutfileIs DEF SessionInv
    <3>2. disk[Output] = "old"
      BY <1>1, <3>1 DEF Output
    <3>3. pc \in Named
      BY <1>1, <3>1, <3>2 DEF SessionInv, OutputKnown, InFile
    <3>. QED  BY <2>2, <3>3 DEF Named, FileFatal
  <2>3. CASE pc \in Named /\ disk' = [disk EXCEPT ![Output] = "partial"]
             /\ (disk[Output] = "none" \/ Has(lctl, "FORCE"))
    BY <1>1, <2>1, <2>3 DEF Output
  <2>4. CASE pc \in Writing /\ ToFile /\ disk' = [disk EXCEPT ![Output] = "complete"]
    BY <1>1, <2>1, <2>4 DEF SessionInv, OutputKnown, Output
  <2>. QED  BY <1>1, <2>1, <2>2, <2>3, <2>4, LeavesDisk
<1>2. SessionInv /\ [Next]_vars =>
        [\A k \in Index :
           disk[<<"out", k>>] = "old" /\ disk'[<<"out", k>>] # "old"
             => \/ Has(lctl, "FORCE")
                \/ exit' = "signal" /\ pc \in {"c_create", "d_open", "d_create"}
                \/ exit' = "fatal" /\ pc = "d_open"]_vars
  BY <1>1
<1>. QED  BY <1>2, SessionInvariant, PTL DEF ExistingLostOnlyEarly, Spec
=============================================================================
