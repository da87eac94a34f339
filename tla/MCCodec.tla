------------------------------- MODULE MCCodec -------------------------------
(* Four kinds of configuration: every filter on small buffers, all settings    *)
(* the header holds, archives of several chunks, and machines of all sizes.    *)
EXTENDS Codec

Plain ==
  [method |-> "lzo", level |-> 7, rlevel |-> 7, ram |-> 12000 * MB, stdout |-> FALSE, threads |-> 2,
   processors |-> 2, forced |-> {}, st_size |-> 0, chunk_limit |-> 80 * MB, files |-> 1,
   enc |-> 0, salt |-> 1, eof |-> TRUE, size |-> 5, hash |-> 1, filter |-> "none", delta |-> 0,
   strategy |-> 0, zlevel |-> 0, comment |-> <<>>, data |-> <<>>, version |-> 14, raw |-> 0,
   chunks |-> <<[cb |-> 1, blocks |-> <<[s |-> 0, c |-> 3], [s |-> 1, c |-> 4]>>]>>]

WithData(f, ds) == {[Plain EXCEPT !.filter = f, !.data = d] : d \in ds}

Pairs(vs, ws) == {v \o w : v \in vs, w \in ws}

Two(ws) == Pairs(ws, ws)

Zero(n) == [i \in 1..n |-> 0]

(* A bundle of IA-64 with op and immediate in all three slots. *)
Bundle(t, op, imm) ==
  LET slot(d, k) == LET z0 == 8 * (5 * k - 3) + k
                    IN PutField(PutField(PutField(d, z0 - 3, 3, op \div 16), z0 + 25, 4, op % 16), z0, 25, imm)
  IN Put(slot(slot(slot(Zero(16), 1), 2), 3), 0, t)

(* Halfwords of JAL x1, AUIPC x1, AUIPC x2 with its top bits, and of ADDI x1. *)
RiscvHalves == {<<239, 0>>, <<151, 144>>, <<23, 49>>, <<147, 128>>, <<0, 8>>, <<255, 255>>}

FilterConfs ==
  {WithData("x86", {<<232, 232, 232>> \o d : d \in [1..7 -> {0, 232, 255, 240}]}),
   WithData("x86", {<<233, 1, 232>> \o d : d \in [1..6 -> {0, 255, 232, 16}]}),
   WithData("arm", Two({<<254, 255, 255, 235>>, <<0, 0, 0, 235>>, <<235, 1, 2, 3>>})),
   WithData("arm64", Two({<<255, 255, 255, 151>>, <<1, 0, 0, 148>>, <<31, 0, 0, 176>>,
                                   <<255, 255, 15, 144>>, <<0, 0, 240, 240>>, <<0, 0, 16, 144>>})),
   WithData("ppc", Two({<<75, 255, 255, 253>>, <<72, 0, 0, 1>>, <<72, 0, 0, 3>>, <<0, 0, 0, 1>>})),
   WithData("sparc", Two({<<64, 63, 255, 255>>, <<127, 192, 0, 0>>, <<64, 64, 0, 0>>, <<127, 255, 255, 254>>})),
   WithData("armt", Two(Two({<<0, 240>>, <<255, 247>>, <<0, 248>>, <<255, 255>>, <<1, 1>>}))),
   WithData("ia64", Two({Bundle(t, op, imm) : t \in {16, 18, 22, 0}, op \in {5, 21, 4},
                                                       imm \in {2^21 - 1, 0, 2^24 + 5, 2^24 + 2^22}})),
   WithData("riscv", Pairs(Pairs(Two(Two(RiscvHalves)), RiscvHalves), {<<147, 1>>})),
   {[Plain EXCEPT !.filter = "delta", !.delta = n, !.data = d] :
          n \in {1, 2, 3, 16}, d \in UNION {[1..k -> {0, 1, 255}] : k \in 0..4}}}

SettingConfs ==
  {{[Plain EXCEPT !.method = m, !.level = l, !.rlevel = r, !.enc = e, !.eof = eof, !.hash = h, !.comment = co,
                 !.strategy = l, !.zlevel = 22] :
     m \in {"none", "lzma", "zpaq", "bzip3", "zstd"}, l \in 1..9, r \in {1, 9}, e \in 0..2, eof \in BOOLEAN,
     h \in {1, 13}, co \in {<<>>, <<65, 255>>}},
   {[Plain EXCEPT !.filter = f] : f \in DOMAIN FilterCode \ {"delta"}},
   {[Plain EXCEPT !.filter = "delta", !.delta = DeltaOffset(n)] : n \in 1..31},
   {[Plain EXCEPT !.version = v, !.raw = b] : v \in 7..11, b \in 0..255},
   {[Plain EXCEPT !.version = 12, !.raw = b] : b \in (0..7) \cup {8 * n : n \in 1..31}},
   {[Plain EXCEPT !.version = 13, !.raw = b] : b \in (0..8) \cup 129..159}}

Chunk(cb, cs) == [cb |-> cb, blocks |-> [i \in DOMAIN cs |-> [s |-> cs[i][1], c |-> cs[i][2]]]]

LayoutConfs ==
  {[Plain EXCEPT !.version = v, !.enc = e, !.comment = co, !.chunks = chs] :
     v \in Versions, e \in {0, 1}, co \in {<<>>, <<65, 66, 67>>},
     chs \in {<<a, b>> : a \in {Chunk(cb, x) : cb \in {1, 3}, x \in {<<<<0, 0>>, <<1, 20>>>>, <<<<1, 40>>, <<1, 17>>, <<0, 9>>, <<1, 16>>>>}},
                         b \in {Chunk(2, <<<<0, 5>>, <<1, 0>>>>), Chunk(8, <<<<0, 1>>, <<1, 300>>, <<0, 7>>, <<1, 33>>>>)}}
             \cup {<<Chunk(1, <<<<0, 0>>, <<1, 0>>>>)>>}}

SizeConfs(rams) ==
  {[Plain EXCEPT !.method = m, !.level = l, !.ram = r * MB, !.threads = t, !.processors = p, !.forced = f,
                 !.st_size = s, !.chunk_limit = k, !.stdout = o, !.files = 2] :
     m \in {"lzma", "zpaq", "bzip3"}, l \in {1, 7, 9}, r \in rams, t \in {1, 5}, p \in {4, 8},
     f \in {{}, {7}}, s \in {0, 3 * MB, 3000 * MB}, k \in {2000 * MB, 120 * MB}, o \in BOOLEAN}

MCConfs == FilterConfs \cup SettingConfs \cup {LayoutConfs, SizeConfs({12000, 64000})}

(* Machines with less memory than the back end asks for. *)
MCSmall == {SizeConfs({1000, 3000})}
=============================================================================
