------------------------------ MODULE Programs ------------------------------
(***************************************************************************)
(* Programs that are written to a stream and loaded from one (uimpl.c,     *)
(* uprog.c).  A stream is a sequence of bytes; the one that writes may     *)
(* fail, the one that reads sees the end.                                  *)
(*                                                                         *)
(* An interpreter is built for a machine: [endianness, size, int, address] *)
(* are numbers in the header, gamma the bytes of a constant of type        *)
(* Unc_Float, by which its formats are told apart.  A program is           *)
(* [version, code, main, data].                                            *)
(***************************************************************************)
EXTENDS Integers, SequencesExt

Magic == <<139, 85, 110, 99>>
ProgramVersion == 1
CharBit == 8
Reserved == 12

Padding(m) == (4 - (Len(m.gamma) % 4)) % 4

(* unc0_streamwritez: the lowest byte first, whatever the machine. *)
Low(v, n) == [i \in 1..n |-> (v \div 256^(i - 1)) % 256]
Zeros(n) == [i \in 1..n |-> 0]

Header(m, version) ==
  Magic \o Low(version, 4) \o Low(CharBit, 2) \o Low(m.endianness, 2)
  \o Low(m.size, 4) \o Low(m.int, 4) \o Low(Len(m.gamma), 4)
  \o m.gamma \o Zeros(Padding(m) + Reserved)
Size8(v) == Low(v, 4) \o Zeros(4)

(* unc_dumpstream.  Nothing more is written after a byte that fails, but the *)
(* caller is told that all is well.                                          *)
DumpStream(m, p, room) ==
  LET all == Header(m, p.version) \o Size8(m.address) \o Size8(Len(p.code)) \o Size8(p.main)
             \o Size8(Len(p.data)) \o p.code \o p.data
  IN [stream |-> IF Len(all) <= room THEN all ELSE SubSeq(all, 1, room), ok |-> TRUE]

-----------------------------------------------------------------------------
(* unc0_streamreadc, unc0_streamreadz: n bytes, or none; a number, of which  *)
(* all that are too large to matter are one.                                 *)
Cut(s, p, n) == p + n > Len(s)
Bytes(s, p, n) == SubSeq(s, p + 1, p + n)
Huge == 2^30
Value(bytes) == FoldRight(LAMBDA x, v : IF v < 2^22 THEN v * 256 + x ELSE Huge, bytes, 0)

Refused(why, freed) == [ok |-> FALSE, why |-> why, freed |-> freed]

(* unc_loadstream: what must be the same, in the order in which it is read:  *)
(* where it is, and its bytes.                                               *)
Expected(m) ==
  LET floats == 24 + Len(m.gamma) + Padding(m) + Reserved
  IN <<<<0, Magic>>, <<8, Low(CharBit, 2)>>, <<10, Low(m.endianness, 2)>>, <<12, Low(m.size, 4)>>,
       <<16, Low(m.int, 4)>>, <<20, Low(Len(m.gamma), 4)>>, <<24, m.gamma>>,
       <<floats, Size8(m.address)>>>>
HeaderEnd(m) == 24 + Len(m.gamma) + Padding(m) + Reserved + 32

(* unc0_upgradeprogram *)
Upgradable(version) == version = ProgramVersion

(* No memory is given for nothing.  Once the blocks for code and data belong *)
(* to the program, they are freed with it and on their own when it is        *)
(* refused.                                                                  *)
LoadStream(m, s) ==
  LET wrong == {i \in DOMAIN Expected(m) :
                  LET e == Expected(m)[i] IN ~ Cut(s, e[1], Len(e[2])) /\ Bytes(s, e[1], Len(e[2])) # e[2]}
      end == HeaderEnd(m)
      code == Value(Bytes(s, end - 24, 8))
      main == Value(Bytes(s, end - 16, 8))
      data == Value(Bytes(s, end - 8, 8))
      version == Value(Bytes(s, 4, 4))
      Twice == <<"data", "code", "code", "data">>
  IN IF wrong # {} THEN Refused("incompatible", <<>>)
     ELSE IF Cut(s, 0, end) THEN Refused("end of stream", <<>>)
     ELSE IF code = 0 THEN Refused("memory", <<>>)
     ELSE IF data = 0 THEN Refused("memory", <<"code">>)
     ELSE IF Cut(s, end, code + data) THEN Refused("end of stream", Twice)
     ELSE IF ~ Upgradable(version) THEN Refused("incompatible", Twice)
     ELSE [ok |-> TRUE, program |->
             [version |-> version, code |-> Bytes(s, end, code), main |-> main,
              data |-> Bytes(s, end + code, data)]]

(* unc_loadfileauto: whether a file is taken for a program that has been     *)
(* written, and not for a source.                                            *)
TakenForProgram(s) == s # <<>> /\ s[1] \in 128..191
=============================================================================
