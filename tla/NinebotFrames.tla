---------------------------- MODULE NinebotFrames ----------------------------
(***************************************************************************)
(* ninebot.c: building, serialising and parsing the scooter's frames.      *)
(* A frame is 0x55 0xAA, the length of payload and checksum, direction,    *)
(* type, command, payload, and the checksum, low byte first.               *)
(*                                                                         *)
(* The payload array of a NinebotPack is the sequence of the bytes written *)
(* to it since it was cleared; the others read as zero.                    *)
(***************************************************************************)
EXTENDS Integers, Sequences

NinebotMaxPayload == 56
MastertoM365 == 32
M365toMaster == 35
Ninebotread == 1

Byte == 0..255

(* A pack fresh from calloc. *)
Blank == [len |-> 0, direction |-> 0, RW |-> 0, command |-> 0, data |-> <<>>,
          ck |-> <<0, 0>>]

Data(pack, i) == IF i < Len(pack.data) THEN pack.data[i + 1] ELSE 0

(* What the checksum variable holds after k bytes, and after all of them.  *)
Sums(bytes) ==
  LET sum[k \in 0..Len(bytes)] == IF k = 0 THEN 0 ELSE sum[k - 1] + bytes[k]
  IN  sum

SumOf(bytes) == Sums(bytes)[Len(bytes)]

(* checksum ^ 0xFFFF, low byte first. *)
CheckOf(sum) == LET c == 65535 - sum IN <<c % 256, c \div 256>>

Pack(direction, RW, command, len, payload) ==
  [len |-> len, direction |-> direction, RW |-> RW, command |-> command,
   data |-> payload,
   ck |-> CheckOf(SumOf(<<len, direction, RW, command>> \o payload))]

(* A request: its payload is the number of bytes it asks for. *)
create_request(direction, RW, command, len) ==
  IF len \in 2..NinebotMaxPayload
  THEN [code |-> 0, pack |-> Pack(direction, RW, command, 3, <<len>>)]
  ELSE [code |-> 2, pack |-> [Blank EXCEPT !.len = 3]]

(* The scooter's answer, as the emulator's half of the file builds it: as  *)
(* many bytes of the registers from the command on as were asked for.      *)
slave_answer(m, registers) ==
  LET n == Data(m, 0) \div 2
      low(k)  == registers[k] % 256
      high(k) == registers[k] \div 256
  IN  Pack(M365toMaster, Ninebotread, m.command, Data(m, 0) + 2,
           [i \in 1..(2 * n) |-> IF i % 2 = 1 THEN low((i + 1) \div 2)
                                 ELSE high(i \div 2)])

serialyze(m) ==
  <<85, 170, m.len, m.direction, m.RW, m.command>>
    \o [i \in 1..(m.len - 2) |-> Data(m, i - 1)] \o m.ck

-----------------------------------------------------------------------------
(***************************************************************************)
(* ninebot_parse.  Its static data_index and checksum survive the call: an *)
(* index other than 0 means that a frame was begun and not completed.      *)
(* Codes: 0 complete, 1 incomplete, 2 malformed, 3 too short or bad        *)
(* checksum.                                                               *)
(***************************************************************************)
ParserIdle == [idx |-> 0, sum |-> 0]

Lesser(a, b) == IF a < b THEN a ELSE b

(* What the first call makes of the header. *)
Refusal(d) ==
  IF Len(d) < 9 THEN 3
  ELSE IF d[1] # 85 \/ d[2] # 170 \/ d[3] < 3 THEN 2
  ELSE 0

Opened(d, pack) ==
  [pack EXCEPT !.len = d[3], !.direction = d[4], !.RW = d[5], !.command = d[6]]

Bug_AbsorbedForgetsSum(bytes, p, pack) ==
  LET n == Lesser(Len(bytes), pack.len - p.idx)
      m == Lesser(n, pack.len - 2 - p.idx)
      ck(k) == LET i == pack.len - 2 + k - p.idx
               IN  IF i \in 1..n THEN bytes[i] ELSE pack.ck[k]
  IN  [idx |-> p.idx + n,
       sum |-> (IF p.idx = 0 THEN p.sum ELSE 0) + SumOf(SubSeq(bytes, 1, m)),
       pack |-> [pack EXCEPT !.data = @ \o SubSeq(bytes, 1, m),
                             !.ck = <<ck(1), ck(2)>>]]

(* bytes goes into the pack from position p.idx on, the payload first, then *)
(* the two bytes of the checksum.                                           *)
Absorbed(bytes, p, pack) ==
  LET n == Lesser(Len(bytes), pack.len - p.idx)
      m == Lesser(n, pack.len - 2 - p.idx)
      ck(k) == LET i == pack.len - 2 + k - p.idx
               IN  IF i \in 1..n THEN bytes[i] ELSE pack.ck[k]
  IN  [idx |-> p.idx + n,
       sum |-> p.sum + SumOf(SubSeq(bytes, 1, m)),
       pack |-> [pack EXCEPT !.data = @ \o SubSeq(bytes, 1, m),
                             !.ck = <<ck(1), ck(2)>>]]

Bug_FinishedKeepsIndex(p, pack) ==
  [code |-> IF CheckOf(p.sum) = pack.ck THEN 0 ELSE 3,
   parser |-> [p EXCEPT !.sum = 65535 - @], pack |-> pack]

Bug_FinishedChecksHighByte(p, pack) ==
  [code |-> IF CheckOf(p.sum)[2] = pack.ck[2] THEN 0 ELSE 3,
   parser |-> [idx |-> 0, sum |-> 65535 - p.sum], pack |-> pack]

(* The index reached the length: the checksum decides. *)
Finished(p, pack) ==
  [code |-> IF CheckOf(p.sum) = pack.ck THEN 0 ELSE 3,
   parser |-> [idx |-> 0, sum |-> 65535 - p.sum], pack |-> pack]

Continued(bytes, p, pack) ==
  IF p.idx >= pack.len THEN Finished(p, pack)
  ELSE LET a == Absorbed(bytes, p, pack)
           q == [idx |-> a.idx, sum |-> a.sum]
       IN  IF a.idx < pack.len THEN [code |-> 1, parser |-> q, pack |-> a.pack]
           ELSE Finished(q, a.pack)

parse(d, p, pack) ==
  IF p.idx # 0
  THEN Continued(SubSeq(d, 1, Lesser(Len(d), 20)), p, pack)
  ELSE IF Refusal(d) # 0
  THEN [code |-> Refusal(d), parser |-> ParserIdle, pack |-> pack]
  ELSE Continued(SubSeq(d, 7, Lesser(Len(d), 20)),
                 [idx |-> 0, sum |-> SumOf(SubSeq(d, 3, 6))],
                 Opened(d, pack))
=============================================================================
