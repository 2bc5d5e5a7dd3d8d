----------------------------- MODULE ScooterData -----------------------------
(***************************************************************************)
(* The data half of ninebot_module.c: every notification is parsed into a  *)
(* fresh pack and the pack is shown whatever the parser says of it.  The   *)
(* scooter sends frames, whole or cut in two notifications; the link may   *)
(* end between the two, and a notification may be damaged.                 *)
(***************************************************************************)
EXTENDS NinebotFrames

CONSTANTS
  Registers, \* the register asked for and the one behind it, 16 bits each
  CutAt,     \* where a frame may be cut
  DamageAt,  \* the positions at which a byte may be damaged
  DamagedTo, \* what a damaged byte may become
  MaxFaults  \* bound: frames cut or damaged

MaxWord == 65535
Word == 0..MaxWord

ASSUME DataAssumption ==
  /\ Registers \subseteq Word \X Word
  /\ CutAt \subseteq 1..20
  /\ DamageAt \subseteq 1..20 /\ DamagedTo \subseteq Byte
  /\ MaxFaults \in Nat

VARIABLES
  parser,  \* data_index and checksum of ninebot_parse
  shown,   \* the values of m_ninebot_data, in the register's units
  code,    \* what ninebot_parse returned last
  rest,    \* the second half of a frame whose first half was delivered
  half,    \* history: that frame's pack and what the parser made of it
  faults,  \* history: frames that were cut or damaged
  lost     \* history: undamaged whole frames that were not shown

dataVars == <<parser, shown, code, rest, half, faults, lost>>

M365battREG == 180
M365speedREG == 181
M365kmremainREG == 37
RegisterLEN == 2

(* request_speed and its two siblings. *)
Request(command) ==
  create_request(MastertoM365, Ninebotread, command, RegisterLEN + 2).pack

(* The scooter's answer to a request: the register and the one behind it.  *)
Answer(command, registers) ==
  slave_answer(parse(serialyze(Request(command)), ParserIdle, Blank).pack, registers)

Packs == {Answer(c, r) : c \in {M365battREG, M365speedREG, M365kmremainREG},
                         r \in Registers}

NoHalf == [pack |-> Blank, begun |-> Blank]

Short == -32768..32767

ShownTypeOK == shown \in [batt : Word, speed : Short, dist : Word]

DataTypeOK ==
  /\ parser \in [idx : 0..255, sum : Word]
  /\ ShownTypeOK
  /\ code \in 0..3
  /\ rest \in Seq(Byte)
  /\ faults \in 0..MaxFaults /\ lost \in Nat

DataInit ==
  /\ parser = ParserIdle
  /\ shown = [batt |-> 100, speed |-> 0, dist |-> 0]
  /\ code = 3
  /\ rest = <<>> /\ half = NoHalf
  /\ faults = 0 /\ lost = 0

-----------------------------------------------------------------------------
Bug_Unsigned(pack) == Data(pack, 1) + 256 * Data(pack, 0)

Unsigned(pack) == Data(pack, 0) + 256 * Data(pack, 1)

Bug_Signed(n) == n

(* The conversion to int16_t. *)
Signed(n) == IF n < 32768 THEN n ELSE n - 65536

(* handle_ninebot_pack: the command alone decides. *)
Handled(pack, old) ==
  IF pack.command = M365battREG THEN [old EXCEPT !.batt = Unsigned(pack)]
  ELSE IF pack.command = M365speedREG
  THEN [old EXCEPT !.speed = Signed(Unsigned(pack))]
  ELSE IF pack.command = M365kmremainREG
  THEN [old EXCEPT !.dist = Unsigned(pack)]
  ELSE old

Parsed(d) == parse(d, parser, Blank)

(* ninebot_nus_received_data. *)
Receive(d) ==
  /\ parser' = Parsed(d).parser
  /\ code' = Parsed(d).code
  /\ shown' = Handled(Parsed(d).pack, shown)

-----------------------------------------------------------------------------
(* The scooter (external). *)
Whole(pack) ==
  /\ rest = <<>>
  /\ Receive(serialyze(pack))
  /\ lost' = IF Parsed(serialyze(pack)).code = 0 THEN lost ELSE lost + 1
  /\ UNCHANGED <<rest, half, faults>>

FirstHalf(pack, k) ==
  /\ rest = <<>> /\ faults < MaxFaults
  /\ k < Len(serialyze(pack))
  /\ Receive(SubSeq(serialyze(pack), 1, k))
  /\ rest' = SubSeq(serialyze(pack), k + 1, Len(serialyze(pack)))
  /\ half' = [pack |-> pack,
               begun |-> Parsed(SubSeq(serialyze(pack), 1, k)).pack]
  /\ faults' = faults + 1
  /\ UNCHANGED lost

SecondHalf ==
  /\ rest # <<>>
  /\ Receive(rest)
  /\ rest' = <<>> /\ half' = NoHalf
  /\ UNCHANGED <<faults, lost>>

(* The link ends; neither the parser nor the values are reset. *)
LinkLost ==
  /\ rest # <<>>
  /\ rest' = <<>> /\ half' = NoHalf
  /\ UNCHANGED <<parser, shown, code, faults, lost>>

(* Byte i of a frame arrives as b. *)
Damaged(pack, i, b) ==
  /\ rest = <<>> /\ faults < MaxFaults
  /\ i <= Len(serialyze(pack)) /\ serialyze(pack)[i] # b
  /\ Receive([serialyze(pack) EXCEPT ![i] = b])
  /\ faults' = faults + 1
  /\ UNCHANGED <<rest, half, lost>>

DataNext ==
  \/ \E pack \in Packs : Whole(pack)
  \/ \E pack \in Packs, k \in CutAt : FirstHalf(pack, k)
  \/ SecondHalf
  \/ LinkLost
  \/ \E pack \in Packs, i \in DamageAt, b \in DamagedTo : Damaged(pack, i, b)

DataSpec == DataInit /\ [][DataNext]_dataVars

-----------------------------------------------------------------------------
(* A frame cut in two or damaged costs at most one whole frame: after an   *)
(* incomplete notification the parser throws the next one away and is in   *)
(* step again, also when the link was lost in between.                     *)
OneLossPerFault == lost + (IF parser.idx = 0 THEN 0 ELSE 1) <= faults

(* What the parser accepts is an undamaged whole frame, or one whose length *)
(* byte arrived smaller: the length says where the checksum is and is part *)
(* of its sum (ninebot.c:54-69), so that the payload's next bytes may pass *)
(* for it.  Of no other byte does a change go unnoticed, and a frame that  *)
(* was cut is never accepted.  A length of 4 or 5 leaves the value asked   *)
(* for in the payload, and it is shown as it was sent; of a frame of 3     *)
(* only the low byte is shown.                                             *)
AcceptedIsGenuine ==
  [][code' = 0 =>
       \E pack \in Packs :
         \/ Whole(pack)
         \/ \E b \in 3..5 :
              /\ Damaged(pack, 3, b)
              /\ b >= 4 => shown' = Handled(pack, shown)]_dataVars

(* A whole frame that meets an idle parser is accepted and its value       *)
(* shown, the speed with its sign.                                         *)
WholeIsShown ==
  [][\A r \in Registers :
       /\ parser.idx = 0 /\ Whole(Answer(M365speedREG, r)) =>
            /\ code' = 0
            /\ (shown'.speed - r[1]) % 65536 = 0
            /\ shown'.speed \in -32768..32767
       /\ parser.idx = 0 /\ Whole(Answer(M365battREG, r)) =>
            code' = 0 /\ shown'.batt = r[1]]_dataVars

(* The parser itself could join the halves (ninebot.c:56 "mensaje          *)
(* incompleto, espera nuevo"), were it given the pack it has begun to      *)
(* fill; what Receive gives it is a fresh one.                             *)
HalvesWouldJoin ==
  rest # <<>> /\ parser.idx # 0 =>
    /\ parse(rest, parser, half.begun).code = 0
    /\ parse(rest, parser, half.begun).pack = half.pack

-----------------------------------------------------------------------------
(* Refuted by a run.                                                       *)

(* resources/protocolo.txt:42 "ck0, ck1 checksum of the bytes from l until *)
(* the data ends": a value is shown only from a frame that checked.        *)
OnlyCheckedValues == [][shown' # shown => code' = 0]_dataVars
=============================================================================
