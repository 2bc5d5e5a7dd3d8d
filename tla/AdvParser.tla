------------------------------ MODULE AdvParser ------------------------------
(***************************************************************************)
(* Which devices the central connects to: is_uuid_present of ble_module.c  *)
(* goes over an advertising report from field to field and looks for the   *)
(* NUS.  What it finds is connected, and DbDiscovery walks its table.      *)
(*                                                                         *)
(* A field is its type and its body; in the report the length of the two   *)
(* stands before them.  Type 0 without a body is a padding byte.           *)
(***************************************************************************)
EXTENDS DbDiscovery

CONSTANT Adverts \* the reports each peer may send: sequences of fields

Padding == [type |-> 0, body |-> <<>>]

\* BLE_UUID_NUS_SERVICE in NUS_BASE_UUID
NusUuid == <<158, 202, 220, 36, 14, 229, 169, 224, 147, 243, 163, 181, 1, 0, 64, 110>>

UuidTypes128 == {6, 7}

Octet == 0..255

(* What goes into a report: any field, but one that lists 128-bit UUIDs    *)
(* has room for none or for one.                                           *)
Field ==
  {f \in [type : Octet, body : Seq(Octet)] :
     f.type \in UuidTypes128 => Len(f.body) \in {0, 16}}

Encoded(field) ==
  IF field = Padding THEN <<0>>
  ELSE <<Len(field.body) + 1, field.type>> \o field.body

(* The bytes of the first k fields of a report, and of all of them.        *)
Bytes(report) ==
  LET first[k \in 0..Len(report)] ==
        IF k = 0 THEN <<>> ELSE first[k - 1] \o Encoded(report[k])
  IN  first

DataOf(report) == Bytes(report)[Len(report)]

(* Reports fit their buffer, and none ends in padding at its last byte.    *)
ASSUME AdvertsAssumption ==
  \A p \in Peers : \A r \in Adverts[p] :
    /\ r \in Seq(Field)
    /\ Len(DataOf(r)) \in 1..31
    /\ Len(DataOf(r)) = 31 => r[Len(r)] # Padding

VARIABLES
  sender, \* the peer whose report is being read, or NoPeer
  data,   \* p_adv_report->data, from index 0 on
  fields, \* history: what the sender has put into it
  index,  \* index of is_uuid_present
  found   \* it returns true

advVars == <<sender, data, fields, index, found>>

AdvInit ==
  /\ DiscInit
  /\ sender = NoPeer /\ data = <<>> /\ fields = <<>> /\ index = 0 /\ found = FALSE

ByteAt(i) == IF i < Len(data) THEN data[i + 1] ELSE 0

(* A report comes in while the central scans. *)
Hear(p, r) ==
  /\ peer = NoPeer /\ sender = NoPeer /\ links < MaxLinks
  /\ sender' = p /\ fields' = r /\ data' = DataOf(r)
  /\ index' = 0 /\ found' = FALSE
  /\ UNCHANGED discVars

Bug_NextField(i) == i + ByteAt(i)

NextField(i) == i + ByteAt(i) + 1

(* sd_ble_uuid_decode knows the NUS by its 16 bytes; what it makes of a    *)
(* shorter UUID is of another type than the NUS has.                       *)
NusAt(i) ==
  /\ ByteAt(i + 1) \in UuidTypes128
  /\ \A k \in 1..16 : ByteAt(i + 1 + k) = NusUuid[k]

(* One turn of the loop. *)
ReadField ==
  /\ sender # NoPeer /\ index < Len(data) /\ ~found
  /\ found' = NusAt(index)
  /\ index' = IF NusAt(index) THEN index ELSE NextField(index)
  /\ UNCHANGED <<discVars, sender, data, fields>>

Done == sender # NoPeer /\ (found \/ index >= Len(data))

(* sd_ble_gap_connect and the event that the link is made, or the wait for *)
(* the next report.                                                        *)
Answered ==
  /\ Done
  /\ IF found THEN Connect(sender) ELSE UNCHANGED discVars
  /\ sender' = NoPeer /\ data' = <<>> /\ fields' = <<>> /\ index' = 0 /\ found' = FALSE

Linked == (Response \/ Disconnect) /\ UNCHANGED advVars

AdvNext ==
  \/ \E p \in Peers : \E r \in Adverts[p] : Hear(p, r)
  \/ ReadField \/ Answered \/ Linked

(* The SoftDevice answers every request unless the link goes down; 30 s    *)
(* without an answer are a GATTC timeout, at which ble_module.c            *)
(* disconnects.                                                            *)
AdvSpec == AdvInit /\ [][AdvNext]_<<discVars, advVars>> /\ WF_discVars(Response)

-----------------------------------------------------------------------------
(* The report of a device that offers the NUS is recognised wherever in it *)
(* the UUID stands, and no other: the loop stays in step with the fields   *)
(* and does not take the inside of one for another.                        *)
RecognisesNus ==
  Done => (found <=> \E k \in DOMAIN fields :
                        fields[k].type \in UuidTypes128 /\ fields[k].body = NusUuid)
=============================================================================
