----------------------------- MODULE DbDiscovery -----------------------------
(***************************************************************************)
(* ble_db_discovery.c with its one registered service, the NUS, and the    *)
(* handles ble_nus_c.c takes from the result.  On every link the walk goes *)
(* over the characteristics of the service and then over the descriptors   *)
(* of each; its record of the service, m_ble_db_discovery.services[0],     *)
(* outlives the link.                                                      *)
(*                                                                         *)
(* A characteristic is a record of its UUID, the handles of its            *)
(* declaration, value and CCCD; handle 0 stands for none.  The declaration *)
(* of the service is the attribute before its first characteristic.        *)
(***************************************************************************)
EXTENDS Integers, Sequences

CONSTANTS
  Peers,    \* the NUS of each scooter: its characteristics and last handle
  MaxChars, \* BLE_GATT_DB_MAX_CHARS
  MaxLinks  \* bound: links made

MaxHandle == 65535
Handle == 0..MaxHandle

Characteristic ==
  [uuid : {"none", "tx", "rx", "other"}, decl : Handle, value : Handle, cccd : Handle]

NoChar == [uuid |-> "none", decl |-> 0, value |-> 0, cccd |-> 0]
NoPeer == [chars |-> <<>>, end |-> 0]

(* Characteristics stand in the order of their handles, each followed by   *)
(* its value, and that by its CCCD, if any.                                *)
WellFormed(p) ==
  /\ p.chars \in Seq(Characteristic) /\ p.end \in Handle
  /\ \A i \in DOMAIN p.chars :
       LET c == p.chars[i]
       IN  /\ c.uuid # "none"
           /\ c.decl > 1 /\ c.value = c.decl + 1
           /\ c.cccd \in {0, c.value + 1}
           /\ c.value <= p.end /\ c.cccd <= p.end
           /\ \A j \in 1..(i - 1) : p.chars[j].value < c.decl
                                    /\ p.chars[j].cccd < c.decl

(* A NUS has one characteristic to write to and one that notifies, and     *)
(* fits into the record.                                                   *)
IsNus(p) ==
  /\ Len(p.chars) <= MaxChars
  /\ \A u \in {"tx", "rx"} : \E i \in DOMAIN p.chars :
       \A j \in DOMAIN p.chars : p.chars[j].uuid = u <=> j = i

ASSUME DiscoveryAssumption ==
  /\ MaxChars \in Nat \ {0} /\ MaxLinks \in Nat
  /\ NoPeer \notin Peers
  /\ \A p \in Peers : WellFormed(p) /\ (p.chars # <<>> => IsNus(p))

VARIABLES
  peer,       \* the peer at the other end, or NoPeer
  request,    \* the procedure the SoftDevice is carrying out
  inProgress, \* discovery_in_progress
  end,        \* services[0].handle_range.end_handle
  charCount,  \* services[0].char_count
  chars,      \* services[0].charateristics
  ind,        \* curr_char_ind
  handles,    \* what the NUS client was given on this link
  links,      \* history: links made so far
  read,       \* history: characteristics read over all links
  met,        \* history: the scooters whose service was found
  cut         \* history: some link went down before its walk was over

record  == <<end, charCount, chars, ind>>
history == <<links, read, met, cut>>

discVars == <<peer, request, inProgress, handles, record, history>>

NoRequest == [kind |-> "none", first |-> 0, last |-> 0]
NoHandles == [tx |-> 0, rx |-> 0, cccd |-> 0, known |-> FALSE]

(***************************************************************************)
(* The record stays within its array, and the flag that makes              *)
(* ble_db_discovery_start answer NRF_ERROR_BUSY (a halt, in ble_module.c)  *)
(* is up exactly while the SoftDevice carries out a request of the walk.   *)
(***************************************************************************)
DiscTypeOK ==
  /\ peer \in Peers \cup {NoPeer}
  /\ request.kind \in {"none", "prim", "char", "desc"}
  /\ request.first \in Handle /\ request.last \in Handle
  /\ inProgress = (request.kind # "none")
  /\ inProgress => peer # NoPeer
  /\ end \in Handle
  /\ charCount \in 0..MaxChars
  /\ chars \in [0..(MaxChars - 1) -> Characteristic]
  /\ ind \in 0..MaxChars
  /\ links \in 0..MaxLinks /\ read \in Nat
  /\ met \subseteq Peers /\ cut \in BOOLEAN

DiscInit ==
  /\ peer = NoPeer /\ request = NoRequest
  /\ inProgress = FALSE
  /\ end = 0 /\ charCount = 0 /\ ind = 0
  /\ chars = [i \in 0..(MaxChars - 1) |-> NoChar]
  /\ handles = NoHandles
  /\ links = 0 /\ read = 0 /\ met = {} /\ cut = FALSE

-----------------------------------------------------------------------------
(***************************************************************************)
(* The peer's attribute table (external).  A response carries as many      *)
(* attributes as fit and have UUIDs of the same width: one characteristic  *)
(* with a UUID of 128 bits; the descriptors up to the next such value.     *)
(***************************************************************************)
CharsIn(first, last) ==
  {i \in DOMAIN peer.chars : peer.chars[i].decl \in first..last}

LowestOf(S) == CHOOSE i \in S : \A j \in S : i <= j

(* The CCCDs a descriptor response lists: those before the next value.  A  *)
(* peer answers a request from handle 0 on with an error.                  *)
Listed(first, last) ==
  {peer.chars[i].cccd : i \in {j \in DOMAIN peer.chars :
      /\ first > 0
      /\ peer.chars[j].cccd \in first..last
      /\ \A k \in DOMAIN peer.chars :
           peer.chars[k].value \in first..last =>
             peer.chars[j].cccd < peer.chars[k].value}}

-----------------------------------------------------------------------------
Ask(kind, first, last) == [kind |-> kind, first |-> first, last |-> last]

(* The handle behind h, in 16 bits. *)
Behind(h) == (h + 1) % (MaxHandle + 1)

(* characteristics_discover, after n characteristics are known. *)
CharRequest(cs, n, e) == Ask("char", Behind(cs[n - 1].value), e)

(* descriptors_discover: the first characteristic from k on, of n, behind  *)
(* which there is room for a descriptor ...                                *)
Bug_GapShort(cs, n, e, i) ==
  IF i = n - 1 THEN [first |-> Behind(cs[i].value), last |-> e - 1]
  ELSE [first |-> Behind(cs[i].value), last |-> cs[i + 1].decl - 1]

Gap(cs, n, e, i) ==
  IF i = n - 1 THEN [first |-> Behind(cs[i].value), last |-> e]
  ELSE [first |-> Behind(cs[i].value), last |-> cs[i + 1].decl - 1]

HasRoomBehind(cs, n, e, i) ==
  IF i = n - 1 THEN cs[i].value # e ELSE cs[i].value + 1 # cs[i + 1].decl

Candidates(cs, n, e, k) == {i \in k..(n - 1) : HasRoomBehind(cs, n, e, i)}

(* ... becomes the current one; without any the walk is complete. *)
NextInd(cs, n, e, k) ==
  LET S == Candidates(cs, n, e, k)
  IN  IF S # {} THEN LowestOf(S) ELSE IF k + 1 = n THEN k ELSE n

Complete(cs, n, e, k) == Candidates(cs, n, e, k) = {}

DescRequest(cs, n, e, k) ==
  LET g == Gap(cs, n, e, LowestOf(Candidates(cs, n, e, k)))
  IN  Ask("desc", g.first, g.last)

(* ble_nus_c_on_db_disc_evt: the last of several characteristics with the  *)
(* same UUID counts.                                                       *)
LastOf(cs, n, u) ==
  LET S == {i \in 0..(n - 1) : cs[i].uuid = u}
  IN  IF S = {} THEN NoChar ELSE cs[CHOOSE i \in S : \A j \in S : j <= i]

Handed(cs, n) ==
  [tx |-> LastOf(cs, n, "tx").value, rx |-> LastOf(cs, n, "rx").value,
   cccd |-> LastOf(cs, n, "rx").cccd, known |-> TRUE]

(* The walk goes on with the descriptors from index k on, or is complete. *)
WalkDescriptors(cs, n, e, k) ==
  /\ ind' = NextInd(cs, n, e, k)
  /\ IF Complete(cs, n, e, k)
     THEN request' = NoRequest /\ handles' = Handed(cs, n) /\ inProgress' = FALSE
     ELSE request' = DescRequest(cs, n, e, k) /\ UNCHANGED <<handles, inProgress>>

-----------------------------------------------------------------------------
(* A link is made and ble_db_discovery_start called. *)
Start(p) ==
  /\ peer = NoPeer /\ ~inProgress /\ links < MaxLinks
  /\ peer' = p /\ links' = links + 1
  /\ request' = Ask("prim", 1, MaxHandle)
  /\ inProgress' = TRUE
  /\ handles' = NoHandles
  /\ UNCHANGED <<end, charCount, chars, read, met, cut>>

Bug_StartKeepsInd(p) == Start(p) /\ UNCHANGED ind

Connect(p) == Start(p) /\ ind' = 0

(* on_primary_srv_discovery_rsp, the service found. *)
OnPrim ==
  /\ request.kind = "prim" /\ peer.chars # <<>>
  /\ end' = peer.end
  /\ request' = IF ind = 0 THEN Ask("char", peer.chars[1].decl - 1, peer.end)
                ELSE CharRequest(chars, ind, peer.end)
  /\ met' = met \cup {peer}
  /\ UNCHANGED <<peer, inProgress, charCount, chars, ind, handles, links, read,
                 cut>>

(* The peer has no NUS: the walk ends, and the NUS client is not told. *)
OnPrimNone ==
  /\ request.kind = "prim" /\ peer.chars = <<>>
  /\ request' = NoRequest
  /\ inProgress' = FALSE
  /\ UNCHANGED <<peer, record, handles, history>>

(* on_characteristic_discovery_rsp with one characteristic ... *)
Stored(c) ==
  IF charCount < MaxChars THEN [chars EXCEPT ![charCount] = c] ELSE chars

CountWithOne == IF charCount < MaxChars THEN charCount + 1 ELSE MaxChars

OnChar ==
  /\ request.kind = "char" /\ CharsIn(request.first, request.last) # {}
  /\ LET c == peer.chars[LowestOf(CharsIn(request.first, request.last))]
         cs == Stored([c EXCEPT !.cccd = 0])
         n == CountWithOne
     IN  /\ chars' = cs /\ charCount' = n
         /\ IF cs[n - 1].value < end /\ n < MaxChars
            THEN /\ ind' = n
                 /\ request' = CharRequest(cs, n, end)
                 /\ UNCHANGED <<inProgress, handles>>
            ELSE WalkDescriptors(cs, n, end, 0)
  /\ read' = read + 1
  /\ UNCHANGED <<peer, end, links, met, cut>>

(* ... or with none. *)
OnCharNone ==
  /\ request.kind = "char" /\ CharsIn(request.first, request.last) = {}
  /\ WalkDescriptors(chars, charCount, end, 0)
  /\ UNCHANGED <<peer, end, chars, charCount, history>>

(* on_descriptor_discovery_rsp; the range may be empty or inverted, and    *)
(* the peer then answers with an error.                                    *)
WithCccd(first, last) ==
  LET S == Listed(first, last)
  IN  IF S = {} THEN chars
      ELSE [chars EXCEPT ![ind].cccd = CHOOSE h \in S : \A g \in S : g <= h]

DescAnswered(next) ==
  /\ request.kind = "desc"
  /\ LET cs == WithCccd(request.first, request.last)
     IN  /\ chars' = cs
         /\ IF ind + 1 = charCount
            THEN /\ request' = NoRequest /\ inProgress' = FALSE
                 /\ handles' = Handed(cs, charCount)
                 /\ UNCHANGED ind
            ELSE WalkDescriptors(cs, charCount, end, next)
  /\ UNCHANGED <<peer, end, charCount, history>>

Bug_DescStays == DescAnswered(ind)

OnDesc == DescAnswered(ind + 1)

(* The link goes down; on_disconnected. *)
LinkDown ==
  /\ peer # NoPeer
  /\ peer' = NoPeer /\ request' = NoRequest
  /\ handles' = NoHandles
  /\ cut' = (cut \/ inProgress)
  /\ UNCHANGED <<record, links, read, met>>

Bug_DownKeepsFlag == LinkDown /\ UNCHANGED inProgress

Disconnect == LinkDown /\ inProgress' = FALSE

Response == OnPrim \/ OnPrimNone \/ OnChar \/ OnCharNone \/ OnDesc

DiscNext == (\E p \in Peers : Connect(p)) \/ Response \/ Disconnect

DiscSpec == DiscInit /\ [][DiscNext]_discVars

-----------------------------------------------------------------------------
Own(u) ==
  LET S == {i \in DOMAIN peer.chars : peer.chars[i].uuid = u}
  IN  IF S = {} THEN NoChar ELSE peer.chars[CHOOSE i \in S : TRUE]

(***************************************************************************)
(* What ble_nus_c_on_db_disc_evt is given are the handles of the scooter   *)
(* at the other end, whatever links went before: what ble_db_discovery.h   *)
(* promises ("can also be used to discover the desired services in         *)
(* multiple remote devices") for a structure that is, as it asks, zero-    *)
(* initialized.  ble_module.c passes the same structure on every link and  *)
(* nothing resets services[0].char_count, so this does not hold.           *)
(***************************************************************************)
HandlesBelongToPeer ==
  handles.known =>
    /\ handles.tx = Own("tx").value
    /\ handles.rx = Own("rx").value
    /\ handles.cccd = Own("rx").cccd

(***************************************************************************)
(* As long as the characteristics read over all links leave room in the    *)
(* record, leftovers do no harm, those of links lost during a walk         *)
(* included: the last entry of a UUID counts, and that is the one read on  *)
(* this link, with the CCCD found on this link.                            *)
(***************************************************************************)
RightWhileItFits == read < MaxChars => HandlesBelongToPeer

(***************************************************************************)
(* With one scooter and no link lost during a walk the client is given the *)
(* right handles on every link, also after the record is full and what is  *)
(* handed over was read on an earlier link.                                *)
(***************************************************************************)
SameScooterStaysRight ==
  (\A p, q \in met : p = q) /\ ~cut => HandlesBelongToPeer

(***************************************************************************)
(* Every walk comes to an end, also over a record full of leftovers whose  *)
(* handle ranges make no sense for this peer.                              *)
(***************************************************************************)
WalkEnds == inProgress ~> ~inProgress
=============================================================================
