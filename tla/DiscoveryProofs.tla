--------------------------- MODULE DiscoveryProofs ---------------------------
(***************************************************************************)
(* What ble_db_discovery.c finds out, for scooters of any kind, a record   *)
(* of any size and any number of links: the walk stays within its record   *)
(* and within 16 bits, and the NUS client is given the right handles as    *)
(* long as the record has room, or with a single scooter.  And in front of *)
(* it the parser of advertising reports, for any reports: it recognises    *)
(* the NUS, and leaves the walk as it was.                                 *)
(***************************************************************************)
EXTENDS AdvParser, NaturalSets, SequenceTheorems

-----------------------------------------------------------------------------
(***************************************************************************)
(* The inductive invariant.                                                *)
(***************************************************************************)
(* What a phase of the walk has behind it. *)
PhaseInv ==
  /\ request.kind = "prim" => ind = 0
  /\ request.kind \in {"char", "desc"} =>
       peer \in met /\ peer.chars # <<>> /\ end = peer.end
  /\ request.kind = "desc" => ind < charCount
  /\ handles.known => /\ request.kind = "none"
                      /\ peer \in met /\ peer.chars # <<>>
                      /\ handles = Handed(chars, charCount)
  /\ met = {} => read = 0
  /\ charCount = IF read < MaxChars THEN read ELSE MaxChars
  /\ \A i \in 0..(charCount - 1) : chars[i].decl > 1

Copies(c, d) == c.uuid = d.uuid /\ c.decl = d.decl /\ c.value = d.value

(* The entry for d once its descriptors were looked for. *)
Finished(c, d) == Copies(c, d) /\ c.cccd = d.cccd

(* The entry for d before that. *)
Begun(c, d) == Copies(c, d) /\ c.cccd = 0

(* The characteristics of this link stand in the record from position b    *)
(* on, in the order of the peer's table; those before the k-th entry are   *)
(* finished.                                                               *)
ReadHere(cs, n, b, k) ==
  /\ n - b <= Len(peer.chars)
  /\ \A i \in b..(n - 1) :
       IF i < k THEN Finished(cs[i], peer.chars[i - b + 1])
       ELSE Begun(cs[i], peer.chars[i - b + 1])

(* Either all of the peer's characteristics were read, or the record is    *)
(* full.                                                                   *)
AllRead(b) == charCount - b = Len(peer.chars) \/ charCount = MaxChars

(* The next request asks for what lies behind the characteristics read.    *)
AsksBehind(k) ==
  /\ request.last = peer.end
  /\ \A j \in DOMAIN peer.chars :
       IF j <= k THEN peer.chars[j].decl < request.first
       ELSE peer.chars[j].decl >= request.first

AsksGap ==
  /\ HasRoomBehind(chars, charCount, end, ind)
  /\ request.first = Gap(chars, charCount, end, ind).first
  /\ request.last = Gap(chars, charCount, end, ind).last

OwnPart(b) ==
  /\ request.kind = "char" => ReadHere(chars, charCount, b, 0) /\ AsksBehind(charCount - b)
  /\ request.kind = "desc" => ReadHere(chars, charCount, b, ind) /\ AllRead(b) /\ AsksGap
  /\ handles.known => ReadHere(chars, charCount, b, charCount) /\ AllRead(b)
  /\ request.kind \in {"none", "prim"} /\ ~handles.known => b = charCount

(* With one scooter and no walk cut short, what earlier links left is      *)
(* finished, and begins with all of the scooter's characteristics.         *)
OneScooter == (\A p, q \in met : p = q) /\ ~cut

Leftovers(b) ==
  \A p \in met :
    /\ \A i \in 0..(b - 1) : \E k \in DOMAIN p.chars : Finished(chars[i], p.chars[k])
    /\ b > 0 => /\ Len(p.chars) <= b
                /\ \A k \in DOMAIN p.chars : Copies(chars[k - 1], p.chars[k])

RecordInv ==
  \E b \in 0..charCount : OwnPart(b) /\ (OneScooter => Leftovers(b))

DiscInv == DiscTypeOK /\ PhaseInv /\ RecordInv

-----------------------------------------------------------------------------
(***************************************************************************)
(* Handles.                                                                *)
(***************************************************************************)
LEMMA HandleFacts ==
  /\ MaxHandle \in Nat /\ MaxHandle > 1
  /\ \A h : h \in Handle <=> h \in Int /\ 0 <= h /\ h <= MaxHandle
<1>1. MaxHandle \in Nat /\ MaxHandle > 1
  BY DEF MaxHandle
<1> HIDE DEF MaxHandle
<1> QED
  BY <1>1 DEF Handle

LEMMA BehindFacts ==
  ASSUME NEW h \in Handle
  PROVE  /\ Behind(h) \in Handle
         /\ h < MaxHandle => Behind(h) = h + 1
         /\ h = MaxHandle => Behind(h) = 0
<1>1. h \in Int /\ 0 <= h /\ h <= MaxHandle
  BY HandleFacts
<1>2. MaxHandle = 65535
  BY DEF MaxHandle
<1>3. Behind(h) = (h + 1) % 65536
  BY <1>2 DEF Behind
<1> HIDE DEF MaxHandle
<1>4. CASE h < 65535
  <2>1. Behind(h) = h + 1
    BY <1>1, <1>3, <1>4
  <2> QED
    BY <1>1, <1>2, <1>4, <2>1, HandleFacts
<1>5. CASE h = 65535
  <2>1. Behind(h) = 0
    BY <1>3, <1>5
  <2> QED
    BY <1>2, <1>5, <2>1, HandleFacts
<1> QED
  BY <1>1, <1>2, <1>4, <1>5

LEMMA LowestFacts ==
  ASSUME NEW S \in SUBSET Nat, S # {}
  PROVE  LowestOf(S) \in S /\ \A j \in S : LowestOf(S) <= j
BY MinExists DEF LowestOf

-----------------------------------------------------------------------------
(***************************************************************************)
(* The peer's table.                                                       *)
(***************************************************************************)
LEMMA PeerFacts ==
  ASSUME peer \in Peers
  PROVE  /\ peer # NoPeer /\ peer.end \in Handle
         /\ Len(peer.chars) \in Nat /\ DOMAIN peer.chars = 1..Len(peer.chars)
         /\ \A i \in 1..Len(peer.chars) :
              /\ peer.chars[i] \in Characteristic
              /\ peer.chars[i].decl > 1 /\ peer.chars[i].value = peer.chars[i].decl + 1
              /\ peer.chars[i].cccd \in {0, peer.chars[i].value + 1}
              /\ peer.chars[i].value <= peer.end /\ peer.chars[i].cccd <= peer.end
              /\ \A j \in 1..Len(peer.chars) : j < i =>
                   /\ peer.chars[j].value < peer.chars[i].decl
                   /\ peer.chars[j].cccd < peer.chars[i].decl
<1>1. WellFormed(peer) /\ peer # NoPeer
  BY DiscoveryAssumption
<1>2. peer.chars \in Seq(Characteristic)
  BY <1>1 DEF WellFormed
<1>3. Len(peer.chars) \in Nat /\ DOMAIN peer.chars = 1..Len(peer.chars)
  BY <1>2
<1>4. \A i \in 1..Len(peer.chars) : peer.chars[i] \in Characteristic
  BY <1>2, <1>3
<1> QED
  BY <1>1, <1>3, <1>4 DEF WellFormed

LEMMA CharacteristicFacts ==
  ASSUME NEW c \in Characteristic
  PROVE  c.decl \in Handle /\ c.value \in Handle /\ c.cccd \in Handle
BY DEF Characteristic

(* A descriptor response names one CCCD at most ... *)
LEMMA ListedOne ==
  ASSUME peer \in Peers, NEW first \in Int, NEW last \in Int
  PROVE  /\ Listed(first, last) \in SUBSET Handle
         /\ \A g, h \in Listed(first, last) : g = h
<1>1. \A i \in 1..Len(peer.chars) :
        /\ peer.chars[i].value \in Int /\ peer.chars[i].cccd \in Int
        /\ peer.chars[i].decl \in Int /\ peer.chars[i].cccd \in Handle
  BY PeerFacts, CharacteristicFacts, HandleFacts
<1>2. ASSUME NEW i \in 1..Len(peer.chars), NEW j \in 1..Len(peer.chars), i < j,
             first > 0,
             peer.chars[i].cccd \in first..last, peer.chars[j].cccd \in first..last,
             \A k \in 1..Len(peer.chars) :
               peer.chars[k].value \in first..last => peer.chars[j].cccd < peer.chars[k].value
      PROVE  FALSE
  <2>1. peer.chars[i].cccd < peer.chars[j].decl /\ peer.chars[j].value = peer.chars[j].decl + 1
    BY <1>2, PeerFacts
  <2>2. peer.chars[j].cccd \in {0, peer.chars[j].value + 1}
    BY PeerFacts
  <2>3. /\ peer.chars[i].cccd \in Int /\ peer.chars[j].cccd \in Int
        /\ peer.chars[j].value \in Int /\ peer.chars[j].decl \in Int
    BY <1>1
  <2>4. /\ first > 0 /\ first <= peer.chars[i].cccd
        /\ first <= peer.chars[j].cccd /\ peer.chars[j].cccd <= last
    BY <1>2
  <2>5. peer.chars[j].cccd = peer.chars[j].value + 1
    BY <2>2, <2>3, <2>4
  <2>6. peer.chars[j].value \in first..last
    <3>1. first <= peer.chars[j].value
      BY <2>1, <2>3, <2>4
    <3>2. peer.chars[j].value <= last
      BY <2>3, <2>4, <2>5
    <3> QED
      BY <2>3, <3>1, <3>2
  <2>7. peer.chars[j].cccd < peer.chars[j].value
    BY <1>2, <2>6
  <2> QED
    BY <2>3, <2>5, <2>7
<1>3. \A h \in Listed(first, last) : \E i \in 1..Len(peer.chars) :
        /\ h = peer.chars[i].cccd /\ first > 0 /\ h \in first..last
        /\ \A k \in 1..Len(peer.chars) :
             peer.chars[k].value \in first..last => h < peer.chars[k].value
  BY PeerFacts DEF Listed
<1>4. ASSUME NEW g \in Listed(first, last), NEW h \in Listed(first, last)
      PROVE  g = h
  <2>1. PICK i \in 1..Len(peer.chars) :
        /\ g = peer.chars[i].cccd /\ first > 0 /\ g \in first..last
        /\ \A k \in 1..Len(peer.chars) :
             peer.chars[k].value \in first..last => g < peer.chars[k].value
    BY <1>3
  <2>2. PICK j \in 1..Len(peer.chars) :
        /\ h = peer.chars[j].cccd /\ h \in first..last
        /\ \A k \in 1..Len(peer.chars) :
             peer.chars[k].value \in first..last => h < peer.chars[k].value
    BY <1>3
  <2>3. ~(i < j)
    BY <1>2, <2>1, <2>2
  <2>4. ~(j < i)
    BY <1>2, <2>1, <2>2
  <2>5. i = j
    BY <2>3, <2>4, PeerFacts
  <2> QED
    BY <2>1, <2>2, <2>5
<1> QED
  BY <1>1, <1>3, <1>4

(* ... and behind the value of a characteristic its own. *)
LEMMA ListedIsOwn ==
  ASSUME peer \in Peers, NEW k \in 1..Len(peer.chars), NEW last \in Int
  PROVE  /\ Listed(Behind(peer.chars[k].value), last) \subseteq {peer.chars[k].cccd}
         /\ peer.chars[k].cccd = 0 => Listed(Behind(peer.chars[k].value), last) = {}
         /\ peer.chars[k].cccd # 0 /\ peer.chars[k].cccd <= last =>
              peer.chars[k].cccd \in Listed(Behind(peer.chars[k].value), last)
<1> DEFINE first == Behind(peer.chars[k].value)
<1>1. \A i \in 1..Len(peer.chars) :
        /\ peer.chars[i].value \in Int /\ peer.chars[i].cccd \in Int
        /\ peer.chars[i].decl \in Int /\ peer.chars[i].cccd \in Handle
        /\ peer.chars[i].value \in Handle
  BY PeerFacts, CharacteristicFacts, HandleFacts
<1>2. first \in Int /\ (first > 0 => first = peer.chars[k].value + 1)
  BY <1>1, BehindFacts, HandleFacts
<1>3. peer.chars[k].cccd # 0 => first = peer.chars[k].cccd
  <2>1. SUFFICES ASSUME peer.chars[k].cccd # 0 PROVE first = peer.chars[k].cccd
    OBVIOUS
  <2>2. peer.chars[k].cccd = peer.chars[k].value + 1 /\ peer.chars[k].cccd <= peer.end
    BY <2>1, PeerFacts
  <2>3. peer.chars[k].value < MaxHandle
    BY <1>1, <2>2, PeerFacts, HandleFacts
  <2> QED
    BY <1>1, <2>2, <2>3, BehindFacts
<1> HIDE DEF first
<1>4. ASSUME NEW h \in Listed(first, last)
      PROVE  h = peer.chars[k].cccd /\ h # 0
  <2>1. PICK i \in 1..Len(peer.chars) :
        /\ h = peer.chars[i].cccd /\ first > 0 /\ h \in first..last
        /\ \A m \in 1..Len(peer.chars) :
             peer.chars[m].value \in first..last => h < peer.chars[m].value
    BY PeerFacts DEF Listed
  <2>0. /\ peer.chars[i].cccd \in Int /\ peer.chars[i].value \in Int
        /\ peer.chars[i].decl \in Int
        /\ peer.chars[k].value \in Int /\ peer.chars[k].decl \in Int
    BY <1>1
  <2>2. h # 0 /\ peer.chars[i].cccd = peer.chars[i].value + 1
    <3>1. peer.chars[i].cccd \in {0, peer.chars[i].value + 1}
      BY PeerFacts
    <3> QED
      BY <1>2, <2>0, <2>1, <3>1
  <2>3. ~(i < k)
    <3>1. SUFFICES ASSUME i < k PROVE FALSE
      OBVIOUS
    <3>2. peer.chars[i].cccd < peer.chars[k].decl /\ peer.chars[k].value = peer.chars[k].decl + 1
      BY <3>1, PeerFacts
    <3>3. first > 0 /\ first <= peer.chars[i].cccd
      BY <2>1
    <3>4. first = peer.chars[k].value + 1
      BY <1>2, <3>3
    <3>5. peer.chars[i].cccd < peer.chars[k].value
      BY <2>0, <3>2
    <3> QED
      BY <2>0, <3>3, <3>4, <3>5
  <2>4. ~(k < i)
    <3>1. SUFFICES ASSUME k < i PROVE FALSE
      OBVIOUS
    <3>2. peer.chars[k].value < peer.chars[i].decl /\ peer.chars[i].value = peer.chars[i].decl + 1
      BY <3>1, PeerFacts
    <3>3. peer.chars[i].value \in first..last
      <4>1. h = peer.chars[i].cccd /\ first > 0 /\ first <= h /\ h <= last
        BY <2>1
      <4>2. first = peer.chars[k].value + 1
        BY <1>2, <4>1
      <4>3. first <= peer.chars[i].value
        BY <2>0, <3>2, <4>2
      <4>4. peer.chars[i].value <= last
        BY <2>0, <2>2, <4>1
      <4> QED
        BY <2>0, <4>3, <4>4
    <3>4. h < peer.chars[i].value
      BY <2>1, <3>3
    <3> QED
      BY <2>0, <2>1, <2>2, <3>4
  <2>5. i = k
    BY <2>3, <2>4, PeerFacts
  <2> QED
    BY <2>1, <2>2, <2>5
<1>5. ASSUME peer.chars[k].cccd # 0, peer.chars[k].cccd <= last
      PROVE  peer.chars[k].cccd \in Listed(first, last)
  <2>1. first = peer.chars[k].cccd /\ first > 0 /\ first = peer.chars[k].value + 1
    BY <1>1, <1>2, <1>3, <1>5, HandleFacts
  <2>2. ASSUME NEW m \in 1..Len(peer.chars), peer.chars[m].value \in first..last
        PROVE  peer.chars[k].cccd < peer.chars[m].value
    <3>0. /\ peer.chars[m].value \in Int /\ peer.chars[m].decl \in Int
          /\ peer.chars[k].value \in Int /\ peer.chars[k].decl \in Int
          /\ peer.chars[k].cccd \in Int
          /\ peer.chars[m].value = peer.chars[m].decl + 1
          /\ peer.chars[k].value = peer.chars[k].decl + 1
      BY <1>1, PeerFacts
    <3>1. m > k
      <4>1. m < k => peer.chars[m].value < peer.chars[k].decl
        BY PeerFacts
      <4>2. peer.chars[m].value > peer.chars[k].value
        <5>1. first <= peer.chars[m].value
          BY <2>2
        <5>2. first = peer.chars[k].value + 1
          BY <2>1
        <5>3. peer.chars[m].value \in Int /\ peer.chars[k].value \in Int
          BY <3>0
        <5> QED
          BY <5>1, <5>2, <5>3
      <4>3. ~(m < k) /\ m # k
        BY <3>0, <4>1, <4>2
      <4> QED
        BY <4>3, PeerFacts
    <3>2. peer.chars[k].cccd < peer.chars[m].decl
      BY <3>1, PeerFacts
    <3> QED
      BY <3>0, <3>2
  <2>3. peer.chars[k].cccd \in first..last
    BY <1>1, <1>2, <1>5, <2>1
  <2> QED
    BY <2>1, <2>2, <2>3, PeerFacts DEF Listed
<1> QED
  BY <1>4, <1>5 DEF first

-----------------------------------------------------------------------------
(***************************************************************************)
(* The walk over the descriptors.                                          *)
(***************************************************************************)
Entries == [0..(MaxChars - 1) -> Characteristic]

Declared(cs, n) == \A i \in 0..(n - 1) : cs[i].decl > 1

LEMMA GapFacts ==
  ASSUME NEW cs \in Entries, NEW n \in 0..MaxChars, Declared(cs, n),
         NEW e \in Handle, NEW i \in 0..(n - 1)
  PROVE  /\ Gap(cs, n, e, i).first = Behind(cs[i].value)
         /\ Gap(cs, n, e, i).first \in Handle /\ Gap(cs, n, e, i).last \in Handle
         /\ i = n - 1 => Gap(cs, n, e, i).last = e
         /\ i # n - 1 => Gap(cs, n, e, i).last = cs[i + 1].decl - 1
<1>1. MaxChars \in Nat /\ i \in 0..(MaxChars - 1) /\ i \in Int
  BY DiscoveryAssumption
<1>2. Behind(cs[i].value) \in Handle
  BY <1>1, CharacteristicFacts, BehindFacts DEF Entries
<1>3. CASE i = n - 1
  BY <1>2, <1>3 DEF Gap
<1>4. CASE i # n - 1
  <2>1. i + 1 \in 0..(n - 1) /\ i + 1 \in 0..(MaxChars - 1)
    BY <1>1, <1>4
  <2>2. cs[i + 1].decl > 1 /\ cs[i + 1].decl \in Handle
    BY <2>1, CharacteristicFacts DEF Declared, Entries
  <2>3. cs[i + 1].decl - 1 \in Handle
    BY <2>2, HandleFacts
  <2> QED
    BY <1>2, <1>4, <2>3 DEF Gap
<1> QED
  BY <1>3, <1>4

(* The walk goes on with the first entry behind which there is room, or it *)
(* is complete.                                                            *)
LEMMA WalkFacts ==
  ASSUME NEW cs \in Entries, NEW n \in 0..MaxChars, Declared(cs, n),
         NEW e \in Handle, NEW k \in 0..n, WalkDescriptors(cs, n, e, k)
  PROVE  \/ /\ \A i \in k..(n - 1) : ~HasRoomBehind(cs, n, e, i)
            /\ request' = NoRequest /\ inProgress' = FALSE
            /\ handles' = Handed(cs, n) /\ ind' \in 0..MaxChars
         \/ /\ ind' \in k..(n - 1) /\ HasRoomBehind(cs, n, e, ind')
            /\ \A i \in k..(ind' - 1) : ~HasRoomBehind(cs, n, e, i)
            /\ request' = Ask("desc", Gap(cs, n, e, ind').first, Gap(cs, n, e, ind').last)
            /\ UNCHANGED <<handles, inProgress>>
<1> DEFINE S == Candidates(cs, n, e, k)
<1>0. MaxChars \in Nat /\ n \in Nat /\ k \in Nat
  BY DiscoveryAssumption
<1>1. S \in SUBSET Nat /\ \A i : i \in S <=> i \in k..(n - 1) /\ HasRoomBehind(cs, n, e, i)
  BY <1>0 DEF Candidates
<1>2. CASE S = {}
  <2>1. Complete(cs, n, e, k)
    BY <1>2 DEF Complete
  <2>2. request' = NoRequest /\ inProgress' = FALSE /\ handles' = Handed(cs, n)
    BY <2>1 DEF WalkDescriptors
  <2>3. ind' = IF k + 1 = n THEN k ELSE n
    BY <1>2 DEF WalkDescriptors, NextInd
  <2> QED
    BY <1>0, <1>1, <1>2, <2>2, <2>3
<1>3. CASE S # {}
  <2>1. LowestOf(S) \in S /\ \A j \in S : LowestOf(S) <= j
    BY <1>1, <1>3, LowestFacts
  <2>2. ind' = LowestOf(S)
    BY <1>3 DEF WalkDescriptors, NextInd
  <2>3. /\ request' = DescRequest(cs, n, e, k)
        /\ UNCHANGED <<handles, inProgress>>
    BY <1>3 DEF WalkDescriptors, Complete
  <2>4. request' = Ask("desc", Gap(cs, n, e, ind').first, Gap(cs, n, e, ind').last)
    BY <2>2, <2>3 DEF DescRequest
  <2> DEFINE L == LowestOf(S)
  <2> HIDE DEF S
  <2>5. L \in k..(n - 1) /\ HasRoomBehind(cs, n, e, L) /\ L \in Nat
    BY <1>0, <1>1, <2>1
  <2>6. \A i \in k..(L - 1) : ~HasRoomBehind(cs, n, e, i)
    <3>1. \A j \in S : L <= j
      BY <2>1
    <3> HIDE DEF L
    <3>2. SUFFICES ASSUME NEW i \in k..(L - 1), HasRoomBehind(cs, n, e, i) PROVE FALSE
      OBVIOUS
    <3>3. i \in Int /\ i < L /\ i \in k..(n - 1)
      BY <1>0, <2>5
    <3> QED
      BY <1>1, <2>5, <3>1, <3>2, <3>3
  <2>7. ind' = L
    BY <2>2
  <2> HIDE DEF L
  <2> QED
    BY <2>3, <2>4, <2>5, <2>6, <2>7
<1> QED
  BY <1>2, <1>3

(* An entry of this link behind which there is no room has no CCCD. *)
LEMMA NoRoomNoCccd ==
  ASSUME peer \in Peers,
         NEW cs \in Entries, NEW n \in 0..MaxChars, NEW b \in 0..n, NEW k \in 0..n,
         ReadHere(cs, n, b, k),
         NEW i \in b..(n - 1), ~HasRoomBehind(cs, n, peer.end, i)
  PROVE  peer.chars[i - b + 1].cccd = 0
<1> DEFINE m == i - b + 1
           c == peer.chars[m]
<1>0. MaxChars \in Nat /\ n \in Nat /\ b \in Nat /\ i \in Nat /\ Len(peer.chars) \in Nat
  BY DiscoveryAssumption, PeerFacts
<1>1. m \in 1..Len(peer.chars)
  BY <1>0 DEF ReadHere
<1>2. cs[i].value = c.value
  BY DEF ReadHere, Finished, Begun, Copies
<1>3. c.cccd \in {0, c.value + 1} /\ c.cccd <= peer.end /\ c.value \in Int /\ peer.end \in Int
  BY <1>1, PeerFacts, CharacteristicFacts, HandleFacts
<1>4. CASE i = n - 1
  <2>1. c.value = peer.end
    BY <1>2, <1>4 DEF HasRoomBehind
  <2> QED
    BY <1>3, <2>1
<1>5. CASE i # n - 1
  <2>1. i + 1 \in b..(n - 1) /\ (i + 1) - b + 1 = m + 1 /\ m + 1 \in 1..Len(peer.chars)
    BY <1>0, <1>5 DEF ReadHere
  <2>2. cs[i + 1].decl = peer.chars[(i + 1) - b + 1].decl
    BY <2>1 DEF ReadHere, Finished, Begun, Copies
  <2>3. c.value + 1 = peer.chars[m + 1].decl
    BY <1>2, <1>5, <2>1, <2>2 DEF HasRoomBehind
  <2>4. c.cccd < peer.chars[m + 1].decl
    <3>1. m < m + 1
      BY <1>1
    <3> HIDE DEF m
    <3> QED
      BY <1>1, <2>1, <3>1, PeerFacts
  <2> QED
    BY <1>3, <2>3, <2>4
<1> QED
  BY <1>4, <1>5

LEMMA WalkKeepsRead ==
  ASSUME peer \in Peers,
         NEW cs \in Entries, NEW n \in 0..MaxChars, NEW b \in 0..n, NEW k \in 0..n,
         ReadHere(cs, n, b, k), NEW l \in 0..n,
         \A i \in k..(l - 1) : ~HasRoomBehind(cs, n, peer.end, i)
  PROVE  ReadHere(cs, n, b, l) \/ l < k
<1>0. n \in Nat /\ b \in Nat /\ k \in Nat /\ l \in Nat
  BY DiscoveryAssumption
<1>1. ASSUME NEW i \in b..(n - 1), ~(i < k), i < l
      PROVE  Finished(cs[i], peer.chars[i - b + 1])
  <2>1. i \in k..(l - 1)
    BY <1>0, <1>1
  <2>2. peer.chars[i - b + 1].cccd = 0
    BY <2>1, NoRoomNoCccd
  <2>3. Begun(cs[i], peer.chars[i - b + 1])
    BY <1>1 DEF ReadHere
  <2> QED
    BY <2>2, <2>3 DEF Begun, Finished
<1>2. ASSUME NEW i \in b..(n - 1), ~(l < k)
      PROVE  IF i < l THEN Finished(cs[i], peer.chars[i - b + 1])
             ELSE Begun(cs[i], peer.chars[i - b + 1])
  <2>1. i < k => i < l
    BY <1>0, <1>2
  <2>2. i < k => Finished(cs[i], peer.chars[i - b + 1])
    BY DEF ReadHere
  <2>3. ~(i < k) => Begun(cs[i], peer.chars[i - b + 1])
    BY DEF ReadHere
  <2> QED
    BY <1>1, <2>1, <2>2, <2>3
<1> QED
  BY <1>2 DEF ReadHere

-----------------------------------------------------------------------------
(***************************************************************************)
(* A descriptor response.                                                  *)
(***************************************************************************)
LEMMA CccdStored ==
  ASSUME peer \in Peers, chars \in Entries, ind \in 0..(MaxChars - 1),
         NEW first \in Int, NEW last \in Int
  PROVE  /\ WithCccd(first, last) \in Entries
         /\ \A i \in 0..(MaxChars - 1) :
              Copies(WithCccd(first, last)[i], chars[i])
              /\ (i # ind => WithCccd(first, last)[i] = chars[i])
         /\ Listed(first, last) = {} => WithCccd(first, last)[ind].cccd = chars[ind].cccd
         /\ \A h : Listed(first, last) = {h} => WithCccd(first, last)[ind].cccd = h
<1> DEFINE S == Listed(first, last)
<1>1. S \in SUBSET Handle /\ \A g, h \in S : g = h
  BY ListedOne
<1>2. CASE S = {}
  <2>1. WithCccd(first, last) = chars
    BY <1>2 DEF WithCccd
  <2> QED
    BY <1>2, <2>1 DEF Copies
<1>3. CASE S # {}
  <2>1. PICK g \in S : TRUE
    BY <1>3
  <2>2. S = {g} /\ g \in Handle
    BY <1>1, <2>1
  <2>3. g <= g
    BY <2>2, HandleFacts
  <2> DEFINE h == CHOOSE h \in S : \A f \in S : f <= h
  <2>4. h = g
    BY <2>2, <2>3
  <2>5. WithCccd(first, last) = [chars EXCEPT ![ind].cccd = h]
    BY <1>3 DEF WithCccd
  <2> HIDE DEF h, S
  <2>6. WithCccd(first, last) = [chars EXCEPT ![ind].cccd = g]
    BY <2>4, <2>5
  <2>7. chars[ind] \in Characteristic
    BY DEF Entries
  <2>8. [chars[ind] EXCEPT !.cccd = g] \in Characteristic
    BY <2>2, <2>7 DEF Characteristic
  <2>9. /\ WithCccd(first, last) \in Entries
        /\ WithCccd(first, last)[ind] = [chars[ind] EXCEPT !.cccd = g]
        /\ \A i \in 0..(MaxChars - 1) : i # ind => WithCccd(first, last)[i] = chars[i]
    BY <2>6, <2>7, <2>8 DEF Entries
  <2>10. Copies(WithCccd(first, last)[ind], chars[ind]) /\ WithCccd(first, last)[ind].cccd = g
    BY <2>7, <2>9 DEF Copies, Characteristic
  <2>11. \A f : S = {f} => f = g
    BY <2>2
  <2>12. \A i \in 0..(MaxChars - 1) : Copies(WithCccd(first, last)[i], chars[i])
    BY <2>9, <2>10 DEF Copies
  <2> QED
    BY <1>3, <2>9, <2>10, <2>11, <2>12 DEF S
<1> QED
  BY <1>2, <1>3

(* What a finished copy of one of this peer's characteristics says stays.  *)
LEMMA CccdKept ==
  ASSUME peer \in Peers, chars \in Entries, ind \in 0..(MaxChars - 1),
         NEW m \in 1..Len(peer.chars), Finished(chars[ind], peer.chars[m]),
         NEW last \in Int
  PROVE  Finished(WithCccd(Behind(chars[ind].value), last)[ind], peer.chars[m])
<1> DEFINE first == Behind(chars[ind].value)
<1>1. chars[ind].value = peer.chars[m].value /\ chars[ind].cccd = peer.chars[m].cccd
  BY DEF Finished, Copies
<1>2. first \in Int
  BY CharacteristicFacts, BehindFacts, HandleFacts DEF Entries
<1>3. Listed(first, last) \subseteq {peer.chars[m].cccd}
  BY <1>1, ListedIsOwn
<1>4. Listed(first, last) = {} \/ Listed(first, last) = {peer.chars[m].cccd}
  BY <1>3
<1> HIDE DEF first
<1>5. WithCccd(first, last)[ind].cccd = peer.chars[m].cccd
  BY <1>1, <1>2, <1>4, CccdStored
<1>6. Copies(WithCccd(first, last)[ind], chars[ind])
  BY <1>2, CccdStored
<1> QED
  BY <1>5, <1>6 DEF Finished, Copies, first

(* The entry of this link whose turn it is gets its CCCD. *)
LEMMA CccdFound ==
  ASSUME peer \in Peers, chars \in Entries, NEW n \in 0..MaxChars, NEW b \in 0..n,
         ind \in b..(n - 1), ReadHere(chars, n, b, ind),
         NEW first, NEW last, Declared(chars, n),
         first = Gap(chars, n, peer.end, ind).first,
         last = Gap(chars, n, peer.end, ind).last
  PROVE  Finished(WithCccd(first, last)[ind], peer.chars[ind - b + 1])
<1> DEFINE m == ind - b + 1
           c == peer.chars[m]
<1>0. /\ MaxChars \in Nat /\ n \in Nat /\ b \in Nat /\ ind \in Nat /\ n <= MaxChars
      /\ Len(peer.chars) \in Nat /\ n - b <= Len(peer.chars)
  BY DiscoveryAssumption, PeerFacts DEF ReadHere
<1>1. m \in 1..Len(peer.chars) /\ ind \in 0..(MaxChars - 1) /\ ind \in 0..(n - 1)
  BY <1>0
<1>2. Begun(chars[ind], c)
  BY <1>0 DEF ReadHere
<1>3. chars[ind].value = c.value /\ chars[ind].cccd = 0
  BY <1>2 DEF Begun, Copies
<1>4. /\ first = Behind(c.value) /\ first \in Int /\ last \in Int
      /\ ind = n - 1 => last = peer.end
      /\ ind # n - 1 => last = chars[ind + 1].decl - 1
  BY <1>1, <1>3, GapFacts, HandleFacts, PeerFacts
<1>5. c \in Characteristic /\ c.cccd \in Int /\ c.cccd <= peer.end /\ peer.end \in Int
  BY <1>1, PeerFacts, CharacteristicFacts, HandleFacts
<1>6. c.cccd <= last
  <2>1. CASE ind = n - 1
    BY <1>4, <1>5, <2>1
  <2>2. CASE ind # n - 1
    <3>1. ind + 1 \in b..(n - 1) /\ (ind + 1) - b + 1 = m + 1 /\ m + 1 \in 1..Len(peer.chars)
      BY <1>0, <2>2
    <3>2. chars[ind + 1].decl = peer.chars[m + 1].decl
      BY <3>1 DEF ReadHere, Begun, Finished, Copies
    <3>3. c.cccd < peer.chars[m + 1].decl
      <4>1. m < m + 1
        BY <1>0
      <4> HIDE DEF m
      <4> QED
        BY <1>1, <3>1, <4>1, PeerFacts
    <3>4. peer.chars[m + 1].decl \in Int
      BY <3>1, PeerFacts, CharacteristicFacts, HandleFacts
    <3> QED
      BY <1>4, <1>5, <2>2, <3>2, <3>3, <3>4
  <2> QED
    BY <2>1, <2>2
<1>7. /\ Listed(first, last) \subseteq {c.cccd}
      /\ c.cccd = 0 => Listed(first, last) = {}
      /\ c.cccd # 0 => c.cccd \in Listed(first, last)
  BY <1>1, <1>4, <1>6, ListedIsOwn
<1> HIDE DEF m
<1>8. WithCccd(first, last)[ind].cccd = c.cccd
  <2>1. CASE c.cccd = 0
    BY <1>1, <1>3, <1>4, <1>7, <2>1, CccdStored
  <2>2. CASE c.cccd # 0
    <3>1. Listed(first, last) = {c.cccd}
      BY <1>7, <2>2
    <3> QED
      BY <1>1, <1>4, <3>1, CccdStored
  <2> QED
    BY <2>1, <2>2
<1>9. Copies(WithCccd(first, last)[ind], chars[ind])
  BY <1>1, <1>4, CccdStored
<1> QED
  BY <1>2, <1>8, <1>9 DEF Finished, Begun, Copies, m

-----------------------------------------------------------------------------
(***************************************************************************)
(* The inductive invariant is inductive: one lemma per action.             *)
(***************************************************************************)
LEMMA TypeFacts ==
  ASSUME DiscTypeOK
  PROVE  /\ MaxChars \in Nat /\ MaxChars > 0 /\ MaxLinks \in Nat
         /\ charCount \in Nat /\ charCount <= MaxChars /\ ind \in Nat
         /\ request.first \in Int /\ request.last \in Int
         /\ chars \in Entries
         /\ inProgress => peer \in Peers
         /\ peer # NoPeer => peer \in Peers
         /\ NoPeer \notin Peers
BY DiscoveryAssumption, HandleFacts DEF DiscTypeOK, Entries

LEMMA AskFacts ==
  ASSUME NEW kind, NEW f, NEW l
  PROVE  Ask(kind, f, l).kind = kind /\ Ask(kind, f, l).first = f /\ Ask(kind, f, l).last = l
BY DEF Ask

LEMMA NoneFacts ==
  /\ NoRequest.kind = "none" /\ NoRequest.first \in Handle /\ NoRequest.last \in Handle
  /\ NoHandles.known = FALSE
BY HandleFacts DEF NoRequest, NoHandles

LEMMA NusFits ==
  ASSUME peer \in Peers, peer.chars # <<>>
  PROVE  Len(peer.chars) <= MaxChars /\ Len(peer.chars) > 0
<1>1. IsNus(peer) /\ WellFormed(peer)
  BY DiscoveryAssumption
<1>2. peer.chars \in Seq(Characteristic)
  BY <1>1 DEF WellFormed
<1>3. Len(peer.chars) # 0
  BY <1>2
<1> QED
  BY <1>1, <1>3, PeerFacts DEF IsNus

(* The step into, or on in, the walk over the descriptors. *)
LEMMA WalkStep ==
  ASSUME peer \in Peers, end = peer.end,
         NEW cs \in Entries, NEW n \in 0..MaxChars, Declared(cs, n),
         NEW k \in 0..n, NEW b \in 0..n, ReadHere(cs, n, b, k),
         n - b = Len(peer.chars) \/ n = MaxChars,
         WalkDescriptors(cs, n, end, k), ~handles.known, inProgress = TRUE,
         peer' = peer, end' = end, chars' = cs, charCount' = n
  PROVE  /\ request'.kind \in {"none", "desc"}
         /\ request'.first \in Handle /\ request'.last \in Handle
         /\ inProgress' = (request'.kind # "none")
         /\ ind' \in 0..MaxChars
         /\ request'.kind = "desc" => ind' < n
         /\ handles'.known => request'.kind = "none" /\ handles' = Handed(cs, n)
         /\ OwnPart(b)'
<1>0. /\ MaxChars \in Nat /\ n \in Nat /\ k \in Nat /\ n <= MaxChars /\ k <= n
      /\ end \in Handle
  BY DiscoveryAssumption, PeerFacts
<1>1. AllRead(b)'
  BY DEF AllRead
<1>2. CASE /\ \A i \in k..(n - 1) : ~HasRoomBehind(cs, n, end, i)
           /\ request' = NoRequest /\ inProgress' = FALSE
           /\ handles' = Handed(cs, n) /\ ind' \in 0..MaxChars
  <2>1. ReadHere(cs, n, b, n)
    BY <1>0, <1>2, WalkKeepsRead
  <2>2. ReadHere(chars, charCount, b, charCount)'
    BY <2>1 DEF ReadHere
  <2>3. handles'.known = TRUE
    BY <1>2 DEF Handed
  <2>4. request'.kind = "none"
    BY <1>2, NoneFacts
  <2>5. OwnPart(b)'
    BY <1>1, <2>2, <2>3, <2>4 DEF OwnPart
  <2> QED
    BY <1>2, <2>4, <2>5, NoneFacts
<1>3. CASE /\ ind' \in k..(n - 1) /\ HasRoomBehind(cs, n, end, ind')
           /\ \A i \in k..(ind' - 1) : ~HasRoomBehind(cs, n, end, i)
           /\ request' = Ask("desc", Gap(cs, n, end, ind').first, Gap(cs, n, end, ind').last)
           /\ UNCHANGED <<handles, inProgress>>
  <2>1. ind' \in 0..n /\ ~(ind' < k) /\ ind' < n /\ ind' \in 0..MaxChars /\ ind' \in 0..(n - 1)
    BY <1>0, <1>3
  <2>2. ReadHere(cs, n, b, ind')
    BY <1>3, <2>1, WalkKeepsRead
  <2>3. ReadHere(chars, charCount, b, ind)'
    BY <2>2 DEF ReadHere
  <2>4. /\ request'.kind = "desc"
        /\ request'.first = Gap(cs, n, end, ind').first
        /\ request'.last = Gap(cs, n, end, ind').last
    BY <1>3, AskFacts
  <2>5. AsksGap'
    <3>1. HasRoomBehind(chars, charCount, end, ind)'
      BY <1>3 DEF HasRoomBehind
    <3>2. Gap(chars, charCount, end, ind)' = Gap(cs, n, end, ind')
      BY DEF Gap, Behind
    <3> QED
      BY <2>4, <3>1, <3>2 DEF AsksGap
  <2>6. request'.first \in Handle /\ request'.last \in Handle
    BY <1>0, <2>1, <2>4, GapFacts
  <2>7. OwnPart(b)'
    BY <1>1, <1>3, <2>3, <2>4, <2>5 DEF OwnPart
  <2> QED
    BY <1>3, <2>1, <2>4, <2>6, <2>7
<1> QED
  BY <1>0, <1>2, <1>3, WalkFacts

LEMMA InitInv == DiscInit => DiscInv
<1> SUFFICES ASSUME DiscInit PROVE DiscInv
  OBVIOUS
<1> USE DEF DiscInit
<1>0. MaxChars \in Nat /\ MaxChars > 0 /\ MaxLinks \in Nat
  BY DiscoveryAssumption
<1>1. DiscTypeOK
  <2>1. NoChar \in Characteristic /\ 0 \in Handle
    BY HandleFacts DEF NoChar, Characteristic
  <2>2. chars \in [0..(MaxChars - 1) -> Characteristic]
    BY <2>1
  <2>3. inProgress = (request.kind # "none") /\ cut \in BOOLEAN
    BY NoneFacts
  <2>4. /\ request.kind \in {"none", "prim", "char", "desc"}
        /\ request.first \in Handle /\ request.last \in Handle
    BY NoneFacts
  <2>5. charCount \in 0..MaxChars /\ ind \in 0..MaxChars /\ links \in 0..MaxLinks /\ read \in Nat
    BY <1>0
  <2> QED
    BY <2>1, <2>2, <2>3, <2>4, <2>5 DEF DiscTypeOK
<1>2. PhaseInv
  BY <1>0, NoneFacts DEF PhaseInv
<1>3. OwnPart(0) /\ Leftovers(0)
  BY NoneFacts DEF OwnPart, Leftovers
<1>4. RecordInv
  BY <1>0, <1>3 DEF RecordInv
<1> QED
  BY <1>1, <1>2, <1>4 DEF DiscInv

LEMMA ConnectStep ==
  ASSUME DiscInv, NEW p \in Peers, Connect(p)
  PROVE  DiscInv'
<1> USE DEF Connect, Start, DiscInv
<1>0. /\ request'.kind = "prim" /\ request'.first = 1 /\ request'.last = MaxHandle
      /\ 1 \in Handle /\ MaxHandle \in Handle
  BY AskFacts, HandleFacts
<1>1. ~handles.known /\ request.kind = "none" /\ handles'.known = FALSE
  <2>1. NoPeer \notin met
    BY TypeFacts DEF DiscTypeOK
  <2> QED
    BY <2>1, NoneFacts DEF DiscTypeOK, PhaseInv
<1>2. DiscTypeOK'
  <2>1. links' \in 0..MaxLinks
    BY TypeFacts DEF DiscTypeOK
  <2>2. peer' \in Peers /\ peer' # NoPeer
    BY TypeFacts
  <2>3. ind' \in 0..MaxChars
    BY TypeFacts
  <2>4. inProgress' = (request'.kind # "none")
    BY <1>0
  <2> QED
    BY <1>0, <2>1, <2>2, <2>3, <2>4 DEF DiscTypeOK
<1>3. PhaseInv'
  BY <1>0, <1>1 DEF PhaseInv
<1>4. RecordInv'
  <2>1. PICK b \in 0..charCount : OwnPart(b) /\ (OneScooter => Leftovers(b))
    BY DEF RecordInv
  <2>2. b = charCount /\ b \in 0..charCount'
    BY <1>1, <2>1 DEF OwnPart
  <2>3. OwnPart(b)'
    BY <1>0, <1>1, <2>2 DEF OwnPart
  <2>4. OneScooter' => Leftovers(b)'
    BY <2>1 DEF OneScooter, Leftovers
  <2> QED
    BY <2>2, <2>3, <2>4 DEF RecordInv
<1> QED
  BY <1>2, <1>3, <1>4

LEMMA OnPrimStep ==
  ASSUME DiscInv, OnPrim
  PROVE  DiscInv'
<1> USE DEF OnPrim, DiscInv
<1>1. /\ peer \in Peers /\ ind = 0 /\ ~handles.known /\ request.kind = "prim"
      /\ inProgress = TRUE
  BY TypeFacts DEF DiscTypeOK, PhaseInv
<1>2. Len(peer.chars) > 0 /\ 1 \in 1..Len(peer.chars)
  BY <1>1, NusFits, PeerFacts
<1>3. peer.chars[1].decl \in Handle /\ peer.chars[1].decl > 1
  BY <1>1, <1>2, PeerFacts, CharacteristicFacts
<1>4. /\ request'.kind = "char" /\ request'.first = peer.chars[1].decl - 1
      /\ request'.last = peer.end
  BY <1>1, AskFacts
<1>5. DiscTypeOK'
  <2>1. request'.first \in Handle
    BY <1>3, <1>4, HandleFacts
  <2>5. request'.last \in Handle /\ end' \in Handle
    BY <1>1, <1>4, PeerFacts
  <2>2. met' \subseteq Peers
    BY <1>1 DEF DiscTypeOK
  <2>3. inProgress' = (request'.kind # "none")
    BY <1>1, <1>4
  <2>4. peer' # NoPeer
    BY <1>1, TypeFacts
  <2> QED
    BY <1>4, <2>1, <2>2, <2>3, <2>4, <2>5 DEF DiscTypeOK
<1>6. PhaseInv'
  BY <1>1, <1>4 DEF PhaseInv
<1>7. RecordInv'
  <2>1. PICK b \in 0..charCount : OwnPart(b) /\ (OneScooter => Leftovers(b))
    BY DEF RecordInv
  <2>2. b = charCount /\ b \in 0..charCount' /\ charCount - b = 0
    BY <1>1, <2>1, TypeFacts DEF OwnPart
  <2>3. ReadHere(chars, charCount, b, 0)'
    <3>1. b..(charCount - 1) = {}
      BY <2>2, TypeFacts
    <3> QED
      BY <1>2, <2>2, <3>1 DEF ReadHere
  <2>4. AsksBehind(charCount - b)'
    <3>1. ASSUME NEW j \in 1..Len(peer.chars)
          PROVE  peer.chars[j].decl >= request'.first /\ ~(j <= 0)
      <4>1. /\ peer.chars[j].decl \in Int /\ peer.chars[1].decl \in Int
            /\ peer.chars[1].value \in Int
        BY <1>1, <1>2, PeerFacts, CharacteristicFacts, HandleFacts
      <4>2. 1 < j => peer.chars[1].value < peer.chars[j].decl
        BY <1>1, <1>2, PeerFacts
      <4>3. peer.chars[1].value = peer.chars[1].decl + 1
        BY <1>1, <1>2, PeerFacts
      <4>4. j = 1 \/ 1 < j
        BY <1>1, PeerFacts
      <4> QED
        BY <1>4, <4>1, <4>2, <4>3, <4>4
    <3> QED
      BY <1>1, <1>4, <2>2, <3>1, PeerFacts DEF AsksBehind
  <2>5. OwnPart(b)'
    BY <1>1, <1>4, <2>3, <2>4 DEF OwnPart
  <2>6. ASSUME OneScooter' PROVE Leftovers(b)'
    <3>1. \A p \in met' : p = peer
      BY <2>6 DEF OneScooter
    <3>2. OneScooter
      BY <2>6 DEF OneScooter
    <3>3. CASE peer \in met
      BY <2>1, <3>2, <3>3 DEF Leftovers
    <3>4. CASE peer \notin met
      <4>1. met = {}
        BY <3>1, <3>4
      <4>2. b = 0
        BY <2>2, <4>1, TypeFacts DEF PhaseInv
      <4> QED
        BY <4>2 DEF Leftovers
    <3> QED
      BY <3>3, <3>4
  <2> QED
    BY <2>2, <2>5, <2>6 DEF RecordInv
<1> QED
  BY <1>5, <1>6, <1>7

LEMMA OnPrimNoneStep ==
  ASSUME DiscInv, OnPrimNone
  PROVE  DiscInv'
<1> USE DEF OnPrimNone, DiscInv, record, history
<1>1. ~handles.known /\ request.kind = "prim" /\ request'.kind = "none"
  BY NoneFacts DEF PhaseInv
<1>2. DiscTypeOK'
  <2>1. inProgress' = (request'.kind # "none")
    BY <1>1
  <2> QED
    BY <1>1, <2>1, NoneFacts DEF DiscTypeOK
<1>3. PhaseInv'
  BY <1>1 DEF PhaseInv
<1>4. RecordInv'
  <2>1. PICK b \in 0..charCount : OwnPart(b) /\ (OneScooter => Leftovers(b))
    BY DEF RecordInv
  <2>2. b = charCount
    BY <1>1, <2>1 DEF OwnPart
  <2>3. OwnPart(b)'
    BY <1>1, <2>2 DEF OwnPart
  <2>4. OneScooter' => Leftovers(b)'
    BY <2>1 DEF OneScooter, Leftovers
  <2> QED
    BY <2>3, <2>4 DEF RecordInv
<1> QED
  BY <1>2, <1>3, <1>4

(* A request behind the characteristics read brings the next one. *)
LEMMA NextCharacteristic ==
  ASSUME peer \in Peers, NEW k \in Nat, k <= Len(peer.chars), AsksBehind(k),
         request.first \in Int
  PROVE  /\ CharsIn(request.first, request.last) = (k + 1)..Len(peer.chars)
         /\ k < Len(peer.chars) => LowestOf(CharsIn(request.first, request.last)) = k + 1
<1> DEFINE S == CharsIn(request.first, request.last)
<1>0. Len(peer.chars) \in Nat
  BY PeerFacts
<1>1. ASSUME NEW i \in 1..Len(peer.chars)
      PROVE  peer.chars[i].decl \in request.first..request.last <=> k < i
  <2>1. /\ peer.chars[i].decl \in Int /\ peer.chars[i].value \in Int /\ peer.end \in Int
        /\ peer.chars[i].value = peer.chars[i].decl + 1 /\ peer.chars[i].value <= peer.end
        /\ request.last = peer.end
    BY PeerFacts, CharacteristicFacts, HandleFacts DEF AsksBehind
  <2>2. /\ i <= k => peer.chars[i].decl < request.first
        /\ ~(i <= k) => peer.chars[i].decl >= request.first
    BY PeerFacts DEF AsksBehind
  <2>3. i <= k <=> ~(k < i)
    BY <1>0
  <2>4. CASE i <= k
    <3>1. ~(k < i) /\ peer.chars[i].decl < request.first
      BY <2>2, <2>3, <2>4
    <3> QED
      BY <2>1, <3>1
  <2>5. CASE k < i
    <3>1. peer.chars[i].decl >= request.first
      BY <2>2, <2>3, <2>5
    <3>2. peer.chars[i].decl <= request.last
      BY <2>1
    <3> QED
      BY <2>1, <2>5, <3>1, <3>2
  <2> QED
    BY <2>3, <2>4, <2>5
<1>2. S = (k + 1)..Len(peer.chars)
  <2>1. \A i : i \in S <=> i \in 1..Len(peer.chars) /\ k < i
    BY <1>1, PeerFacts DEF CharsIn
  <2> HIDE DEF S
  <2>2. \A i : i \in S <=> i \in (k + 1)..Len(peer.chars)
    BY <1>0, <2>1
  <2> QED
    BY <2>2
<1>3. k < Len(peer.chars) => LowestOf(S) = k + 1
  <2>1. SUFFICES ASSUME k < Len(peer.chars) PROVE LowestOf(S) = k + 1
    OBVIOUS
  <2> HIDE DEF S
  <2>2. k + 1 \in S /\ S \in SUBSET Nat
    BY <1>0, <1>2, <2>1
  <2>3. LowestOf(S) \in S /\ \A j \in S : LowestOf(S) <= j
    BY <2>2, LowestFacts
  <2>4. \A j \in S : k + 1 <= j /\ j \in Int
    BY <1>0, <1>2
  <2>5. k + 1 <= LowestOf(S) /\ LowestOf(S) \in Int /\ LowestOf(S) <= k + 1
    BY <2>2, <2>3, <2>4
  <2> HIDE DEF LowestOf
  <2> QED
    BY <2>5
<1> QED
  BY <1>2, <1>3

LEMMA OnCharNoneStep ==
  ASSUME DiscInv, OnCharNone
  PROVE  DiscInv'
<1> USE DEF OnCharNone, DiscInv, history
<1>1. /\ peer \in Peers /\ ~handles.known /\ request.kind = "char" /\ inProgress = TRUE
      /\ peer \in met /\ peer.chars # <<>> /\ end = peer.end
  BY TypeFacts DEF DiscTypeOK, PhaseInv
<1>2. PICK b \in 0..charCount : OwnPart(b) /\ (OneScooter => Leftovers(b))
  BY DEF RecordInv
<1>3. ReadHere(chars, charCount, b, 0) /\ AsksBehind(charCount - b)
  BY <1>1, <1>2 DEF OwnPart
<1>4. charCount - b = Len(peer.chars)
  <2>1. charCount - b \in Nat /\ charCount - b <= Len(peer.chars) /\ Len(peer.chars) \in Nat
    BY <1>1, <1>3, TypeFacts, PeerFacts DEF ReadHere
  <2>2. (charCount - b + 1)..Len(peer.chars) = {}
    BY <1>1, <1>3, <2>1, TypeFacts, NextCharacteristic
  <2>3. Len(peer.chars) \notin (charCount - b + 1)..Len(peer.chars)
    BY <2>2
  <2> QED
    BY <2>1, <2>3
<1>5. charCount \in 0..MaxChars /\ 0 \in 0..charCount /\ Declared(chars, charCount)
  BY TypeFacts DEF DiscTypeOK, PhaseInv, Declared
<1>6. /\ request'.kind \in {"none", "desc"}
      /\ request'.first \in Handle /\ request'.last \in Handle
      /\ inProgress' = (request'.kind # "none")
      /\ ind' \in 0..MaxChars
      /\ request'.kind = "desc" => ind' < charCount
      /\ handles'.known => request'.kind = "none" /\ handles' = Handed(chars, charCount)
      /\ OwnPart(b)'
  BY <1>1, <1>3, <1>4, <1>5, TypeFacts, WalkStep
<1>7. DiscTypeOK'
  <2>1. inProgress' = (request'.kind # "none")
    BY <1>6
  <2> QED
    BY <1>1, <1>6, <2>1, TypeFacts DEF DiscTypeOK
<1>8. PhaseInv'
  <2>1. handles'.known => handles' = Handed(chars, charCount)'
    BY <1>6 DEF Handed, LastOf
  <2> QED
    BY <1>1, <1>6, <2>1 DEF PhaseInv
<1>9. RecordInv'
  <2>1. OneScooter' => Leftovers(b)'
    BY <1>2 DEF OneScooter, Leftovers
  <2> QED
    BY <1>6, <2>1 DEF RecordInv
<1> QED
  BY <1>7, <1>8, <1>9

(* With one scooter the record, once the NUS client was told, holds        *)
(* nothing but its characteristics, and all of them.                       *)
LEMMA WholeRecord ==
  ASSUME DiscInv, handles.known, OneScooter
  PROVE  /\ Leftovers(charCount) /\ charCount > 0
         /\ peer \in Peers /\ peer \in met /\ peer.chars # <<>>
<1> USE DEF DiscInv
<1>10. PICK b \in 0..charCount : OwnPart(b) /\ (OneScooter => Leftovers(b))
  BY DEF RecordInv
<1>1. /\ peer.chars # <<>> /\ peer \in met /\ peer \in Peers /\ Leftovers(b)
      /\ ReadHere(chars, charCount, b, charCount) /\ AllRead(b)
  BY <1>10 DEF OwnPart, PhaseInv, DiscTypeOK
<1>2. \A p \in met : p = peer
  BY <1>1 DEF OneScooter
<1>3. /\ charCount \in Nat /\ b \in Nat /\ b <= charCount
      /\ Len(peer.chars) \in Nat /\ charCount - b <= Len(peer.chars)
      /\ Len(peer.chars) <= MaxChars /\ MaxChars \in Nat
      /\ DOMAIN peer.chars = 1..Len(peer.chars)
  BY <1>1, TypeFacts, PeerFacts, NusFits DEF ReadHere
<1>4. ASSUME NEW i \in b..(charCount - 1)
      PROVE  /\ i - b + 1 \in DOMAIN peer.chars
             /\ Finished(chars[i], peer.chars[i - b + 1])
  <2>1. i < charCount /\ i - b + 1 \in 1..Len(peer.chars)
    BY <1>3
  <2> QED
    BY <1>1, <1>3, <2>1 DEF ReadHere
<1>5. ASSUME NEW i \in 0..(charCount - 1)
      PROVE  \E k \in DOMAIN peer.chars : Finished(chars[i], peer.chars[k])
  <2>1. CASE i < b
    <3>1. i \in 0..(b - 1)
      BY <1>3, <2>1
    <3> QED
      BY <1>1, <3>1 DEF Leftovers
  <2>2. CASE ~(i < b)
    <3>1. i \in b..(charCount - 1)
      BY <1>3, <2>2
    <3> QED
      BY <1>4, <3>1
  <2> QED
    BY <2>1, <2>2
<1>6. ASSUME charCount > 0
      PROVE  /\ Len(peer.chars) <= charCount
             /\ \A k \in DOMAIN peer.chars : Copies(chars[k - 1], peer.chars[k])
  <2>1. CASE b > 0
    <3>1. /\ Len(peer.chars) <= b
          /\ \A k \in DOMAIN peer.chars : Copies(chars[k - 1], peer.chars[k])
      BY <1>1, <2>1 DEF Leftovers
    <3> QED
      BY <1>3, <3>1
  <2>2. CASE b = 0
    <3>1. charCount = Len(peer.chars)
      BY <1>1, <1>3, <2>2 DEF AllRead
    <3>2. ASSUME NEW k \in DOMAIN peer.chars
          PROVE  Copies(chars[k - 1], peer.chars[k])
      <4>1. k - 1 \in b..(charCount - 1) /\ (k - 1) - b + 1 = k
        BY <1>3, <2>2, <3>1
      <4>2. Finished(chars[k - 1], peer.chars[(k - 1) - b + 1])
        BY <1>4, <4>1
      <4> QED
        BY <4>1, <4>2 DEF Finished
    <3> QED
      BY <1>3, <3>1, <3>2
  <2> QED
    BY <1>3, <2>1, <2>2
<1>7. Leftovers(charCount)
  BY <1>2, <1>5, <1>6 DEF Leftovers
<1>8. charCount > 0
  <2>1. Len(peer.chars) > 0 /\ MaxChars > 0
    BY <1>1, NusFits, TypeFacts
  <2> QED
    BY <1>1, <1>3, <2>1 DEF AllRead
<1> QED
  BY <1>1, <1>7, <1>8

LEMMA DisconnectStep ==
  ASSUME DiscInv, Disconnect
  PROVE  DiscInv'
<1> USE DEF Disconnect, LinkDown, DiscInv, record
<1>0. request'.kind = "none" /\ handles'.known = FALSE /\ peer \in Peers
  BY NoneFacts, TypeFacts
<1>1. DiscTypeOK'
  <2>1. inProgress' = (request'.kind # "none")
    BY <1>0
  <2>2. cut' \in BOOLEAN
    <3>1. inProgress \in BOOLEAN /\ cut \in BOOLEAN
      BY DEF DiscTypeOK
    <3> QED
      BY <3>1
  <2> QED
    BY <1>0, <2>1, <2>2, NoneFacts DEF DiscTypeOK
<1>2. PhaseInv'
  BY <1>0 DEF PhaseInv
<1>3. RecordInv'
  <2>1. PICK b \in 0..charCount : OwnPart(b) /\ (OneScooter => Leftovers(b))
    BY DEF RecordInv
  <2>2. OwnPart(charCount)' /\ charCount \in 0..charCount'
    BY <1>0, TypeFacts DEF OwnPart
  <2>3. ASSUME OneScooter' PROVE Leftovers(charCount)'
    <3>1. OneScooter /\ ~inProgress
      BY <2>3 DEF OneScooter
    <3>2. request.kind = "none" /\ Leftovers(b)
      BY <2>1, <3>1 DEF DiscTypeOK
    <3>3. CASE ~handles.known
      <4>1. b = charCount
        BY <2>1, <3>2, <3>3 DEF OwnPart
      <4> QED
        BY <3>2, <4>1 DEF Leftovers
    <3>4. CASE handles.known
      <4>1. Leftovers(charCount)
        BY <3>1, <3>4, WholeRecord
      <4> QED
        BY <4>1 DEF Leftovers
    <3> QED
      BY <3>3, <3>4
  <2> QED
    BY <2>2, <2>3 DEF RecordInv
<1> QED
  BY <1>1, <1>2, <1>3

LEMMA OnCharStep ==
  ASSUME DiscInv, OnChar
  PROVE  DiscInv'
<1> USE DEF DiscInv
<1>1. /\ peer \in Peers /\ ~handles.known /\ request.kind = "char" /\ inProgress = TRUE
      /\ peer \in met /\ peer.chars # <<>> /\ end = peer.end
  BY TypeFacts DEF OnChar, DiscTypeOK, PhaseInv
<1>2. PICK b \in 0..charCount : OwnPart(b) /\ (OneScooter => Leftovers(b))
  BY DEF RecordInv
<1>3. ReadHere(chars, charCount, b, 0) /\ AsksBehind(charCount - b)
  BY <1>1, <1>2 DEF OwnPart
<1> DEFINE k == charCount - b
           c == peer.chars[k + 1]
           d == [c EXCEPT !.cccd = 0]
           cs == Stored(d)
           n == CountWithOne
<1>0. /\ MaxChars \in Nat /\ MaxChars > 0 /\ charCount \in Nat /\ charCount <= MaxChars
      /\ b \in Nat /\ b <= charCount /\ k \in Nat /\ Len(peer.chars) \in Nat
      /\ k <= Len(peer.chars) /\ charCount = k + b /\ chars \in Entries
      /\ end \in Handle /\ MaxHandle \in Nat
      /\ read \in Nat /\ charCount = IF read < MaxChars THEN read ELSE MaxChars
  <2>1. /\ MaxChars \in Nat /\ MaxChars > 0 /\ charCount \in Nat /\ charCount <= MaxChars
        /\ chars \in Entries /\ read \in Nat
    BY TypeFacts DEF DiscTypeOK
  <2>2. Len(peer.chars) \in Nat /\ end \in Handle /\ MaxHandle \in Nat
    BY <1>1, PeerFacts, HandleFacts
  <2>3. charCount - b <= Len(peer.chars)
    BY <1>3 DEF ReadHere
  <2>4. charCount = IF read < MaxChars THEN read ELSE MaxChars
    BY DEF PhaseInv
  <2>5. b \in Nat /\ b <= charCount
    BY <2>1
  <2> QED
    BY <2>1, <2>2, <2>3, <2>4, <2>5
<1>4. k < Len(peer.chars) /\ LowestOf(CharsIn(request.first, request.last)) = k + 1
  <2>1. CharsIn(request.first, request.last) = (k + 1)..Len(peer.chars)
    BY <1>0, <1>1, <1>3, TypeFacts, NextCharacteristic
  <2>2. (k + 1)..Len(peer.chars) # {}
    BY <2>1 DEF OnChar
  <2>3. k < Len(peer.chars)
    BY <1>0, <2>2
  <2> QED
    BY <1>0, <1>1, <1>3, <2>3, TypeFacts, NextCharacteristic
<1>5. /\ k + 1 \in 1..Len(peer.chars) /\ c \in Characteristic
      /\ c.decl > 1 /\ c.value = c.decl + 1 /\ c.value <= peer.end
      /\ c.value \in Handle /\ c.value \in Int /\ c.decl \in Int
  <2>1. k + 1 \in 1..Len(peer.chars)
    BY <1>0, <1>4
  <2> HIDE DEF k
  <2> QED
    BY <1>1, <2>1, PeerFacts, CharacteristicFacts, HandleFacts
<1>6. d \in Characteristic /\ Begun(d, c) /\ d.value = c.value /\ d.decl = c.decl
  <2> HIDE DEF c
  <2>1. 0 \in Handle
    BY HandleFacts
  <2> QED
    BY <1>5, <2>1 DEF Characteristic, Begun, Copies
<1>7. /\ chars' = cs /\ charCount' = n /\ read' = read + 1
      /\ UNCHANGED <<peer, end, links, met, cut>>
      /\ IF cs[n - 1].value < end /\ n < MaxChars
         THEN /\ ind' = n
              /\ request' = CharRequest(cs, n, end)
              /\ UNCHANGED <<inProgress, handles>>
         ELSE WalkDescriptors(cs, n, end, 0)
  BY <1>4 DEF OnChar
(* The entry is appended, or the record is full. *)
<1>8. \/ /\ charCount < MaxChars /\ n = charCount + 1
         /\ cs \in Entries /\ cs[charCount] = d
         /\ \A i \in 0..(MaxChars - 1) : i # charCount => cs[i] = chars[i]
      \/ /\ charCount = MaxChars /\ n = MaxChars /\ cs = chars
  <2> HIDE DEF d
  <2>1. CASE charCount < MaxChars
    <3>1. cs = [chars EXCEPT ![charCount] = d] /\ n = charCount + 1
      BY <2>1 DEF Stored, CountWithOne
    <3>2. charCount \in 0..(MaxChars - 1)
      BY <1>0, <2>1
    <3> QED
      BY <1>0, <1>6, <2>1, <3>1, <3>2 DEF Entries
  <2>2. CASE ~(charCount < MaxChars)
    BY <1>0, <2>2 DEF Stored, CountWithOne
  <2> QED
    BY <2>1, <2>2
<1> HIDE DEF cs, n, d
<1>9. /\ n \in 0..MaxChars /\ n \in Nat /\ cs \in Entries /\ b \in 0..n /\ 0 \in 0..n
      /\ n = IF read + 1 < MaxChars THEN read + 1 ELSE MaxChars
  BY <1>0, <1>8
<1>17. n # MaxChars => charCount < MaxChars /\ n - 1 = charCount /\ n < MaxChars
  <2>1. charCount \in Nat /\ MaxChars \in Nat /\ n \in 0..MaxChars
    BY <1>0, <1>9
  <2>2. (charCount < MaxChars /\ n = charCount + 1) \/ n = MaxChars
    BY <1>8
  <2> QED
    BY <2>1, <2>2
<1>18. charCount < MaxChars => cs[charCount] = d
  <2>1. charCount < MaxChars => charCount # MaxChars
    BY <1>0
  <2> QED
    BY <1>8, <2>1
<1>10. Declared(cs, n)
  <2>1. ASSUME NEW i \in 0..(n - 1) PROVE cs[i].decl > 1
    <3>1. \A j \in 0..(charCount - 1) : chars[j].decl > 1
      BY DEF PhaseInv
    <3>2. CASE charCount < MaxChars /\ i = charCount
      <4>1. cs[i] = d /\ d.decl = c.decl /\ c.decl > 1
        BY <1>0, <1>5, <1>6, <1>8, <3>2
      <4> HIDE DEF c
      <4> QED
        BY <4>1
    <3>3. CASE ~(charCount < MaxChars /\ i = charCount)
      <4>1. i \in 0..(charCount - 1) /\ i # charCount /\ i \in 0..(MaxChars - 1)
        BY <1>0, <1>8, <3>3
      <4>2. cs[i] = chars[i]
        BY <1>0, <1>8, <4>1
      <4> QED
        BY <3>1, <4>1, <4>2
    <3> QED
      BY <3>2, <3>3
  <2> QED
    BY <2>1 DEF Declared
<1>11. ReadHere(cs, n, b, 0) /\ (charCount < MaxChars => n - b = k + 1)
  <2>1. n - b <= Len(peer.chars) /\ (charCount < MaxChars => n - b = k + 1)
    BY <1>0, <1>4, <1>8
  <2>2. ASSUME NEW i \in b..(n - 1)
        PROVE  ~(i < 0) /\ Begun(cs[i], peer.chars[i - b + 1])
    <3>1. CASE charCount < MaxChars /\ i = charCount
      <4>1. i - b + 1 = k + 1
        BY <1>0, <3>1
      <4>2. cs[i] = d
        BY <1>8, <3>1
      <4> HIDE DEF k, d
      <4>3. Begun(cs[i], peer.chars[i - b + 1])
        BY <1>6, <4>1, <4>2
      <4> QED
        BY <1>0, <4>3
    <3>2. CASE ~(charCount < MaxChars /\ i = charCount)
      <4>1. i \in b..(charCount - 1) /\ i # charCount /\ i \in 0..(MaxChars - 1) /\ ~(i < 0)
        BY <1>0, <1>8, <3>2
      <4>2. cs[i] = chars[i]
        BY <1>8, <4>1
      <4>3. Begun(chars[i], peer.chars[i - b + 1])
        BY <1>3, <4>1 DEF ReadHere
      <4> QED
        BY <4>1, <4>2, <4>3
    <3> QED
      BY <3>1, <3>2
  <2> QED
    BY <2>1, <2>2 DEF ReadHere
<1>12. ASSUME OneScooter' PROVE Leftovers(b)'
  <2>1. OneScooter /\ Leftovers(b)
    BY <1>2, <1>7, <1>12 DEF OneScooter
  <2>2. \A i \in 0..(b - 1) : cs[i] = chars[i]
    <3>1. \A i \in 0..(b - 1) : i # charCount /\ i \in 0..(MaxChars - 1)
      BY <1>0
    <3> QED
      BY <1>8, <3>1
  <2>3. ASSUME NEW p \in met, NEW m \in DOMAIN p.chars, Len(p.chars) <= b
        PROVE  cs[m - 1] = chars[m - 1]
    <3>1. p \in Peers
      BY DEF DiscTypeOK
    <3>2. p.chars \in Seq(Characteristic)
      BY <3>1, DiscoveryAssumption DEF WellFormed
    <3>3. m \in 1..Len(p.chars) /\ Len(p.chars) \in Nat
      BY <3>2
    <3>4. m - 1 \in 0..(b - 1)
      BY <1>0, <2>3, <3>3
    <3> QED
      BY <2>2, <3>4
  <2>4. \A p \in met :
          /\ \A i \in 0..(b - 1) : \E j \in DOMAIN p.chars : Finished(cs[i], p.chars[j])
          /\ b > 0 => /\ Len(p.chars) <= b
                      /\ \A j \in DOMAIN p.chars : Copies(cs[j - 1], p.chars[j])
    <3> TAKE p \in met
    <3>1. \A i \in 0..(b - 1) : \E j \in DOMAIN p.chars : Finished(cs[i], p.chars[j])
      BY <2>1, <2>2 DEF Leftovers
    <3>2. b > 0 => /\ Len(p.chars) <= b
                  /\ \A j \in DOMAIN p.chars : Copies(cs[j - 1], p.chars[j])
      BY <2>1, <2>3 DEF Leftovers
    <3> QED
      BY <3>1, <3>2
  <2> QED
    BY <1>7, <2>4 DEF Leftovers
<1>13. /\ request'.kind \in {"none", "char", "desc"}
       /\ request'.first \in Handle /\ request'.last \in Handle
       /\ inProgress' = (request'.kind # "none")
       /\ ind' \in 0..MaxChars
       /\ request'.kind = "desc" => ind' < n
       /\ handles'.known => request'.kind = "none" /\ handles' = Handed(cs, n)
       /\ OwnPart(b)'
  <2>1. CASE cs[n - 1].value < end /\ n < MaxChars
    <3>1. charCount < MaxChars /\ n - 1 = charCount /\ cs[n - 1].value = c.value
      <4> HIDE DEF c, k
      <4>1. charCount < MaxChars /\ n - 1 = charCount
        BY <1>0, <1>17, <2>1
      <4> QED
        BY <1>6, <1>18, <4>1
    <3>2. /\ request'.kind = "char" /\ request'.first = Behind(c.value)
          /\ request'.last = end
      BY <1>7, <2>1, <3>1, AskFacts DEF CharRequest
    <3>3. c.value < end /\ c.value < MaxHandle
      BY <1>0, <1>5, <2>1, <3>1, HandleFacts
    <3>4. request'.first = c.value + 1 /\ request'.first \in Handle
      BY <1>5, <3>2, <3>3, BehindFacts
    <3>5. ASSUME NEW j \in 1..Len(peer.chars)
          PROVE  IF j <= k + 1 THEN peer.chars[j].decl < request'.first
                 ELSE peer.chars[j].decl >= request'.first
      <4>1. /\ peer.chars[j].decl \in Int /\ peer.chars[j].value \in Int
            /\ peer.chars[j].value = peer.chars[j].decl + 1
        BY <1>1, PeerFacts, CharacteristicFacts, HandleFacts
      <4>2. j < k + 1 => peer.chars[j].value < c.decl
        BY <1>1, <1>5, PeerFacts
      <4>3. k + 1 < j => c.value < peer.chars[j].decl
        BY <1>1, <1>5, PeerFacts
      <4>4. j = k + 1 => peer.chars[j].decl = c.decl
        OBVIOUS
      <4>5. j \in Int /\ k + 1 \in Int
        BY <1>0
      <4> HIDE DEF c, k
      <4>6. CASE j <= k + 1
        <5>1. j < k + 1 \/ j = k + 1
          BY <4>5, <4>6
        <5>2. c.value = c.decl + 1 /\ c.value \in Int /\ c.decl \in Int
          BY <1>5, HandleFacts
        <5>3. CASE j < k + 1
          BY <3>4, <4>1, <4>2, <4>6, <5>2, <5>3
        <5>4. CASE j = k + 1
          BY <3>4, <4>1, <4>4, <4>6, <5>2, <5>4
        <5> QED
          BY <5>1, <5>3, <5>4
      <4>7. CASE ~(j <= k + 1)
        <5>1. k + 1 < j
          BY <4>5, <4>7
        <5> QED
          BY <1>5, <3>4, <4>1, <4>3, <4>7, <5>1
      <4> QED
        BY <4>6, <4>7
    <3>6. AsksBehind(charCount - b)'
      <4>1. charCount' - b = k + 1
        BY <1>7, <1>11, <3>1
      <4> HIDE DEF k
      <4> QED
        BY <1>1, <1>7, <3>2, <3>5, <4>1, PeerFacts DEF AsksBehind
    <3>7. ReadHere(chars, charCount, b, 0)'
      BY <1>7, <1>11 DEF ReadHere
    <3>8. OwnPart(b)'
      BY <1>1, <1>7, <2>1, <3>2, <3>6, <3>7 DEF OwnPart
    <3> QED
      BY <1>0, <1>1, <1>7, <1>9, <2>1, <3>2, <3>4, <3>8
  <2>2. CASE ~(cs[n - 1].value < end /\ n < MaxChars)
    <3>1. n - b = Len(peer.chars) \/ n = MaxChars
      <4>1. SUFFICES ASSUME n # MaxChars PROVE n - b = Len(peer.chars)
        OBVIOUS
      <4>2. /\ charCount < MaxChars /\ n < MaxChars /\ n - 1 = charCount
            /\ cs[n - 1].value = c.value
        <5> HIDE DEF c, k
        <5>1. charCount < MaxChars /\ n < MaxChars /\ n - 1 = charCount
          BY <1>17, <4>1
        <5> QED
          BY <1>6, <1>18, <5>1
      <4>3. c.value >= peer.end /\ n - b = k + 1
        <5>1. n - b = k + 1 /\ ~(c.value < peer.end) /\ peer.end \in Int
          BY <1>0, <1>1, <1>11, <2>2, <4>2, HandleFacts
        <5> HIDE DEF c, k
        <5> QED
          BY <1>5, <5>1
      <4>4. ~(k + 1 < Len(peer.chars))
        <5>1. SUFFICES ASSUME k + 1 < Len(peer.chars) PROVE FALSE
          OBVIOUS
        <5> DEFINE l == k + 1
                   m == k + 2
        <5>2. l \in 1..Len(peer.chars) /\ m \in 1..Len(peer.chars) /\ l < m /\ c = peer.chars[l]
          <6> DEFINE q == Len(peer.chars)
          <6>1. c = peer.chars[l]
            OBVIOUS
          <6>2. k \in Nat /\ q \in Nat /\ k + 1 < q
            BY <1>0, <5>1
          <6> HIDE DEF c, k, q
          <6>3. l \in 1..q /\ m \in 1..q /\ l < m
            BY <6>2
          <6> QED
            BY <6>1, <6>3 DEF q
        <5> HIDE DEF l, m, c
        <5>3. /\ peer.chars[m].decl \in Int /\ peer.chars[m].value \in Int
              /\ peer.chars[m].value = peer.chars[m].decl + 1
              /\ peer.chars[m].value <= peer.end
              /\ c.value < peer.chars[m].decl
          BY <1>1, <5>2, PeerFacts, CharacteristicFacts, HandleFacts
        <5>4. peer.end \in Int
          BY <1>1, PeerFacts, HandleFacts
        <5> QED
          BY <1>5, <4>3, <5>3, <5>4
      <4> QED
        BY <1>0, <1>4, <4>3, <4>4
    <3>2. WalkDescriptors(cs, n, end, 0)
      BY <1>7, <2>2
    <3> HIDE DEF k
    <3> QED
      BY <1>1, <1>7, <1>9, <1>10, <1>11, <3>1, <3>2, WalkStep
  <2> QED
    BY <2>1, <2>2
<1>14. DiscTypeOK'
  <2>1. inProgress' = (request'.kind # "none")
    BY <1>13
  <2>2. read' \in Nat
    BY <1>0, <1>7
  <2>3. peer' # NoPeer
    BY <1>1, <1>7, TypeFacts
  <2> QED
    BY <1>7, <1>9, <1>13, <2>1, <2>2, <2>3 DEF DiscTypeOK, Entries
<1>15. PhaseInv'
  <2>1. handles'.known => handles' = Handed(chars, charCount)'
    BY <1>7, <1>13 DEF Handed, LastOf
  <2>2. \A i \in 0..(charCount' - 1) : chars'[i].decl > 1
    BY <1>7, <1>10 DEF Declared
  <2>3. charCount' = IF read' < MaxChars THEN read' ELSE MaxChars
    BY <1>7, <1>9
  <2> QED
    BY <1>1, <1>7, <1>13, <2>1, <2>2, <2>3 DEF PhaseInv
<1>16. RecordInv'
  BY <1>7, <1>9, <1>12, <1>13 DEF RecordInv
<1> QED
  BY <1>14, <1>15, <1>16

LEMMA OnDescStep ==
  ASSUME DiscInv, OnDesc
  PROVE  DiscInv'
<1> USE DEF DiscInv, history
<1> DEFINE first == request.first
           last == request.last
           cs == WithCccd(first, last)
           n == charCount
<1>1. /\ peer \in Peers /\ ~handles.known /\ request.kind = "desc" /\ inProgress = TRUE
      /\ peer \in met /\ peer.chars # <<>> /\ end = peer.end /\ ind < charCount
  BY TypeFacts DEF OnDesc, DescAnswered, DiscTypeOK, PhaseInv
<1>2. PICK b \in 0..charCount : OwnPart(b) /\ (OneScooter => Leftovers(b))
  BY DEF RecordInv
<1>3. ReadHere(chars, n, b, ind) /\ AllRead(b) /\ AsksGap
  BY <1>1, <1>2 DEF OwnPart
<1>0. /\ MaxChars \in Nat /\ n \in Nat /\ n <= MaxChars /\ n \in 0..MaxChars
      /\ ind \in Nat /\ ind \in 0..(n - 1) /\ ind \in 0..(MaxChars - 1)
      /\ b \in Nat /\ b <= n /\ b \in 0..n
      /\ first \in Int /\ last \in Int /\ chars \in Entries
      /\ Declared(chars, n) /\ end \in Handle
  BY <1>1, TypeFacts DEF DiscTypeOK, PhaseInv, Declared
<1>4. /\ first = Gap(chars, n, peer.end, ind).first /\ last = Gap(chars, n, peer.end, ind).last
      /\ first = Behind(chars[ind].value)
  BY <1>0, <1>1, <1>3, GapFacts DEF AsksGap
<1>5. /\ cs \in Entries
      /\ \A i \in 0..(MaxChars - 1) : Copies(cs[i], chars[i]) /\ (i # ind => cs[i] = chars[i])
  BY <1>0, <1>1, CccdStored
<1>6. /\ chars' = cs
      /\ UNCHANGED <<peer, end, charCount, links, read, met, cut>>
      /\ IF ind + 1 = n
         THEN /\ request' = NoRequest /\ inProgress' = FALSE
              /\ handles' = Handed(cs, n)
              /\ UNCHANGED ind
         ELSE WalkDescriptors(cs, n, end, ind + 1)
  BY DEF OnDesc, DescAnswered
<1> HIDE DEF cs
<1>7. Declared(cs, n)
  <2>1. \A i \in 0..(n - 1) : i \in 0..(MaxChars - 1)
    BY <1>0
  <2> QED
    BY <1>0, <1>5, <2>1 DEF Declared, Copies
<1>8. ReadHere(cs, n, b, ind + 1)
  <2>1. ASSUME NEW i \in b..(n - 1)
        PROVE  IF i < ind + 1 THEN Finished(cs[i], peer.chars[i - b + 1])
               ELSE Begun(cs[i], peer.chars[i - b + 1])
    <3>1. CASE i = ind
      <4>1. ind \in b..(n - 1)
        BY <3>1
      <4>2. Finished(cs[ind], peer.chars[ind - b + 1])
        BY <1>0, <1>1, <1>3, <1>4, <4>1, CccdFound DEF cs
      <4>3. i < ind + 1
        BY <1>0, <3>1
      <4> QED
        BY <3>1, <4>2, <4>3
    <3>2. CASE i # ind
      <4>1. i \in 0..(MaxChars - 1) /\ (i < ind + 1 <=> i < ind)
        BY <1>0, <3>2
      <4>2. cs[i] = chars[i]
        BY <1>5, <3>2, <4>1
      <4>3. IF i < ind THEN Finished(chars[i], peer.chars[i - b + 1])
            ELSE Begun(chars[i], peer.chars[i - b + 1])
        BY <1>3 DEF ReadHere
      <4> QED
        BY <4>1, <4>2, <4>3
    <3> QED
      BY <3>1, <3>2
  <2> QED
    BY <1>3, <2>1 DEF ReadHere
<1>9. ASSUME OneScooter' PROVE Leftovers(b)'
  <2>1. OneScooter /\ Leftovers(b)
    BY <1>2, <1>6, <1>9 DEF OneScooter
  <2>2. \A p \in met : p = peer
    BY <1>1, <2>1 DEF OneScooter
  <2>3. \A i \in 0..(b - 1) : i \in 0..(MaxChars - 1)
    BY <1>0
  <2>4. ASSUME NEW i \in 0..(b - 1)
        PROVE  \E j \in DOMAIN peer.chars : Finished(cs[i], peer.chars[j])
    <3>1. PICK j \in DOMAIN peer.chars : Finished(chars[i], peer.chars[j])
      BY <1>1, <2>1, <2>4 DEF Leftovers
    <3>2. CASE i # ind
      BY <1>5, <2>3, <2>4, <3>1, <3>2
    <3>3. CASE i = ind
      <4>1. j \in 1..Len(peer.chars)
        BY <1>1, PeerFacts
      <4>2. Finished(cs[ind], peer.chars[j])
        BY <1>0, <1>1, <1>4, <3>1, <3>3, <4>1, CccdKept DEF cs
      <4> QED
        BY <3>3, <4>2
    <3> QED
      BY <3>2, <3>3
  <2>5. ASSUME b > 0
        PROVE  /\ Len(peer.chars) <= b
               /\ \A j \in DOMAIN peer.chars : Copies(cs[j - 1], peer.chars[j])
    <3>1. /\ Len(peer.chars) <= b
          /\ \A j \in DOMAIN peer.chars : Copies(chars[j - 1], peer.chars[j])
      BY <1>1, <2>1, <2>5 DEF Leftovers
    <3>2. ASSUME NEW j \in DOMAIN peer.chars PROVE Copies(cs[j - 1], peer.chars[j])
      <4>1. j \in 1..Len(peer.chars) /\ Len(peer.chars) \in Nat
        BY <1>1, PeerFacts
      <4>2. j - 1 \in 0..(MaxChars - 1)
        BY <1>0, <3>1, <4>1
      <4> QED
        BY <1>5, <3>1, <4>2 DEF Copies
    <3> QED
      BY <3>1, <3>2
  <2>6. met' = met /\ chars' = cs
    BY <1>6
  <2> QED
    BY <2>2, <2>4, <2>5, <2>6 DEF Leftovers
<1>10. /\ request'.kind \in {"none", "desc"}
       /\ request'.first \in Handle /\ request'.last \in Handle
       /\ inProgress' = (request'.kind # "none")
       /\ ind' \in 0..MaxChars
       /\ request'.kind = "desc" => ind' < n
       /\ handles'.known => request'.kind = "none" /\ handles' = Handed(cs, n)
       /\ OwnPart(b)'
  <2>1. CASE ind + 1 = n
    <3>1. request'.kind = "none" /\ handles'.known = TRUE
      BY <1>6, <2>1, NoneFacts DEF Handed
    <3>2. ReadHere(chars, charCount, b, charCount)'
      BY <1>6, <1>8, <2>1 DEF ReadHere
    <3>3. AllRead(b)'
      BY <1>3, <1>6 DEF AllRead
    <3>4. OwnPart(b)'
      BY <3>1, <3>2, <3>3 DEF OwnPart
    <3>5. inProgress' = (request'.kind # "none")
      BY <1>6, <2>1, <3>1
    <3>6. ind' \in 0..MaxChars
      BY <1>0, <1>6, <2>1
    <3> QED
      BY <1>6, <2>1, <3>1, <3>4, <3>5, <3>6, NoneFacts
  <2>2. CASE ind + 1 # n
    <3>1. ind + 1 \in 0..n
      BY <1>0
    <3>2. n - b = Len(peer.chars) \/ n = MaxChars
      BY <1>3 DEF AllRead
    <3>3. WalkDescriptors(cs, n, end, ind + 1)
      BY <1>6, <2>2
    <3> QED
      BY <1>0, <1>1, <1>5, <1>6, <1>7, <1>8, <3>1, <3>2, <3>3, WalkStep
  <2> QED
    BY <2>1, <2>2
<1>11. DiscTypeOK'
  <2>1. inProgress' = (request'.kind # "none")
    BY <1>10
  <2>2. peer' # NoPeer
    BY <1>1, <1>6, TypeFacts
  <2> QED
    BY <1>5, <1>6, <1>10, <2>1, <2>2 DEF DiscTypeOK, Entries
<1>12. PhaseInv'
  <2>1. handles'.known => handles' = Handed(chars, charCount)'
    BY <1>6, <1>10 DEF Handed, LastOf
  <2>2. \A i \in 0..(charCount' - 1) : chars'[i].decl > 1
    BY <1>6, <1>7 DEF Declared
  <2> QED
    BY <1>1, <1>6, <1>10, <2>1, <2>2 DEF PhaseInv
<1>13. RecordInv'
  BY <1>0, <1>6, <1>9, <1>10 DEF RecordInv
<1> QED
  BY <1>11, <1>12, <1>13

LEMMA StutterStep ==
  ASSUME DiscInv, UNCHANGED discVars
  PROVE  DiscInv'
<1>1. /\ UNCHANGED <<peer, request, inProgress, handles>>
      /\ UNCHANGED <<end, charCount, chars, ind>> /\ UNCHANGED <<links, read, met, cut>>
  BY DEF discVars, record, history
<1>2. DiscTypeOK'
  <2>1. inProgress' = (request'.kind # "none")
    BY <1>1 DEF DiscInv, DiscTypeOK
  <2> QED
    BY <1>1, <2>1 DEF DiscInv, DiscTypeOK
<1>3. PhaseInv'
  <2>1. Handed(chars, charCount)' = Handed(chars, charCount)
    BY <1>1 DEF Handed, LastOf
  <2> QED
    BY <1>1, <2>1 DEF DiscInv, PhaseInv
<1>4. RecordInv'
  <2>1. PICK b \in 0..charCount : OwnPart(b) /\ (OneScooter => Leftovers(b))
    BY DEF DiscInv, RecordInv
  <2>2. (OneScooter => Leftovers(b))'
    BY <1>1, <2>1 DEF OneScooter, Leftovers
  <2>3. /\ ReadHere(chars, charCount, b, 0)' <=> ReadHere(chars, charCount, b, 0)
        /\ ReadHere(chars, charCount, b, ind)' <=> ReadHere(chars, charCount, b, ind)
        /\ ReadHere(chars, charCount, b, charCount)' <=> ReadHere(chars, charCount, b, charCount)
    BY <1>1 DEF ReadHere
  <2>4. /\ AllRead(b)' <=> AllRead(b)
        /\ AsksBehind(charCount - b)' <=> AsksBehind(charCount - b)
    BY <1>1 DEF AllRead, AsksBehind
  <2>5. AsksGap' <=> AsksGap
    <3>1. HasRoomBehind(chars, charCount, end, ind)' <=> HasRoomBehind(chars, charCount, end, ind)
      BY <1>1 DEF HasRoomBehind
    <3>2. Gap(chars, charCount, end, ind)' = Gap(chars, charCount, end, ind)
      BY <1>1 DEF Gap, Behind
    <3> QED
      BY <1>1, <3>1, <3>2 DEF AsksGap
  <2>6. OwnPart(b)'
    BY <1>1, <2>1, <2>3, <2>4, <2>5 DEF OwnPart
  <2> QED
    BY <1>1, <2>2, <2>6 DEF RecordInv
<1> QED
  BY <1>2, <1>3, <1>4 DEF DiscInv

(* What the record of m_ble_db_discovery holds at each step of the walk, of *)
(* this link and of earlier ones.                                          *)
THEOREM DiscoveryInvariant == DiscSpec => []DiscInv
<1>1. DiscInit => DiscInv
  BY InitInv
<1>2. DiscInv /\ [DiscNext]_discVars => DiscInv'
  <2> SUFFICES ASSUME DiscInv, [DiscNext]_discVars PROVE DiscInv'
    OBVIOUS
  <2>1. CASE \E p \in Peers : Connect(p)
    BY <2>1, ConnectStep
  <2>2. CASE OnPrim
    BY <2>2, OnPrimStep
  <2>3. CASE OnPrimNone
    BY <2>3, OnPrimNoneStep
  <2>4. CASE OnChar
    BY <2>4, OnCharStep
  <2>5. CASE OnCharNone
    BY <2>5, OnCharNoneStep
  <2>6. CASE OnDesc
    BY <2>6, OnDescStep
  <2>7. CASE Disconnect
    BY <2>7, DisconnectStep
  <2>8. CASE UNCHANGED discVars
    BY <2>8, StutterStep
  <2> QED
    BY <2>1, <2>2, <2>3, <2>4, <2>5, <2>6, <2>7, <2>8 DEF DiscNext, Response
<1> QED
  BY <1>1, <1>2, PTL DEF DiscSpec

-----------------------------------------------------------------------------
(***************************************************************************)
(* What follows for the NUS client.                                        *)
(***************************************************************************)
(* One characteristic of each kind. *)
LEMMA OwnFacts ==
  ASSUME peer \in Peers, peer.chars # <<>>, NEW u \in {"tx", "rx"}
  PROVE  \E m \in 1..Len(peer.chars) :
           /\ Own(u) = peer.chars[m] /\ peer.chars[m].uuid = u
           /\ \A j \in 1..Len(peer.chars) : peer.chars[j].uuid = u => j = m
<1>1. DOMAIN peer.chars = 1..Len(peer.chars) /\ IsNus(peer)
  BY PeerFacts, DiscoveryAssumption
<1>2. PICK m \in DOMAIN peer.chars :
        \A j \in DOMAIN peer.chars : peer.chars[j].uuid = u <=> j = m
  BY <1>1 DEF IsNus
<1>3. {i \in DOMAIN peer.chars : peer.chars[i].uuid = u} = {m}
  BY <1>2
<1>4. Own(u) = peer.chars[m]
  BY <1>3 DEF Own
<1>5. /\ m \in 1..Len(peer.chars) /\ peer.chars[m].uuid = u
      /\ \A j \in 1..Len(peer.chars) : peer.chars[j].uuid = u => j = m
  <2>1. \A j : j \in 1..Len(peer.chars) => j \in DOMAIN peer.chars
    BY <1>1
  <2> QED
    BY <1>1, <1>2, <2>1
<1> QED
  BY <1>4, <1>5

(* A finished entry of a kind that none of that kind follows is handed     *)
(* over as the peer's own.                                                 *)
LEMMA LastIsOwn ==
  ASSUME DiscInv, peer \in Peers, peer.chars # <<>>, NEW u \in {"tx", "rx"},
         NEW x \in 0..(charCount - 1), chars[x].uuid = u,
         \A i \in 0..(charCount - 1) :
            i >= x => \E k \in DOMAIN peer.chars : Finished(chars[i], peer.chars[k])
  PROVE  /\ LastOf(chars, charCount, u).value = Own(u).value
         /\ LastOf(chars, charCount, u).cccd = Own(u).cccd
<1> DEFINE S == {i \in 0..(charCount - 1) : chars[i].uuid = u}
           y == CHOOSE i \in S : \A j \in S : j <= i
<1>1. charCount \in Nat /\ x \in S /\ S \in SUBSET (0..(charCount - 1))
  BY TypeFacts DEF DiscInv
<1>2. y \in S /\ \A j \in S : j <= y
  <2>1. \E i \in S : \A j \in S : j <= i
    BY <1>1, MaxExists
  <2> HIDE DEF S
  <2> QED
    BY <2>1
<1>3. LastOf(chars, charCount, u) = chars[y]
  BY <1>1 DEF LastOf
<1>4. y \in 0..(charCount - 1) /\ chars[y].uuid = u /\ x <= y /\ y >= x
  BY <1>1, <1>2
<1> HIDE DEF S, y
<1>5. PICK k \in DOMAIN peer.chars : Finished(chars[y], peer.chars[k])
  BY <1>4
<1>6. k \in 1..Len(peer.chars) /\ peer.chars[k].uuid = u
  BY <1>4, <1>5, PeerFacts DEF Finished, Copies
<1>7. peer.chars[k] = Own(u)
  BY <1>6, OwnFacts
<1> QED
  BY <1>3, <1>5, <1>7 DEF Finished, Copies

LEMMA HandedAreOwn ==
  ASSUME handles = Handed(chars, charCount),
         \A u \in {"tx", "rx"} :
           /\ LastOf(chars, charCount, u).value = Own(u).value
           /\ LastOf(chars, charCount, u).cccd = Own(u).cccd
  PROVE  HandlesBelongToPeer
BY DEF Handed, HandlesBelongToPeer

LEMMA FitsIsRight == DiscInv => RightWhileItFits
<1> SUFFICES ASSUME DiscInv, read < MaxChars, handles.known PROVE HandlesBelongToPeer
  BY DEF RightWhileItFits, HandlesBelongToPeer
<1>1. PICK b \in 0..charCount : OwnPart(b)
  BY DEF DiscInv, RecordInv
<1>2. /\ peer \in Peers /\ peer.chars # <<>> /\ handles = Handed(chars, charCount)
      /\ ReadHere(chars, charCount, b, charCount) /\ AllRead(b)
  BY <1>1 DEF DiscInv, DiscTypeOK, PhaseInv, OwnPart
<1>3. /\ charCount = read /\ charCount \in Nat /\ b \in Nat /\ MaxChars \in Nat
      /\ Len(peer.chars) \in Nat /\ DOMAIN peer.chars = 1..Len(peer.chars)
  BY <1>2, TypeFacts, PeerFacts DEF DiscInv, PhaseInv
<1>4. charCount - b = Len(peer.chars)
  BY <1>2, <1>3 DEF AllRead
<1>5. ASSUME NEW i \in b..(charCount - 1)
      PROVE  /\ i - b + 1 \in DOMAIN peer.chars
             /\ Finished(chars[i], peer.chars[i - b + 1])
  <2>1. i - b + 1 \in 1..Len(peer.chars) /\ i < charCount
    BY <1>3, <1>4
  <2> QED
    BY <1>2, <1>3, <2>1 DEF ReadHere
<1>6. ASSUME NEW u \in {"tx", "rx"}
      PROVE  /\ LastOf(chars, charCount, u).value = Own(u).value
             /\ LastOf(chars, charCount, u).cccd = Own(u).cccd
  <2>1. PICK m \in 1..Len(peer.chars) : peer.chars[m].uuid = u
    BY <1>2, OwnFacts
  <2> DEFINE x == m + b - 1
  <2>2. x \in b..(charCount - 1) /\ x - b + 1 = m /\ x \in 0..(charCount - 1) /\ x \in Int /\ b <= x
    BY <1>3, <1>4
  <2> HIDE DEF x
  <2>3. chars[x].uuid = u
    BY <1>5, <2>1, <2>2 DEF Finished, Copies
  <2>4. ASSUME NEW i \in 0..(charCount - 1), i >= x
        PROVE  \E k \in DOMAIN peer.chars : Finished(chars[i], peer.chars[k])
    <3>1. i \in b..(charCount - 1)
      BY <1>3, <2>2, <2>4
    <3> QED
      BY <1>5, <3>1
  <2> QED
    BY <1>2, <2>2, <2>3, <2>4, LastIsOwn
<1> QED
  BY <1>2, <1>6, HandedAreOwn

LEMMA SameIsRight == DiscInv => SameScooterStaysRight
<1> SUFFICES ASSUME DiscInv, OneScooter, handles.known PROVE HandlesBelongToPeer
  BY DEF SameScooterStaysRight, HandlesBelongToPeer, OneScooter
<1>1. /\ Leftovers(charCount) /\ charCount > 0 /\ charCount \in Nat
      /\ peer \in Peers /\ peer \in met /\ peer.chars # <<>>
      /\ DOMAIN peer.chars = 1..Len(peer.chars) /\ Len(peer.chars) \in Nat
  BY WholeRecord, TypeFacts, PeerFacts DEF DiscInv
<1>2. /\ Len(peer.chars) <= charCount
      /\ \A k \in DOMAIN peer.chars : Copies(chars[k - 1], peer.chars[k])
      /\ \A i \in 0..(charCount - 1) : \E k \in DOMAIN peer.chars : Finished(chars[i], peer.chars[k])
  BY <1>1 DEF Leftovers
<1>3. ASSUME NEW u \in {"tx", "rx"}
      PROVE  /\ LastOf(chars, charCount, u).value = Own(u).value
             /\ LastOf(chars, charCount, u).cccd = Own(u).cccd
  <2>1. PICK m \in 1..Len(peer.chars) : peer.chars[m].uuid = u
    BY <1>1, OwnFacts
  <2>2. m - 1 \in 0..(charCount - 1)
    BY <1>1, <1>2
  <2>3. chars[m - 1].uuid = u
    BY <1>1, <1>2, <2>1 DEF Copies
  <2> QED
    BY <1>1, <1>2, <2>2, <2>3, LastIsOwn
<1>4. handles = Handed(chars, charCount)
  BY DEF DiscInv, PhaseInv
<1> QED
  BY <1>3, <1>4, HandedAreOwn

(***************************************************************************)
(* The walk stays within the record, its requests within 16 bits, and      *)
(* discovery_in_progress is up exactly while a request of it is under way  *)
(* (on_disconnected takes it down), for any peers and any number of links. *)
(***************************************************************************)
THEOREM DiscoveryTypes == DiscSpec => []DiscTypeOK
BY DiscoveryInvariant, PTL DEF DiscInv

(***************************************************************************)
(* What ble_nus_c_on_db_disc_evt takes from a record that has not run full *)
(* are the handles of the scooter at the other end.                        *)
(***************************************************************************)
THEOREM DiscoveryRightWhileItFits == DiscSpec => []RightWhileItFits
BY DiscoveryInvariant, FitsIsRight, PTL

(***************************************************************************)
(* The same for a record that has run full, as long as the display meets   *)
(* one scooter only and no link goes down during a walk.                   *)
(***************************************************************************)
THEOREM DiscoverySameScooter == DiscSpec => []SameScooterStaysRight
BY DiscoveryInvariant, SameIsRight, PTL

-----------------------------------------------------------------------------
(***************************************************************************)
(* The bytes of a field and of a report.                                   *)
(***************************************************************************)
LEMMA FieldFacts ==
  ASSUME NEW f \in Field
  PROVE  /\ f.type \in Nat /\ f.body \in Seq(Nat) /\ Len(f.body) \in Nat
         /\ f.type \in UuidTypes128 => Len(f.body) \in {0, 16}
<1>1. /\ f.type \in Octet /\ f.body \in Seq(Octet)
      /\ f.type \in UuidTypes128 => Len(f.body) \in {0, 16}
  BY DEF Field
<1>2. Octet \subseteq Nat
  BY DEF Octet
<1>3. f.body \in Seq(Nat)
  BY <1>1, <1>2, SeqMonotonic
<1>4. Len(f.body) \in Nat
  BY <1>3
<1> QED
  BY <1>1, <1>2, <1>3, <1>4

LEMMA PaddingEncoded ==
  Encoded(Padding) = <<0>>
BY DEF Encoded

LEMMA FieldEncoded ==
  ASSUME NEW f \in Field, f # Padding
  PROVE  LET e == Encoded(f)
             n == Len(f.body)
         IN  /\ e \in Seq(Nat) /\ Len(e) = n + 2 /\ e[1] = n + 1 /\ e[2] = f.type
             /\ \A i \in 1..n : e[2 + i] = f.body[i]
<1> DEFINE b == f.body
           n == Len(b)
           t == f.type
           h == <<n + 1, t>>
           e == Encoded(f)
<1>1. e = h \o b
  BY DEF Encoded
<1>2. t \in Nat /\ b \in Seq(Nat) /\ n \in Nat
  BY FieldFacts
<1> HIDE DEF b, n, t, e
<1>3. h \in Seq(Nat) /\ Len(h) = 2 /\ h[1] = n + 1 /\ h[2] = t
  BY <1>2
<1> HIDE DEF h
<1>4. /\ e \in Seq(Nat) /\ Len(e) = Len(h) + Len(b)
      /\ \A i \in 1..(Len(h) + Len(b)) : e[i] = IF i <= Len(h) THEN h[i] ELSE b[i - Len(h)]
  <2>1. h \in Seq(Nat) /\ b \in Seq(Nat)
    BY <1>2, <1>3
  <2> QED
    BY <1>1, <2>1, ConcatProperties
<1>5. Len(h) = 2 /\ Len(b) = n
  BY <1>3 DEF n
<1>6. \A i \in 1..(2 + n) : e[i] = IF i <= 2 THEN h[i] ELSE b[i - 2]
  BY <1>4, <1>5
<1>7. Len(e) = n + 2
  BY <1>2, <1>4, <1>5
<1>8. e[1] = h[1] /\ e[2] = h[2]
  BY <1>2, <1>6
<1>9. ASSUME NEW i \in 1..n PROVE e[2 + i] = b[i]
  <2>1. 2 + i \in 1..(2 + n) /\ ~(2 + i <= 2) /\ (2 + i) - 2 = i
    BY <1>2
  <2> QED
    BY <1>6, <2>1
<1> QED
  BY <1>3, <1>4, <1>7, <1>8, <1>9 DEF e, n, b, t

(* Either way at least one byte, and the first one tells how many follow. *)
LEMMA EncodedFacts ==
  ASSUME NEW f \in Field
  PROVE  LET e == Encoded(f) IN e \in Seq(Nat) /\ Len(e) = e[1] + 1 /\ e[1] \in Nat
<1>1. CASE f = Padding
  <2>1. Encoded(f) = <<0>>
    BY <1>1, PaddingEncoded
  <2> QED
    BY <2>1
<1>2. CASE f # Padding
  <2> DEFINE e == Encoded(f)
             n == Len(f.body)
  <2>1. e \in Seq(Nat) /\ Len(e) = n + 2 /\ e[1] = n + 1
    BY <1>2, FieldEncoded
  <2>2. n \in Nat
    BY FieldFacts
  <2> HIDE DEF e, n
  <2>3. Len(e) = e[1] + 1 /\ e[1] \in Nat
    BY <2>1, <2>2
  <2> QED
    BY <2>1, <2>3 DEF e
<1> QED
  BY <1>1, <1>2

LEMMA BytesExist ==
  ASSUME NEW r \in Seq(Field)
  PROVE  \E g \in [0..Len(r) -> Seq(Nat)] :
           g[0] = <<>> /\ \A k \in 1..Len(r) : g[k] = g[k - 1] \o Encoded(r[k])
<1> DEFINE Has(n, g) == g[0] = <<>> /\ \A k \in 1..n : g[k] = g[k - 1] \o Encoded(r[k])
           T == {n \in 0..Len(r) : \E g \in [0..n -> Seq(Nat)] : Has(n, g)}
<1>0. Len(r) \in Nat /\ 0 \in 0..Len(r)
  OBVIOUS
<1>1. 0 \in T
  <2> DEFINE g == [k \in 0..0 |-> <<>>]
  <2>1. g \in [0..0 -> Seq(Nat)] /\ Has(0, g)
    OBVIOUS
  <2> QED
    BY <1>0, <2>1
<1>2. ASSUME NEW n \in 0..(Len(r) - 1), n \in T
      PROVE  n + 1 \in T
  <2>1. PICK f \in [0..n -> Seq(Nat)] : Has(n, f)
    BY <1>2
  <2> DEFINE x == f[n] \o Encoded(r[n + 1])
  <2>2. n + 1 \in 1..Len(r) /\ n \in Nat /\ n \in 0..n /\ r[n + 1] \in Field
    BY <1>0
  <2>3. x \in Seq(Nat)
    <3>1. f[n] \in Seq(Nat)
      BY <2>2
    <3>2. Encoded(r[n + 1]) \in Seq(Nat)
      BY <2>2, EncodedFacts
    <3> QED
      BY <3>1, <3>2, ConcatProperties
  <2>4. x = f[n] \o Encoded(r[n + 1])
    OBVIOUS
  <2> HIDE DEF x
  <2> DEFINE g == [k \in 0..(n + 1) |-> IF k = n + 1 THEN x ELSE f[k]]
  <2>5. g \in [0..(n + 1) -> Seq(Nat)]
    BY <2>2, <2>3
  <2>6. ASSUME NEW k \in 1..(n + 1) PROVE g[k] = g[k - 1] \o Encoded(r[k])
    <3>1. CASE k = n + 1
      <4>1. g[k] = x /\ g[k - 1] = f[n]
        BY <2>2, <3>1
      <4> HIDE DEF g
      <4> QED
        BY <2>4, <3>1, <4>1
    <3>2. CASE k # n + 1
      <4>1. g[k] = f[k] /\ g[k - 1] = f[k - 1] /\ k \in 1..n
        BY <2>2, <3>2
      <4> HIDE DEF g
      <4> QED
        BY <2>1, <4>1
    <3> QED
      BY <3>1, <3>2
  <2>7. g[0] = <<>>
    BY <2>1, <2>2
  <2> HIDE DEF g
  <2>8. Has(n + 1, g)
    BY <2>6, <2>7
  <2>9. n + 1 \in 0..Len(r)
    BY <2>2
  <2> HIDE DEF Has
  <2> QED
    BY <2>5, <2>8, <2>9
<1> HIDE DEF T
<1>3. 0..Len(r) \subseteq T
  BY <1>0, <1>1, <1>2, UpToInduction
<1>4. Len(r) \in T
  BY <1>0, <1>3
<1> QED
  BY <1>4 DEF T

LEMMA BytesFacts ==
  ASSUME NEW r \in Seq(Field)
  PROVE  /\ Bytes(r)[0] = <<>>
         /\ \A k \in 1..Len(r) : Bytes(r)[k] = Bytes(r)[k - 1] \o Encoded(r[k])
         /\ \A k \in 0..Len(r) : Bytes(r)[k] \in Seq(Nat)
<1> DEFINE D(g) == [k \in 0..Len(r) |-> IF k = 0 THEN <<>> ELSE g[k - 1] \o Encoded(r[k])]
           B == Bytes(r)
<1>0. Len(r) \in Nat
  OBVIOUS
<1>1. PICK g \in [0..Len(r) -> Seq(Nat)] :
        g[0] = <<>> /\ \A k \in 1..Len(r) : g[k] = g[k - 1] \o Encoded(r[k])
  BY BytesExist
<1>2. g = D(g)
  <2>1. ASSUME NEW k \in 0..Len(r) PROVE g[k] = D(g)[k]
    <3>1. CASE k = 0
      BY <1>0, <1>1, <3>1
    <3>2. CASE k # 0
      <4>1. k \in 1..Len(r)
        BY <1>0, <3>2
      <4>2. D(g)[k] = g[k - 1] \o Encoded(r[k])
        BY <3>2
      <4> QED
        BY <1>1, <4>1, <4>2
    <3> QED
      BY <3>1, <3>2
  <2> QED
    BY <2>1
<1>3. B = CHOOSE h : h = D(h)
  BY DEF Bytes
<1> HIDE DEF B
<1>4. B = D(B)
  BY <1>2, <1>3
<1>5. B[0] = <<>> /\ \A k \in 1..Len(r) : B[k] = B[k - 1] \o Encoded(r[k])
  <2>1. D(B)[0] = <<>>
    BY <1>0
  <2>2. \A k \in 1..Len(r) : k \in 0..Len(r) /\ k # 0
    BY <1>0
  <2>3. \A k \in 1..Len(r) : D(B)[k] = B[k - 1] \o Encoded(r[k])
    BY <2>2
  <2> HIDE DEF D
  <2> QED
    BY <1>4, <2>1, <2>3
<1> DEFINE T == {k \in 0..Len(r) : B[k] \in Seq(Nat)}
<1>6. 0..Len(r) \subseteq T
  <2>1. 0 \in T
    <3>1. <<>> \in Seq(Nat) /\ 0 \in 0..Len(r)
      BY <1>0
    <3> QED
      BY <1>5, <3>1
  <2>2. ASSUME NEW k \in 0..(Len(r) - 1), k \in T PROVE k + 1 \in T
    <3>1. k + 1 \in 1..Len(r) /\ (k + 1) - 1 = k /\ r[k + 1] \in Field /\ B[k] \in Seq(Nat)
      BY <1>0, <2>2
    <3>2. B[k + 1] = B[k] \o Encoded(r[k + 1])
      BY <1>5, <3>1
    <3>3. Encoded(r[k + 1]) \in Seq(Nat)
      BY <3>1, EncodedFacts
    <3>4. B[k] \o Encoded(r[k + 1]) \in Seq(Nat)
      BY <3>1, <3>3, ConcatProperties
    <3>5. k + 1 \in 0..Len(r)
      BY <3>1
    <3> QED
      BY <3>2, <3>4, <3>5
  <2> HIDE DEF T
  <2> QED
    BY <1>0, <2>1, <2>2, UpToInduction
<1>7. \A k \in 0..Len(r) : B[k] \in Seq(Nat)
  BY <1>6
<1> QED
  BY <1>5, <1>7 DEF B

(* What was written stays where it is. *)
LEMMA BytesGrow ==
  ASSUME NEW r \in Seq(Field), NEW j \in 0..Len(r), NEW k \in j..Len(r)
  PROVE  /\ Len(Bytes(r)[j]) <= Len(Bytes(r)[k])
         /\ \A i \in 1..Len(Bytes(r)[j]) : Bytes(r)[k][i] = Bytes(r)[j][i]
<1> DEFINE B == Bytes(r)
           n == Len(r) - j
           Good(d) == /\ Len(B[j]) <= Len(B[j + d])
                      /\ \A i \in 1..Len(B[j]) : B[j + d][i] = B[j][i]
           T == {d \in 0..n : Good(d)}
<1>0. Len(r) \in Nat /\ j \in Nat /\ n \in Nat /\ k - j \in 0..n /\ j + (k - j) = k
  OBVIOUS
<1>1. /\ \A m \in 1..Len(r) : B[m] = B[m - 1] \o Encoded(r[m])
      /\ \A m \in 0..Len(r) : B[m] \in Seq(Nat)
  BY BytesFacts
<1> HIDE DEF B
<1>2. 0 \in T
  <2>1. j + 0 = j /\ 0 \in 0..n
    BY <1>0
  <2>2. Len(B[j]) \in Nat
    BY <1>1
  <2>3. Good(0)
    BY <2>1, <2>2
  <2> HIDE DEF Good
  <2> QED
    BY <2>1, <2>3
<1>3. ASSUME NEW d \in 0..(n - 1), d \in T PROVE d + 1 \in T
  <2>1. /\ d + 1 \in 0..n /\ j + d \in 0..Len(r) /\ j + (d + 1) \in 1..Len(r)
        /\ (j + (d + 1)) - 1 = j + d
    BY <1>0
  <2> DEFINE x == B[j + d]
             m == j + (d + 1)
             e == Encoded(r[m])
             y == B[m]
  <2>2. x \in Seq(Nat) /\ B[j] \in Seq(Nat)
    BY <1>1, <2>1
  <2>3. e \in Seq(Nat)
    <3>1. r[m] \in Field
      BY <2>1
    <3> QED
      BY <3>1, EncodedFacts
  <2>4. y = x \o e
    BY <1>1, <2>1
  <2>5. Len(B[j]) <= Len(x) /\ \A i \in 1..Len(B[j]) : x[i] = B[j][i]
    BY <1>3
  <2> DEFINE b == B[j]
  <2>6. Len(b) <= Len(x) /\ (\A i \in 1..Len(b) : x[i] = b[i]) /\ b \in Seq(Nat)
    BY <2>2, <2>5
  <2> HIDE DEF x, m, e, y, b
  <2>7. /\ Len(y) = Len(x) + Len(e)
        /\ \A i \in 1..(Len(x) + Len(e)) : y[i] = IF i <= Len(x) THEN x[i] ELSE e[i - Len(x)]
    BY <2>2, <2>3, <2>4, ConcatProperties
  <2>8. Len(x) \in Nat /\ Len(e) \in Nat /\ Len(b) \in Nat
    BY <2>2, <2>3, <2>6
  <2>9. Len(b) <= Len(y)
    BY <2>6, <2>7, <2>8
  <2>10. ASSUME NEW i \in 1..Len(b) PROVE y[i] = b[i]
    <3>1. i \in 1..(Len(x) + Len(e)) /\ i <= Len(x)
      BY <2>6, <2>8
    <3> QED
      BY <2>6, <2>7, <3>1
  <2>11. Good(d + 1)
    BY <2>9, <2>10 DEF b, y, m
  <2> HIDE DEF Good
  <2> QED
    BY <2>1, <2>11
<1> HIDE DEF T
<1>4. 0..n \subseteq T
  BY <1>0, <1>2, <1>3, UpToInduction
<1>5. k - j \in T
  BY <1>0, <1>4
<1>6. Good(k - j)
  BY <1>5 DEF T
<1> QED
  BY <1>0, <1>6 DEF B

(* Where the k-th field stands in the data. *)
LEMMA FieldPlace ==
  ASSUME NEW r \in Seq(Field), NEW k \in 1..Len(r)
  PROVE  LET a == Len(Bytes(r)[k - 1])
             e == Encoded(r[k])
             d == DataOf(r)
         IN  /\ d \in Seq(Nat) /\ a \in Nat
             /\ Len(Bytes(r)[k]) = a + Len(e) /\ a + Len(e) <= Len(d)
             /\ \A i \in 1..Len(e) : d[a + i] = e[i]
<1> DEFINE B == Bytes(r)
           n == Len(r)
           x == B[k - 1]
           e == Encoded(r[k])
           y == B[k]
           d == B[n]
<1>0. n \in Nat /\ n \in 0..n /\ k \in Nat /\ k \in 0..n /\ k - 1 \in 0..n /\ n \in k..n
  OBVIOUS
<1>1. y = x \o e /\ x \in Seq(Nat) /\ y \in Seq(Nat) /\ d \in Seq(Nat)
  BY <1>0, BytesFacts
<1>2. e \in Seq(Nat)
  <2>1. r[k] \in Field
    OBVIOUS
  <2> QED
    BY <2>1, EncodedFacts
<1>3. Len(y) <= Len(d) /\ \A i \in 1..Len(y) : d[i] = y[i]
  BY <1>0, BytesGrow
<1>4. DataOf(r) = d
  BY DEF DataOf
<1> HIDE DEF B, x, e, y, d, n
<1>5. /\ Len(y) = Len(x) + Len(e)
      /\ \A i \in 1..(Len(x) + Len(e)) : y[i] = IF i <= Len(x) THEN x[i] ELSE e[i - Len(x)]
  BY <1>1, <1>2, ConcatProperties
<1>6. Len(x) \in Nat /\ Len(e) \in Nat
  BY <1>1, <1>2
<1>7. ASSUME NEW i \in 1..Len(e) PROVE d[Len(x) + i] = e[i]
  <2>1. /\ Len(x) + i \in 1..(Len(x) + Len(e)) /\ ~(Len(x) + i <= Len(x))
        /\ (Len(x) + i) - Len(x) = i
    BY <1>6
  <2>2. y[Len(x) + i] = e[i]
    BY <1>5, <2>1
  <2>3. d[Len(x) + i] = y[Len(x) + i]
    BY <1>3, <1>5, <2>1
  <2> QED
    BY <2>2, <2>3
<1>8. Len(x) + Len(e) <= Len(d)
  BY <1>3, <1>5
<1> QED
  BY <1>1, <1>4, <1>5, <1>6, <1>7, <1>8 DEF x, e, y, B

-----------------------------------------------------------------------------
(***************************************************************************)
(* One turn of the loop.                                                   *)
(***************************************************************************)
(* Where field k + 1 begins. *)
Begins(r, k) == Len(Bytes(r)[k])

Offers(f) == f.type \in UuidTypes128 /\ f.body = NusUuid

LEMMA ByteFacts ==
  ASSUME data \in Seq(Nat), NEW i \in Nat
  PROVE  /\ ByteAt(i) \in Nat
         /\ i >= Len(data) => ByteAt(i) = 0
         /\ i < Len(data) => ByteAt(i) = data[i + 1]
<1>0. Len(data) \in Nat
  OBVIOUS
<1>1. CASE i < Len(data)
  <2>1. i + 1 \in 1..Len(data)
    BY <1>0, <1>1
  <2>2. data[i + 1] \in Nat
    BY <2>1, ElementOfSeq
  <2> QED
    BY <1>0, <1>1, <2>2 DEF ByteAt
<1>2. CASE ~(i < Len(data))
  BY <1>0, <1>2 DEF ByteAt
<1> QED
  BY <1>1, <1>2

(* The bytes of the report, read at the field that begins at index. *)
LEMMA FieldRead ==
  ASSUME NEW r \in Seq(Field), data = DataOf(r), NEW k \in 1..Len(r)
  PROVE  LET a == Begins(r, k - 1)
             e == Encoded(r[k])
         IN  /\ data \in Seq(Nat) /\ a \in Nat /\ Len(e) \in Nat /\ Len(data) \in Nat
             /\ Begins(r, k) = a + Len(e) /\ a + Len(e) <= Len(data)
             /\ \A i \in 1..Len(e) : ByteAt(a + i - 1) = e[i]
<1> DEFINE a == Begins(r, k - 1)
           e == Encoded(r[k])
<1>1. /\ data \in Seq(Nat) /\ a \in Nat
      /\ Begins(r, k) = a + Len(e) /\ a + Len(e) <= Len(data)
      /\ \A i \in 1..Len(e) : data[a + i] = e[i]
  BY FieldPlace DEF Begins
<1>2. e \in Seq(Nat)
  <2>1. r[k] \in Field
    OBVIOUS
  <2> QED
    BY <2>1, EncodedFacts
<1> HIDE DEF a, e
<1>3. Len(e) \in Nat /\ Len(data) \in Nat
  BY <1>1, <1>2
<1>4. ASSUME NEW i \in 1..Len(e) PROVE ByteAt(a + i - 1) = e[i]
  <2>1. a + i - 1 \in Nat /\ a + i - 1 < Len(data) /\ (a + i - 1) + 1 = a + i
    BY <1>1, <1>3
  <2>2. ByteAt(a + i - 1) = data[(a + i - 1) + 1]
    BY <1>1, <2>1, ByteFacts
  <2> QED
    BY <1>1, <2>1, <2>2
<1> QED
  BY <1>1, <1>3, <1>4 DEF a, e

LEMMA EndOfData ==
  ASSUME NEW r \in Seq(Field), data = DataOf(r)
  PROVE  data \in Seq(Nat) /\ Len(data) = Begins(r, Len(r))
<1>1. Len(r) \in 0..Len(r)
  OBVIOUS
<1> QED
  BY <1>1, BytesFacts DEF Begins, DataOf

LEMMA BeginIsNat ==
  ASSUME NEW r \in Seq(Field), NEW k \in 0..Len(r)
  PROVE  Begins(r, k) \in Nat
<1>1. Bytes(r)[k] \in Seq(Nat)
  BY BytesFacts
<1> QED
  BY <1>1 DEF Begins

(* The loop goes from the beginning of a field to that of the next. *)
LEMMA NextIsNext ==
  ASSUME NEW r \in Seq(Field), data = DataOf(r), NEW k \in 1..Len(r)
  PROVE  /\ Begins(r, k - 1) < Len(data)
         /\ NextField(Begins(r, k - 1)) = Begins(r, k)
<1> DEFINE a == Begins(r, k - 1)
           e == Encoded(r[k])
<1>1. /\ a \in Nat /\ Len(data) \in Nat /\ Begins(r, k) = a + Len(e) /\ a + Len(e) <= Len(data)
      /\ \A i \in 1..Len(e) : ByteAt(a + i - 1) = e[i]
  BY FieldRead
<1>2. Len(e) = e[1] + 1 /\ e[1] \in Nat
  <2>1. r[k] \in Field
    OBVIOUS
  <2> QED
    BY <2>1, EncodedFacts
<1> HIDE DEF a, e
<1>3. 1 \in 1..Len(e) /\ a + 1 - 1 = a
  BY <1>1, <1>2
<1>4. ByteAt(a) = e[1]
  BY <1>1, <1>3
<1>5. a < Len(data)
  BY <1>1, <1>2
<1>6. a + ByteAt(a) + 1 = Begins(r, k)
  BY <1>1, <1>2, <1>4
<1> QED
  BY <1>5, <1>6 DEF NextField, a

(* No field is longer than the report, so no length byte is above 30. *)
LEMMA HeadSmall ==
  ASSUME NEW r \in Seq(Field), data = DataOf(r), Len(data) <= 31, NEW k \in 0..Len(r)
  PROVE  ByteAt(Begins(r, k)) \in Nat /\ ByteAt(Begins(r, k)) <= 30
<1>0. Len(r) \in Nat
  OBVIOUS
<1>1. CASE k = Len(r)
  <2>1. data \in Seq(Nat) /\ Len(data) = Begins(r, k)
    BY <1>1, EndOfData
  <2>2. Len(data) \in Nat
    BY <2>1
  <2>3. ByteAt(Len(data)) = 0
    BY <2>1, <2>2, ByteFacts
  <2> QED
    BY <2>1, <2>3
<1>2. CASE k # Len(r)
  <2> DEFINE j == k + 1
             e == Encoded(r[j])
             a == Begins(r, k)
  <2>1. j \in 1..Len(r) /\ j - 1 = k
    BY <1>0, <1>2
  <2>2. e[1] \in Nat /\ Len(e) = e[1] + 1
    <3>1. r[j] \in Field
      BY <2>1
    <3> QED
      BY <3>1, EncodedFacts
  <2>3. /\ a \in Nat /\ Len(data) \in Nat /\ a + Len(e) <= Len(data)
        /\ \A i \in 1..Len(e) : ByteAt(a + i - 1) = e[i]
    BY <2>1, FieldRead
  <2> HIDE DEF j, e, a
  <2>4. 1 \in 1..Len(e) /\ a + 1 - 1 = a
    BY <2>2, <2>3
  <2>5. ByteAt(a) = e[1]
    BY <2>3, <2>4
  <2>6. e[1] <= 30
    BY <2>2, <2>3
  <2> QED
    BY <2>2, <2>5, <2>6 DEF a
<1> QED
  BY <1>1, <1>2

LEMMA NusFacts ==
  /\ Len(NusUuid) = 16 /\ NusUuid \in Seq(Nat)
  /\ NusUuid[1] = 158 /\ NusUuid[7] = 169 /\ NusUuid[8] = 224
BY DEF NusUuid

(* A padding byte is never taken for a field with the NUS: the type would  *)
(* be the length, 6 or 7, of the field behind it, and the seventh or the   *)
(* eighth byte of the UUID the length of the one behind that.              *)
LEMMA PaddingIsNoNus ==
  ASSUME NEW r \in Seq(Field), data = DataOf(r), Len(data) <= 31,
         NEW k \in 1..Len(r), r[k] = Padding
  PROVE  ~NusAt(Begins(r, k - 1))
<1> DEFINE a == Begins(r, k - 1)
<1>0. Len(r) \in Nat /\ k \in Nat /\ k \in 0..Len(r)
  OBVIOUS
<1>1. a \in Nat /\ Begins(r, k) = a + 1
  <2> DEFINE e == Encoded(r[k])
  <2>1. a \in Nat /\ Begins(r, k) = a + Len(e)
    BY FieldRead
  <2>2. e = <<0>>
    BY PaddingEncoded
  <2>3. Len(e) = 1
    BY <2>2
  <2> QED
    BY <2>1, <2>3
<1>s. SUFFICES ASSUME ByteAt(a + 1) \in {6, 7},
                      \A i \in 1..16 : ByteAt(a + 1 + i) = NusUuid[i]
               PROVE  FALSE
  BY DEF NusAt, UuidTypes128
<1>2. k # Len(r)
  <2> SUFFICES ASSUME k = Len(r) PROVE FALSE
    OBVIOUS
  <2>1. data \in Seq(Nat) /\ Len(data) = a + 1
    BY <1>1, EndOfData
  <2>2. a + 1 \in Nat /\ a + 1 >= Len(data)
    BY <1>1, <2>1
  <2>3. ByteAt(a + 1) = 0
    BY <2>1, <2>2, ByteFacts
  <2> DEFINE x == ByteAt(a + 1)
  <2>4. x = 0 /\ x \in {6, 7}
    BY <2>3, <1>s
  <2> HIDE DEF x
  <2> QED
    BY <2>4
<1> DEFINE j == k + 1
           e == Encoded(r[j])
           n == ByteAt(a + 1)
<1>3. j \in 1..Len(r) /\ j \in 0..Len(r) /\ j - 1 = k
  <2> DEFINE m == Len(r)
  <2>1. m \in Nat /\ k \in 0..m /\ k # m
    BY <1>0, <1>2
  <2> HIDE DEF m
  <2>2. j \in 1..m /\ j \in 0..m /\ j - 1 = k
    BY <2>1
  <2> QED
    BY <2>2 DEF m
<1>4. NextField(a + 1) = Begins(r, j)
  BY <1>1, <1>3, NextIsNext
<1>5. Begins(r, j) = (a + 1) + n + 1
  BY <1>4 DEF NextField
<1>6. ByteAt(Begins(r, j)) \in Nat /\ ByteAt(Begins(r, j)) <= 30
  BY <1>3, HeadSmall
<1>7. n \in {6, 7}
  BY <1>s
<1> DEFINE i == n + 1
<1> HIDE DEF n
<1>8. i \in 1..16 /\ (i = 7 \/ i = 8)
  BY <1>7
<1>9. Begins(r, j) = a + 1 + i
  <2> HIDE DEF a, j
  <2> QED
    BY <1>1, <1>5, <1>7
<1> HIDE DEF i
<1>10. ByteAt(a + 1 + i) = NusUuid[i]
  BY <1>s, <1>8
<1>11. NusUuid[i] = 169 \/ NusUuid[i] = 224
  <2>1. CASE i = 7
    BY <2>1, NusFacts
  <2>2. CASE i = 8
    BY <2>2, NusFacts
  <2> QED
    BY <1>8, <2>1, <2>2
<1> HIDE DEF j
<1>12. ByteAt(a + 1 + i) <= 30
  BY <1>6, <1>9
<1> DEFINE x == ByteAt(a + 1 + i)
<1>13. x = 169 \/ x = 224
  BY <1>10, <1>11
<1> HIDE DEF x
<1>14. x <= 30
  BY <1>12 DEF x
<1> QED
  BY <1>13, <1>14

(* sd_ble_uuid_decode is given the NUS exactly at a field that offers it.  *)
LEMMA NusHere ==
  ASSUME NEW r \in Seq(Field), data = DataOf(r), Len(data) <= 31, NEW k \in 1..Len(r)
  PROVE  NusAt(Begins(r, k - 1)) <=> Offers(r[k])
<1> DEFINE f == r[k]
           a == Begins(r, k - 1)
           e == Encoded(f)
           n == Len(f.body)
<1> SUFFICES NusAt(a) <=> Offers(f)
  OBVIOUS
<1>0. f \in Field
  OBVIOUS
<1>1. CASE f = Padding
  <2>1. ~NusAt(a)
    BY <1>1, PaddingIsNoNus
  <2>2. f.type = 0
    BY <1>1 DEF Padding
  <2>3. ~Offers(f)
    BY <2>2 DEF Offers, UuidTypes128
  <2> QED
    BY <2>1, <2>3
<1>2. CASE f # Padding
  <2>1. /\ Len(e) = n + 2 /\ e[2] = f.type
        /\ \A i \in 1..n : e[2 + i] = f.body[i]
    BY <1>0, <1>2, FieldEncoded
  <2>2. /\ a \in Nat /\ Begins(r, k) = a + Len(e)
        /\ \A i \in 1..Len(e) : ByteAt(a + i - 1) = e[i]
    BY FieldRead
  <2>3. n \in Nat /\ f.body \in Seq(Nat) /\ (f.type \in UuidTypes128 => n \in {0, 16})
    BY <1>0, FieldFacts
  <2> DEFINE b == f.body
             t == f.type
  <2>4. Offers(f) <=> t \in UuidTypes128 /\ b = NusUuid
    BY DEF Offers
  <2> HIDE DEF a, e, n, f
  <2>5. ByteAt(a + 1) = f.type
    <3>1. 2 \in 1..Len(e) /\ a + 2 - 1 = a + 1
      BY <2>1, <2>2, <2>3
    <3> QED
      BY <2>1, <2>2, <3>1
  <2>6. CASE f.type \notin UuidTypes128
    <3>1. ~NusAt(a)
      BY <2>5, <2>6 DEF NusAt
    <3>2. ~Offers(f)
      BY <2>6 DEF Offers
    <3> QED
      BY <3>1, <3>2
  <2>7. CASE f.type \in UuidTypes128 /\ n = 0
    <3>1. ByteAt(Begins(r, k)) <= 30 /\ ByteAt(Begins(r, k)) \in Nat
      <4>1. k \in 0..Len(r)
        OBVIOUS
      <4> QED
        BY <4>1, HeadSmall
    <3>2. Begins(r, k) = a + 1 + 1
      BY <2>1, <2>2, <2>7
    <3>3. ~NusAt(a)
      <4>1. ByteAt(a + 1 + 1) # NusUuid[1]
        BY <3>1, <3>2, NusFacts
      <4>2. 1 \in 1..16
        OBVIOUS
      <4> QED
        BY <4>1, <4>2 DEF NusAt
    <3>4. b # NusUuid
      <4> SUFFICES ASSUME b = NusUuid PROVE FALSE
        OBVIOUS
      <4>1. Len(b) = 0
        BY <2>7 DEF n
      <4>2. Len(b) = 16
        BY NusFacts
      <4> QED
        BY <4>1, <4>2
    <3> HIDE DEF b
    <3> QED
      BY <2>4, <3>3, <3>4
  <2>8. CASE f.type \in UuidTypes128 /\ n = 16
    <3>1. ASSUME NEW i \in 1..16 PROVE ByteAt(a + 1 + i) = b[i]
      <4>1. 2 + i \in 1..Len(e) /\ a + (2 + i) - 1 = a + 1 + i /\ i \in 1..n
        BY <2>1, <2>2, <2>8
      <4>2. ByteAt(a + (2 + i) - 1) = e[2 + i]
        BY <2>2, <4>1
      <4>3. e[2 + i] = f.body[i]
        BY <2>1, <4>1
      <4> QED
        BY <4>1, <4>2, <4>3
    <3>2. NusAt(a) <=> \A i \in 1..16 : b[i] = NusUuid[i]
      BY <2>5, <2>8, <3>1 DEF NusAt
    <3>3. b \in Seq(Nat) /\ Len(b) = 16
      BY <2>3, <2>8 DEF n
    <3> HIDE DEF b
    <3>4. ASSUME \A i \in 1..16 : b[i] = NusUuid[i] PROVE b = NusUuid
      <4>1. NusUuid \in Seq(Nat) /\ Len(b) = Len(NusUuid)
        BY <3>3, NusFacts
      <4>2. \A i \in 1..Len(b) : b[i] = NusUuid[i]
        BY <3>3, <3>4
      <4> QED
        BY <3>3, <4>1, <4>2, SeqEqual
    <3>5. b = NusUuid => \A i \in 1..16 : b[i] = NusUuid[i]
      OBVIOUS
    <3>6. t \in UuidTypes128
      BY <2>8
    <3> HIDE DEF t
    <3> QED
      BY <2>4, <3>2, <3>4, <3>5, <3>6
  <2> QED
    BY <2>3, <2>6, <2>7, <2>8
<1> QED
  BY <1>1, <1>2

-----------------------------------------------------------------------------
(***************************************************************************)
(* The inductive invariant: the index is at the beginning of a field, and  *)
(* none of those behind it offers the NUS.                                 *)
(***************************************************************************)
InStep ==
  \E k \in 0..Len(fields) :
    /\ index = Begins(fields, k)
    /\ \A j \in 1..k : ~Offers(fields[j])
    /\ found => k < Len(fields) /\ Offers(fields[k + 1])

Reading ==
  sender # NoPeer =>
    /\ sender \in Peers
    /\ fields \in Seq(Field) /\ data = DataOf(fields) /\ Len(data) <= 31
    /\ InStep

AdvInv == found \in BOOLEAN /\ Reading

LEMMA HearStep ==
  ASSUME NEW p \in Peers, NEW r \in Adverts[p], Hear(p, r)
  PROVE  AdvInv'
<1>1. fields' = r /\ data' = DataOf(r) /\ index' = 0 /\ found' = FALSE
  BY DEF Hear
<1>2. r \in Seq(Field) /\ Len(DataOf(r)) <= 31
  <2> DEFINE n == Len(DataOf(r))
  <2>1. r \in Seq(Field) /\ n \in 1..31
    BY AdvertsAssumption, Zenon
  <2> HIDE DEF n
  <2>2. n <= 31
    BY <2>1
  <2> QED
    BY <2>1, <2>2 DEF n
<1>3. Begins(r, 0) = 0
  <2>1. r \in Seq(Field)
    BY <1>2
  <2>2. Bytes(r)[0] = <<>>
    BY <2>1, BytesFacts
  <2> QED
    BY <2>2 DEF Begins
<1>4. InStep'
  <2>1. 0 \in 0..Len(r) /\ 1..0 = {}
    BY <1>2
  <2>2. index' = Begins(fields', 0) /\ 0 \in 0..Len(fields')
    BY <1>1, <1>3, <2>1
  <2>3. \A j \in 1..0 : ~Offers(fields'[j])
    BY <2>1
  <2> QED
    BY <1>1, <2>2, <2>3, Zenon DEF InStep
<1>5. Reading'
  <2>1. sender' \in Peers
    BY DEF Hear
  <2> QED
    BY <1>1, <1>2, <1>4, <2>1, Zenon DEF Reading
<1>6. found' \in BOOLEAN
  BY <1>1
<1> QED
  BY <1>5, <1>6 DEF AdvInv

LEMMA ReadFieldStep ==
  ASSUME AdvInv, ReadField
  PROVE  AdvInv'
<1> DEFINE r == fields
<1>0. /\ sender # NoPeer /\ index < Len(data) /\ ~found
      /\ found' = NusAt(index)
      /\ index' = IF NusAt(index) THEN index ELSE NextField(index)
      /\ sender' = sender /\ data' = data /\ fields' = r
  BY DEF ReadField
<1>1. /\ sender \in Peers
      /\ r \in Seq(Field) /\ data = DataOf(r) /\ Len(data) <= 31 /\ InStep
  BY <1>0 DEF AdvInv, Reading
<1>2. PICK k \in 0..Len(r) : index = Begins(r, k) /\ \A j \in 1..k : ~Offers(r[j])
  BY <1>1 DEF InStep
<1> HIDE DEF r
<1>3. k # Len(r)
  <2> SUFFICES ASSUME k = Len(r) PROVE FALSE
    OBVIOUS
  <2>1. index = Len(data) /\ data \in Seq(Nat)
    BY <1>1, <1>2, EndOfData
  <2>2. Len(data) \in Nat
    BY <2>1
  <2> QED
    BY <1>0, <2>1, <2>2
<1>4. Len(r) \in Nat /\ k + 1 \in 1..Len(r) /\ (k + 1) - 1 = k /\ k < Len(r) /\ k \in Nat
      /\ k + 1 \in 0..Len(r)
  <2>1. Len(r) \in Nat
    BY <1>1
  <2> QED
    BY <1>3, <2>1
<1>5. NusAt(index) <=> Offers(r[k + 1])
  BY <1>1, <1>2, <1>4, NusHere
<1>6. NextField(index) = Begins(r, k + 1)
  BY <1>1, <1>2, <1>4, NextIsNext
<1>7. InStep'
  <2>1. CASE NusAt(index)
    <3>1. index' = Begins(fields', k) /\ k \in 0..Len(fields') /\ found'
          /\ k < Len(fields') /\ Offers(fields'[k + 1])
      BY <1>0, <1>2, <1>4, <1>5, <2>1
    <3>2. \A j \in 1..k : ~Offers(fields'[j])
      BY <1>0, <1>2
    <3> QED
      BY <3>1, <3>2, Zenon DEF InStep
  <2>2. CASE ~NusAt(index)
    <3>1. index' = Begins(fields', k + 1) /\ k + 1 \in 0..Len(fields') /\ ~found'
      BY <1>0, <1>4, <1>6, <2>2
    <3>2. \A j \in 1..(k + 1) : ~Offers(fields'[j])
      <4>1. \A j \in 1..(k + 1) : j \in 1..k \/ j = k + 1
        BY <1>4
      <4> QED
        BY <1>0, <1>2, <1>5, <2>2, <4>1
    <3> QED
      BY <3>1, <3>2, Zenon DEF InStep
  <2> QED
    BY <2>1, <2>2
<1>8. Reading'
  BY <1>0, <1>1, <1>7, Zenon DEF Reading, r
<1>9. found' \in BOOLEAN
  <2>1. NusAt(index) \in BOOLEAN
    BY DEF NusAt
  <2> QED
    BY <1>0, <2>1
<1> QED
  BY <1>8, <1>9 DEF AdvInv

(* is_uuid_present only ever stops at the beginnings of fields. *)
THEOREM ParserInvariant ==
  AdvSpec => []AdvInv
<1>1. AdvInit => AdvInv
  BY DEF AdvInit, AdvInv, Reading
<1>2. AdvInv /\ [AdvNext]_<<discVars, advVars>> => AdvInv'
  <2> SUFFICES ASSUME AdvInv, [AdvNext]_<<discVars, advVars>> PROVE AdvInv'
    OBVIOUS
  <2>1. ASSUME NEW p \in Peers, NEW r \in Adverts[p], Hear(p, r) PROVE AdvInv'
    BY <2>1, HearStep
  <2>2. CASE ReadField
    BY <2>2, ReadFieldStep
  <2>3. CASE Answered
    BY <2>3 DEF Answered, AdvInv, Reading
  <2>4. ASSUME UNCHANGED advVars PROVE AdvInv'
    BY <2>4, Zenon DEF advVars, AdvInv, Reading, InStep
  <2>5. CASE Linked
    BY <2>4, <2>5 DEF Linked
  <2>6. CASE UNCHANGED <<discVars, advVars>>
    BY <2>4, <2>6
  <2> QED
    BY <2>1, <2>2, <2>3, <2>5, <2>6 DEF AdvNext
<1> QED
  BY <1>1, <1>2, PTL DEF AdvSpec

(* is_uuid_present returns true for the reports that offer the NUS and for *)
(* no other, whatever fields stand before it, behind it or around its      *)
(* bytes.                                                                  *)
THEOREM ParserRecognises ==
  AdvSpec => []RecognisesNus
<1>1. AdvInv => RecognisesNus
  <2> SUFFICES ASSUME AdvInv, Done
               PROVE  found <=> \E k \in DOMAIN fields : Offers(fields[k])
    BY DEF RecognisesNus, Offers
  <2>1. fields \in Seq(Field) /\ data = DataOf(fields) /\ InStep /\ (found \/ index >= Len(data))
    BY DEF AdvInv, Reading, Done
  <2>2. PICK k \in 0..Len(fields) :
          /\ index = Begins(fields, k)
          /\ \A j \in 1..k : ~Offers(fields[j])
          /\ found => k < Len(fields) /\ Offers(fields[k + 1])
    BY <2>1 DEF InStep
  <2>3. Len(fields) \in Nat /\ DOMAIN fields = 1..Len(fields)
    BY <2>1
  <2>4. CASE found
    <3>1. k + 1 \in DOMAIN fields
      BY <2>2, <2>3, <2>4
    <3> QED
      BY <2>2, <2>4, <3>1
  <2>5. CASE ~found
    <3>1. k = Len(fields)
      <4> SUFFICES ASSUME k # Len(fields) PROVE FALSE
        OBVIOUS
      <4>1. k + 1 \in 1..Len(fields) /\ (k + 1) - 1 = k
        <5> DEFINE n == Len(fields)
        <5>1. n \in Nat /\ k \in 0..n /\ k # n
          BY <2>3
        <5> HIDE DEF n
        <5>2. k + 1 \in 1..n /\ (k + 1) - 1 = k
          BY <5>1
        <5> QED
          BY <5>2 DEF n
      <4>2. index < Len(data)
        BY <2>1, <2>2, <4>1, NextIsNext
      <4>3. index \in Nat /\ Len(data) \in Nat
        <5>1. index \in Nat
          BY <2>1, <2>2, BeginIsNat
        <5>2. data \in Seq(Nat)
          BY <2>1, EndOfData
        <5> QED
          BY <5>1, <5>2
      <4> QED
        BY <2>1, <2>5, <4>2, <4>3
    <3> QED
      BY <2>2, <2>3, <2>5, <3>1
  <2> QED
    BY <2>4, <2>5
<1> QED
  BY <1>1, ParserInvariant, PTL

(* What the parser adds leaves the walk as it was: every behaviour of the  *)
(* two is one of DbDiscovery, and keeps what is proved of it.              *)
THEOREM ParserLeavesWalk ==
  AdvSpec => DiscSpec
<1>1. AdvInit => DiscInit
  BY DEF AdvInit
<1>2. Reading /\ [AdvNext]_<<discVars, advVars>> => [DiscNext]_discVars
  <2> SUFFICES ASSUME [AdvNext]_<<discVars, advVars>>, Reading, ~UNCHANGED discVars
               PROVE  DiscNext
    OBVIOUS
  <2>1. CASE Answered
    <3>1. found /\ Connect(sender) /\ sender \in Peers
      BY <2>1 DEF Answered, Done, Reading
    <3> QED
      BY <3>1, Zenon DEF DiscNext
  <2>2. CASE Linked
    BY <2>2, Zenon DEF Linked, DiscNext
  <2>3. ~(\E p \in Peers : \E r \in Adverts[p] : Hear(p, r)) /\ ~ReadField
    BY DEF Hear, ReadField
  <2> QED
    BY <2>1, <2>2, <2>3 DEF AdvNext
<1>3. AdvInv => Reading
  BY DEF AdvInv
<1> QED
  BY <1>1, <1>2, <1>3, ParserInvariant, PTL DEF AdvSpec, DiscSpec
=============================================================================
