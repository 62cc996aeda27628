---------------------------- MODULE HciIoProofs ----------------------------
(***************************************************************************)
(* Proofs about the requests of bthport: HciRead, for any reads and any    *)
(* number of packets, and HciWrite (W), for any set of writes.  When no    *)
(* write is both cancelled and refused by the UART, each is completed at   *)
(* most once, no thread uses an object that is gone, and nothing is left   *)
(* behind.                                                                 *)
(***************************************************************************)
EXTENDS MCHciIo, FiniteSetTheorems, TLAPS

\* A thread on its way to complete a request holds a match.
MatchHeld ==
    /\ \A r \in Requests : ioctl[r] = "deliver" => match[r] \in Match
    /\ pump = "deliver" => match[Pump] \in Match

Forwarded == {r \in Requests : ioctl[r] = "forwarded"}

\* NoStrandedPair, by the name of its set.
FewReadsBeside == list # <<>> => Len(queue) <= Cardinality(Forwarded)

IInv == TypeOK /\ MatchHeld /\ FewReadsBeside

-----------------------------------------------------------------------------
\* The IOCTLs between their two sections are finitely many.
LEMMA ForwardedFinite == IsFiniteSet(Forwarded) /\ Cardinality(Forwarded) \in Nat
<1>1. Forwarded \in SUBSET Requests
  BY DEF Forwarded
<1>2. IsFiniteSet(Forwarded)
  BY <1>1, RequestsAssumption, FS_Subset
<1> QED BY <1>2, FS_CardinalityType

\* One more IOCTL between its sections, and one less.
LEMMA OneMoreForwarded ==
    ASSUME NEW r \in Requests, TypeOK, Goto(r, "idle", "forwarded")
    PROVE  Cardinality(Forwarded') = Cardinality(Forwarded) + 1
<1>1. Forwarded' = Forwarded \cup {r} /\ r \notin Forwarded
  BY DEF Forwarded, Goto, TypeOK
<1> QED BY <1>1, ForwardedFinite, FS_AddElement

LEMMA OneLessForwarded ==
    ASSUME NEW r \in Requests, TypeOK, NEW to \in {"deliver", "fail", "done"},
           Goto(r, "forwarded", to)
    PROVE  Cardinality(Forwarded') = Cardinality(Forwarded) - 1
<1>1. Forwarded' = Forwarded \ {r} /\ r \in Forwarded
  BY DEF Forwarded, Goto, TypeOK
<1> QED BY <1>1, ForwardedFinite, FS_RemoveElement

\* A request leaves the queue: it gets one shorter and keeps its elements.
LEMMA RemoveShortens ==
    ASSUME NEW s \in Seq(Requests), NEW i \in DOMAIN s
    PROVE  RemoveAt(s, i) \in Seq(Requests) /\ Len(RemoveAt(s, i)) = Len(s) - 1
BY DEF RemoveAt

-----------------------------------------------------------------------------
LEMMA InvInit == Init => IInv
BY PacketsAssumption DEF Init, IInv, TypeOK, MatchHeld, FewReadsBeside

\* Completing a match keeps the types of what it touches.
LEMMA CompleteTypes ==
    ASSUME TypeOK, NEW m \in Match, Complete(m)
    PROVE  /\ completions' \in [Requests -> Nat]
           /\ delivered' \in Seq(1 .. NumPackets)
           /\ lost' \in SUBSET (1 .. NumPackets)
<1>1. m.request \in Requests /\ m.packet \in 1 .. NumPackets
  BY DEF Match
<1>2. completions' \in [Requests -> Nat]
  BY <1>1 DEF TypeOK, Complete
<1>3. delivered' \in Seq(1 .. NumPackets)
  <2>1. Append(delivered, m.packet) \in Seq(1 .. NumPackets)
    BY <1>1 DEF TypeOK
  <2>2. delivered' = Append(delivered, m.packet) \/ delivered' = delivered
    BY DEF Complete
  <2> QED BY <2>1, <2>2 DEF TypeOK
<1>4. lost' \in SUBSET (1 .. NumPackets)
  BY <1>1 DEF TypeOK, Complete
<1> QED BY <1>2, <1>3, <1>4

LEMMA TypeStep == TypeOK /\ MatchHeld /\ [Next]_vars => TypeOK' /\ MatchHeld'
<1> SUFFICES ASSUME TypeOK, MatchHeld, [Next]_vars PROVE TypeOK' /\ MatchHeld'
  OBVIOUS
<1> USE PacketsAssumption, RequestsAssumption DEF TypeOK, MatchHeld, Goto
<1>1. CASE UNCHANGED vars
  BY <1>1 DEF vars
<1>2. ASSUME NEW r \in Requests, Forward(r) PROVE TypeOK' /\ MatchHeld'
  BY <1>2 DEF Forward
<1>3. ASSUME NEW r \in Requests, ForwardFails(r) PROVE TypeOK' /\ MatchHeld'
  BY <1>3 DEF ForwardFails
<1>4. ASSUME NEW r \in Requests, IoctlStep(r) PROVE TypeOK' /\ MatchHeld'
  <2>1. CASE MatchRequest(r)
    <3>1. [request |-> Head(queue), packet |-> Head(list)] \in Match
      BY <2>1 DEF MatchRequest, Match
    <3>2. match' \in [Requests \cup {Pump} -> Match \cup {<<>>}] /\ match'[r] \in Match
      BY <2>1, <3>1 DEF MatchRequest, Pair
    <3>3. queue' \in Seq(Requests) /\ list' \in Seq(1 .. NumPackets)
      BY <2>1 DEF MatchRequest, Pair
    <3>4. \A t \in Requests \cup {Pump} : t # r => match'[t] = match[t]
      BY <2>1 DEF MatchRequest, Pair
    <3> QED BY <2>1, <3>2, <3>3, <3>4 DEF MatchRequest
  <2>2. CASE NoRequest(r)
    BY <2>2 DEF NoRequest
  <2>3. CASE StaysQueued(r)
    BY <2>3 DEF StaysQueued
  <2>4. CASE Deliver(r)
    <3>1. match[r] \in Match /\ Complete(match[r])
      BY <2>4 DEF Deliver
    <3>2. /\ completions' \in [Requests -> Nat]
          /\ delivered' \in Seq(1 .. NumPackets)
          /\ lost' \in SUBSET (1 .. NumPackets)
      BY <3>1, CompleteTypes
    <3> QED BY <2>4, <3>2 DEF Deliver
  <2>5. CASE CompleteFailed(r)
    BY <2>5 DEF CompleteFailed
  <2> QED BY <1>4, <2>1, <2>2, <2>3, <2>4, <2>5 DEF IoctlStep
<1>5. ASSUME NEW i \in DOMAIN queue, CancelQueued(i) PROVE TypeOK' /\ MatchHeld'
  BY <1>5, RemoveShortens DEF CancelQueued
<1>6. CASE PacketArrives
  <2>1. CASE PacketFindsRequest
    BY <2>1 DEF PacketFindsRequest, Pair, Match
  <2>2. CASE PacketWaits
    BY <2>2 DEF PacketWaits
  <2>3. CASE PacketDropped
    BY <2>3 DEF PacketDropped
  <2> QED BY <1>6, <2>1, <2>2, <2>3 DEF PacketArrives
<1>7. CASE PumpDelivers
  <2>1. match[Pump] \in Match /\ Complete(match[Pump])
    BY <1>7 DEF PumpDelivers
  <2>2. /\ completions' \in [Requests -> Nat]
        /\ delivered' \in Seq(1 .. NumPackets)
        /\ lost' \in SUBSET (1 .. NumPackets)
    BY <2>1, CompleteTypes
  <2> QED BY <1>7, <2>2 DEF PumpDelivers
<1> QED BY <1>1, <1>2, <1>3, <1>4, <1>5, <1>6, <1>7 DEF Next

LEMMA FewStep == TypeOK /\ FewReadsBeside /\ [Next]_vars => FewReadsBeside'
<1> SUFFICES ASSUME TypeOK, FewReadsBeside, [Next]_vars PROVE FewReadsBeside'
  OBVIOUS
<1> USE ForwardedFinite DEF FewReadsBeside
<1>1. CASE UNCHANGED vars
  <2>1. Forwarded' = Forwarded /\ UNCHANGED <<list, queue>>
    BY <1>1 DEF vars, Forwarded
  <2> QED BY <2>1
<1>2. ASSUME NEW r \in Requests, Forward(r) PROVE FewReadsBeside'
  <2>1. Cardinality(Forwarded') = Cardinality(Forwarded) + 1
    BY <1>2, OneMoreForwarded DEF Forward
  <2>2. list' = list /\ Len(queue') = Len(queue) + 1
    BY <1>2 DEF Forward, TypeOK
  <2> QED BY <2>1, <2>2 DEF TypeOK
<1>3. ASSUME NEW r \in Requests, ForwardFails(r) \/ Deliver(r) \/ CompleteFailed(r)
      PROVE FewReadsBeside'
  <2>1. Forwarded' = Forwarded /\ UNCHANGED <<list, queue>>
    BY <1>3 DEF ForwardFails, Deliver, CompleteFailed, Goto, Forwarded, TypeOK
  <2> QED BY <2>1
<1>4. ASSUME NEW r \in Requests, MatchRequest(r) PROVE FewReadsBeside'
  <2>1. Cardinality(Forwarded') = Cardinality(Forwarded) - 1
    BY <1>4, OneLessForwarded DEF MatchRequest
  <2>2. list # <<>> /\ Len(queue') = Len(queue) - 1
    BY <1>4 DEF MatchRequest, Pair, TypeOK
  <2> QED BY <2>1, <2>2 DEF TypeOK
<1>5. ASSUME NEW r \in Requests, NoRequest(r) \/ StaysQueued(r) PROVE FewReadsBeside'
  <2>1. Cardinality(Forwarded') = Cardinality(Forwarded) - 1 /\ Cardinality(Forwarded') \in Nat
    <3>1. Cardinality(Forwarded') = Cardinality(Forwarded) - 1
      BY <1>5, OneLessForwarded DEF NoRequest, StaysQueued
    <3>2. Forwarded' \in SUBSET Forwarded
      BY <1>5 DEF NoRequest, StaysQueued, Goto, Forwarded, TypeOK
    <3> QED BY <3>1, <3>2, FS_Subset, FS_CardinalityType
  <2>2. UNCHANGED <<list, queue>> /\ (list = <<>> \/ queue = <<>>)
    BY <1>5 DEF NoRequest, StaysQueued
  <2> QED BY <2>1, <2>2 DEF TypeOK
<1>6. ASSUME NEW i \in DOMAIN queue, CancelQueued(i) PROVE FewReadsBeside'
  <2>1. Forwarded' = Forwarded /\ list' = list /\ Len(queue') = Len(queue) - 1
    BY <1>6, RemoveShortens DEF CancelQueued, Forwarded, TypeOK
  <2> QED BY <2>1 DEF TypeOK
<1>7. CASE PacketArrives \/ PumpDelivers
  <2>1. Forwarded' = Forwarded
    BY <1>7 DEF PacketArrives, PacketFindsRequest, PacketWaits, PacketDropped, PumpDelivers,
                Forwarded
  <2>2. CASE PacketFindsRequest
    <3>1. list' = list /\ Len(queue') = Len(queue) - 1 /\ Len(queue) \in Nat
      BY <2>2 DEF PacketFindsRequest, Pair, TypeOK
    <3> QED BY <2>1, <3>1
  <2>3. CASE PacketWaits \/ PacketDropped
    <3>1. queue' = <<>>
      BY <2>3 DEF PacketWaits, PacketDropped
    <3> QED BY <2>1, <3>1
  <2>4. CASE PumpDelivers
    BY <2>1, <2>4 DEF PumpDelivers
  <2> QED BY <1>7, <2>2, <2>3, <2>4 DEF PacketArrives
<1> QED BY <1>1, <1>2, <1>3, <1>4, <1>5, <1>6, <1>7 DEF Next, IoctlStep

LEMMA InvAlways == Spec => []IInv
<1>1. IInv /\ [Next]_vars => IInv'
  BY TypeStep, FewStep DEF IInv
<1> QED BY InvInit, <1>1, PTL DEF Spec

-----------------------------------------------------------------------------
\* The queue, the list and the matches keep their types, for any reads and any
\* number of packets.
THEOREM TypeCorrect == Spec => []TypeOK
<1>1. IInv => TypeOK
  BY DEF IInv
<1> QED BY <1>1, InvAlways, PTL

\* However many IOCTLs run, reads and packets never pile up against each other:
\* when no IOCTL is between its two sections of QueueAccessLock, either no read
\* waits or no packet does.
THEOREM NoPairStranded == Spec => []NoStrandedPair
<1>1. IInv => NoStrandedPair
  BY DEF IInv, FewReadsBeside, Forwarded, NoStrandedPair
<1> QED BY <1>1, InvAlways, PTL

-----------------------------------------------------------------------------
\* Where the packets are, as sets.
Threads == Requests \cup {Pump}

InHand == {p \in 1 .. NumPackets :
              \E t \in Threads : match[t] # <<>> /\ match[t].packet = p}

\* Two matches are never of the same packet.
OneMatchEach ==
    \A t, u \in Threads :
        match[t] # <<>> /\ match[u] # <<>> /\ match[t].packet = match[u].packet => t = u

\* A match lasts while its thread delivers it.
MatchesFollowCode ==
    /\ \A r \in Requests : match[r] # <<>> => ioctl[r] = "deliver"
    /\ match[Pump] # <<>> => pump = "deliver"
    /\ OneMatchEach

DeliveredOnce == \A i, j \in DOMAIN delivered : delivered[i] = delivered[j] => i = j

\* PacketsAccounted without the counting: the four places share the packets
\* that have arrived, each packet in one of them.
Placed ==
    /\ Range(list) \cup InHand \cup Range(delivered) \cup lost = 1 .. arrived
    /\ Range(list) \cap (InHand \cup Range(delivered) \cup lost) = {}
    /\ InHand \cap (Range(delivered) \cup lost) = {}
    /\ Range(delivered) \cap lost = {}

PlaceInv == MatchesFollowCode /\ DeliveredOnce /\ Placed /\ ListInOrder

LEMMA PlaceInit == Init => PlaceInv
BY DEF Init, PlaceInv, MatchesFollowCode, OneMatchEach, DeliveredOnce, Placed, ListInOrder,
       InHand, Threads, Range

LEMMA HeadTyped ==
    ASSUME NEW S, NEW s \in Seq(S), s # <<>>
    PROVE  Head(s) \in S
OBVIOUS

\* What a step does to the elements of a sequence.
LEMMA TailRange ==
    ASSUME NEW s \in Seq(Nat), s # <<>>, \A i, j \in DOMAIN s : i < j => s[i] < s[j]
    PROVE  /\ Range(Tail(s)) = Range(s) \ {Head(s)} /\ Head(s) \in Range(s)
           /\ \A i, j \in DOMAIN Tail(s) : i < j => Tail(s)[i] < Tail(s)[j]
<1>1. /\ Len(s) \in Nat /\ Len(s) >= 1 /\ DOMAIN s = 1 .. Len(s) /\ Head(s) = s[1]
      /\ DOMAIN Tail(s) = 1 .. Len(s) - 1
      /\ \A i \in 1 .. Len(s) - 1 : Tail(s)[i] = s[i + 1]
      /\ \A i \in DOMAIN s : s[i] \in Nat
  OBVIOUS
<1>2. Head(s) \in Range(s)
  BY <1>1 DEF Range
<1>3. \A i, j \in DOMAIN Tail(s) : i < j => Tail(s)[i] < Tail(s)[j]
  BY <1>1
<1>4. ASSUME NEW p \in Range(Tail(s)) PROVE p \in Range(s) \ {Head(s)}
  <2>1. PICK i \in 1 .. Len(s) - 1 : p = s[i + 1]
    BY <1>1 DEF Range
  <2>2. i + 1 \in DOMAIN s /\ 1 \in DOMAIN s /\ 1 < i + 1
    BY <1>1
  <2>3. s[1] < s[i + 1]
    BY <2>2
  <2> QED BY <1>1, <2>1, <2>2, <2>3 DEF Range
<1>5. ASSUME NEW p \in Range(s) \ {Head(s)} PROVE p \in Range(Tail(s))
  <2>1. PICK i \in DOMAIN s : p = s[i]
    BY DEF Range
  <2>2. i # 1
    BY <1>1, <2>1
  <2>3. i - 1 \in DOMAIN Tail(s) /\ Tail(s)[i - 1] = s[i]
    BY <1>1, <2>2
  <2> QED BY <2>1, <2>3 DEF Range
<1> QED BY <1>2, <1>3, <1>4, <1>5

LEMMA AppendRange ==
    ASSUME NEW s \in Seq(Nat), NEW p \in Nat, p \notin Range(s)
    PROVE  /\ Range(Append(s, p)) = Range(s) \cup {p}
           /\ (\A i, j \in DOMAIN s : s[i] = s[j] => i = j) =>
                  \A i, j \in DOMAIN Append(s, p) :
                      Append(s, p)[i] = Append(s, p)[j] => i = j
           /\ (\A q \in Range(s) : q < p) /\ (\A i, j \in DOMAIN s : i < j => s[i] < s[j]) =>
                  \A i, j \in DOMAIN Append(s, p) :
                      i < j => Append(s, p)[i] < Append(s, p)[j]
<1>1. /\ Len(s) \in Nat /\ DOMAIN s = 1 .. Len(s)
      /\ DOMAIN Append(s, p) = 1 .. Len(s) + 1
      /\ \A i \in 1 .. Len(s) : Append(s, p)[i] = s[i]
      /\ Append(s, p)[Len(s) + 1] = p
  OBVIOUS
<1>2. \A i \in 1 .. Len(s) : s[i] \in Range(s)
  BY <1>1 DEF Range
<1>3. Range(Append(s, p)) = Range(s) \cup {p}
  <2>1. \A i \in 1 .. Len(s) + 1 : i \in 1 .. Len(s) \/ i = Len(s) + 1
    BY <1>1
  <2>2. \A q \in Range(Append(s, p)) : q \in Range(s) \cup {p}
    BY <1>1, <1>2, <2>1 DEF Range
  <2>3. \A q \in Range(s) \cup {p} : q \in Range(Append(s, p))
    BY <1>1 DEF Range
  <2> QED BY <2>2, <2>3
<1>4. \A i \in DOMAIN Append(s, p) : i \in 1 .. Len(s) \/ i = Len(s) + 1
  BY <1>1
<1>5. ASSUME \A i, j \in DOMAIN s : s[i] = s[j] => i = j,
             NEW i \in DOMAIN Append(s, p), NEW j \in DOMAIN Append(s, p),
             Append(s, p)[i] = Append(s, p)[j]
      PROVE  i = j
  BY <1>1, <1>2, <1>4, <1>5
<1>6. ASSUME \A q \in Range(s) : q < p, \A i, j \in DOMAIN s : i < j => s[i] < s[j],
             NEW i \in DOMAIN Append(s, p), NEW j \in DOMAIN Append(s, p), i < j
      PROVE  Append(s, p)[i] < Append(s, p)[j]
  BY <1>1, <1>2, <1>4, <1>6
<1> QED BY <1>3, <1>5, <1>6

\* A thread takes a packet in hand that no other has.
LEMMA MatchMade ==
    ASSUME TypeOK, OneMatchEach, NEW t \in Threads, NEW m \in Match, match[t] = <<>>,
           m.packet \notin InHand, match' = [match EXCEPT ![t] = m]
    PROVE  InHand' = InHand \cup {m.packet} /\ OneMatchEach'
<1>1. m # <<>> /\ m.packet \in 1 .. NumPackets
  BY DEF Match
<1>2. match'[t] = m /\ \A u \in Threads \ {t} : match'[u] = match[u]
  BY DEF TypeOK, Threads
<1>3. \A u \in Threads : match[u] # <<>> => match[u].packet \in InHand
  BY DEF TypeOK, Threads, InHand, Match
<1>4. \A u \in Threads \ {t} : match'[u] # <<>> => match'[u].packet # m.packet
  BY <1>2, <1>3
<1>5. InHand' = InHand \cup {m.packet}
  BY <1>1, <1>2 DEF InHand
<1>6. OneMatchEach'
  BY <1>2, <1>4 DEF OneMatchEach
<1> QED BY <1>5, <1>6

\* A thread is done with its packet.
LEMMA MatchDone ==
    ASSUME TypeOK, OneMatchEach, NEW t \in Threads, match[t] \in Match,
           match' = [match EXCEPT ![t] = <<>>]
    PROVE  /\ match[t].packet \in InHand /\ InHand' = InHand \ {match[t].packet}
           /\ OneMatchEach'
<1>1. match[t] # <<>> /\ match[t].packet \in 1 .. NumPackets
  BY DEF Match
<1>2. match'[t] = <<>> /\ \A u \in Threads \ {t} : match'[u] = match[u]
  BY DEF TypeOK, Threads
<1>3. match[t].packet \in InHand
  BY <1>1 DEF InHand
<1>4. \A u \in Threads \ {t} : match[u] # <<>> => match[u].packet # match[t].packet
  BY <1>1 DEF OneMatchEach
<1>5. InHand' = InHand \ {match[t].packet}
  BY <1>1, <1>2, <1>4 DEF InHand
<1>6. OneMatchEach'
  BY <1>2 DEF OneMatchEach
<1> QED BY <1>3, <1>5, <1>6

\* A completed match leaves its packet with bthport or loses it.
LEMMA MatchCompleted ==
    ASSUME TypeOK, DeliveredOnce, NEW m \in Match, m.packet \notin Range(delivered),
           Complete(m)
    PROVE  /\ DeliveredOnce'
           /\ \/ Range(delivered)' = Range(delivered) \cup {m.packet} /\ lost' = lost
              \/ Range(delivered)' = Range(delivered) /\ lost' = lost \cup {m.packet}
<1>1. delivered \in Seq(Nat) /\ m.packet \in Nat
  BY PacketsAssumption DEF TypeOK, Match
<1>2. CASE m.request \in Small
  BY <1>2 DEF Complete, DeliveredOnce
<1>3. CASE m.request \notin Small
  <2>1. delivered' = Append(delivered, m.packet) /\ lost' = lost
    BY <1>3 DEF Complete
  <2>2. Range(delivered') = Range(delivered) \cup {m.packet} /\ DeliveredOnce'
    BY <1>1, <2>1, AppendRange DEF DeliveredOnce
  <2> QED BY <2>1, <2>2
<1> QED BY <1>2, <1>3

LEMMA PlaceStep == IInv /\ PlaceInv /\ [Next]_vars => PlaceInv'
<1> SUFFICES ASSUME IInv, PlaceInv, [Next]_vars PROVE PlaceInv'
  OBVIOUS
<1>1. TypeOK /\ MatchHeld /\ OneMatchEach
  BY DEF IInv, PlaceInv, MatchesFollowCode, OneMatchEach
<1>2. list \in Seq(Nat) /\ \A p \in Range(list) : p <= arrived
  <2>1. \A p \in Range(list) : p \in 1 .. arrived
    BY DEF PlaceInv, Placed
  <2> QED BY <1>1, <2>1, PacketsAssumption DEF TypeOK
\* The packets a step moves; the rest of the invariant follows the code.
<1>3. ASSUME UNCHANGED <<list, arrived, match, delivered, lost>>,
             \A r \in Requests : ioctl[r] = "deliver" => ioctl'[r] = "deliver",
             pump' = pump
      PROVE  PlaceInv'
  <2>1. InHand' = InHand /\ Placed'
    BY <1>3 DEF PlaceInv, Placed, InHand
  <2>2. MatchesFollowCode'
    BY <1>3 DEF PlaceInv, MatchesFollowCode, OneMatchEach
  <2> QED BY <1>3, <2>1, <2>2 DEF PlaceInv, DeliveredOnce, ListInOrder
<1>4. CASE UNCHANGED vars
  BY <1>3, <1>4 DEF vars
<1>5. ASSUME NEW r \in Requests,
             Forward(r) \/ ForwardFails(r) \/ NoRequest(r) \/ StaysQueued(r) \/ CompleteFailed(r)
      PROVE  PlaceInv'
  <2>1. \A q \in Requests : ioctl[q] = "deliver" => ioctl'[q] = "deliver"
    BY <1>1, <1>5 DEF Forward, ForwardFails, NoRequest, StaysQueued, CompleteFailed, Goto, TypeOK
  <2> QED BY <1>3, <1>5, <2>1 DEF Forward, ForwardFails, NoRequest, StaysQueued, CompleteFailed
<1>6. ASSUME NEW i \in DOMAIN queue, CancelQueued(i) PROVE PlaceInv'
  BY <1>3, <1>6 DEF CancelQueued
<1>7. ASSUME NEW r \in Requests, MatchRequest(r) PROVE PlaceInv'
  <2> DEFINE m == [request |-> Head(queue), packet |-> Head(list)]
  <2>1. /\ list # <<>> /\ m \in Match /\ match' = [match EXCEPT ![r] = m]
        /\ match[r] = <<>> /\ list' = Tail(list)
        /\ UNCHANGED <<arrived, pump, delivered, lost>>
    <3>1. list # <<>> /\ queue # <<>> /\ ioctl[r] # "deliver"
      BY <1>7 DEF MatchRequest, Goto
    <3>2. m \in Match
      <4>1. queue \in Seq(Requests) /\ list \in Seq(1 .. NumPackets)
        BY <1>1 DEF TypeOK
      <4>2. Head(queue) \in Requests /\ Head(list) \in 1 .. NumPackets
        BY <3>1, <4>1, HeadTyped
      <4> QED BY <4>2 DEF Match
    <3>3. match[r] = <<>>
      BY <3>1 DEF PlaceInv, MatchesFollowCode
    <3> QED BY <1>7, <3>1, <3>2, <3>3 DEF MatchRequest, Pair
  <2>2. m.packet = Head(list)
    OBVIOUS
  <2> HIDE DEF m
  <2>3. /\ Range(list)' = Range(list) \ {m.packet} /\ m.packet \in Range(list)
        /\ ListInOrder'
    BY <1>2, <2>1, <2>2, TailRange DEF PlaceInv, ListInOrder
  <2>4. m.packet \notin InHand
    BY <2>3 DEF PlaceInv, Placed
  <2>5. InHand' = InHand \cup {m.packet} /\ OneMatchEach'
    BY <1>1, <2>1, <2>4, MatchMade DEF Threads
  <2>6. Placed'
    BY <2>1, <2>3, <2>5 DEF PlaceInv, Placed
  <2>7. \A q \in Requests : match'[q] # <<>> => ioctl'[q] = "deliver"
    BY <1>1, <1>7, <2>1 DEF MatchRequest, Goto, TypeOK, PlaceInv, MatchesFollowCode
  <2>8. match'[Pump] = match[Pump]
    BY <1>1, <2>1, RequestsAssumption DEF TypeOK
  <2>9. MatchesFollowCode'
    BY <2>1, <2>5, <2>7, <2>8 DEF PlaceInv, MatchesFollowCode, OneMatchEach
  <2> QED BY <2>1, <2>3, <2>6, <2>9 DEF PlaceInv, DeliveredOnce
<1>8. ASSUME NEW t \in Threads, match[t] \in Match, Complete(match[t]),
             match' = [match EXCEPT ![t] = <<>>], UNCHANGED <<list, arrived>>
      PROVE  Placed' /\ DeliveredOnce' /\ ListInOrder' /\ OneMatchEach'
  <2>1. /\ match[t].packet \in InHand /\ InHand' = InHand \ {match[t].packet}
        /\ OneMatchEach'
    BY <1>1, <1>8, MatchDone
  <2>2. match[t].packet \notin Range(delivered)
    BY <2>1 DEF PlaceInv, Placed
  <2>3. /\ DeliveredOnce'
        /\ \/ Range(delivered)' = Range(delivered) \cup {match[t].packet} /\ lost' = lost
           \/ Range(delivered)' = Range(delivered) /\ lost' = lost \cup {match[t].packet}
    BY <1>1, <1>8, <2>2, MatchCompleted DEF PlaceInv
  <2>4. Placed'
    <3>1. Range(list)' = Range(list) /\ arrived' = arrived
      BY <1>8
    <3> QED BY <2>1, <2>3, <3>1 DEF PlaceInv, Placed
  <2> QED BY <1>8, <2>1, <2>3, <2>4 DEF PlaceInv, ListInOrder
<1>9. ASSUME NEW r \in Requests, Deliver(r) PROVE PlaceInv'
  <2>1. match[r] \in Match /\ r \in Threads
    BY <1>1, <1>9 DEF Deliver, Goto, MatchHeld, Threads
  <2>2. Placed' /\ DeliveredOnce' /\ ListInOrder' /\ OneMatchEach'
    BY <1>8, <1>9, <2>1 DEF Deliver
  <2>3. /\ \A q \in Requests : match'[q] # <<>> => ioctl'[q] = "deliver"
        /\ match'[Pump] = match[Pump] /\ pump' = pump
    BY <1>1, <1>9, RequestsAssumption
    DEF Deliver, Goto, TypeOK, PlaceInv, MatchesFollowCode
  <2>4. MatchesFollowCode'
    BY <2>2, <2>3 DEF PlaceInv, MatchesFollowCode, OneMatchEach
  <2> QED BY <2>2, <2>4 DEF PlaceInv
<1>10. CASE PumpDelivers
  <2>1. match[Pump] \in Match /\ Pump \in Threads
    BY <1>1, <1>10 DEF PumpDelivers, MatchHeld, Threads
  <2>2. Placed' /\ DeliveredOnce' /\ ListInOrder' /\ OneMatchEach'
    BY <1>8, <1>10, <2>1 DEF PumpDelivers
  <2>3. /\ \A q \in Requests : match'[q] = match[q] /\ ioctl'[q] = ioctl[q]
        /\ match'[Pump] = <<>>
    BY <1>1, <1>10, RequestsAssumption DEF PumpDelivers, TypeOK
  <2>4. MatchesFollowCode'
    BY <2>2, <2>3 DEF PlaceInv, MatchesFollowCode, OneMatchEach
  <2> QED BY <2>2, <2>4 DEF PlaceInv
<1>11. CASE PacketFindsRequest
  <2> DEFINE m == [request |-> Head(queue), packet |-> arrived + 1]
  <2>1. /\ m \in Match /\ match' = [match EXCEPT ![Pump] = m]
        /\ match[Pump] = <<>> /\ arrived' = arrived + 1 /\ pump' = "deliver"
        /\ arrived \in Nat /\ UNCHANGED <<ioctl, list, delivered, lost>>
    <3>1. m \in Match
      BY <1>1, <1>11, PacketsAssumption DEF PacketFindsRequest, TypeOK, Match
    <3>2. match[Pump] = <<>>
      BY <1>11 DEF PacketFindsRequest, PlaceInv, MatchesFollowCode
    <3> QED BY <1>1, <1>11, <3>1, <3>2 DEF PacketFindsRequest, Pair, TypeOK
  <2>2. m.packet = arrived + 1
    OBVIOUS
  <2> HIDE DEF m
  <2>3. m.packet \notin 1 .. arrived /\ 1 .. arrived' = (1 .. arrived) \cup {m.packet}
    BY <2>1, <2>2
  <2>4. m.packet \notin InHand
    BY <2>3 DEF PlaceInv, Placed
  <2>5. InHand' = InHand \cup {m.packet} /\ OneMatchEach'
    BY <1>1, <2>1, <2>4, MatchMade DEF Threads
  <2>6. Range(list)' = Range(list) /\ Range(delivered)' = Range(delivered) /\ lost' = lost
    BY <2>1
  <2>7. Placed'
    BY <2>3, <2>5, <2>6 DEF PlaceInv, Placed
  <2>8. \A q \in Requests : match'[q] = match[q]
    BY <1>1, <2>1, RequestsAssumption DEF TypeOK
  <2>9. MatchesFollowCode'
    BY <2>1, <2>5, <2>8 DEF PlaceInv, MatchesFollowCode, OneMatchEach
  <2> QED BY <2>1, <2>7, <2>9 DEF PlaceInv, DeliveredOnce, ListInOrder
<1>12. CASE PacketWaits \/ PacketDropped
  <2> DEFINE p == arrived + 1
  <2>1. arrived \in Nat /\ arrived' = p /\ UNCHANGED <<ioctl, pump, match, delivered>>
    BY <1>1, <1>12 DEF PacketWaits, PacketDropped, TypeOK
  <2>2. p \in Nat /\ p \notin 1 .. arrived /\ 1 .. arrived' = (1 .. arrived) \cup {p}
    BY <2>1
  <2>3. InHand' = InHand /\ MatchesFollowCode' /\ DeliveredOnce'
    BY <2>1 DEF InHand, PlaceInv, MatchesFollowCode, OneMatchEach, DeliveredOnce
  <2>4. CASE PacketWaits
    <3>1. list' = Append(list, p) /\ lost' = lost
      BY <2>4 DEF PacketWaits
    <3>2. p \notin Range(list) /\ \A q \in Range(list) : q < p
      <4>1. \A q \in Range(list) : q \in 1 .. arrived
        BY DEF PlaceInv, Placed
      <4> QED BY <2>1, <2>2, <4>1
    <3>3. Range(list') = Range(list) \cup {p} /\ ListInOrder'
      BY <1>2, <2>2, <3>1, <3>2, AppendRange DEF PlaceInv, ListInOrder
    <3>4. Placed'
      BY <2>1, <2>2, <2>3, <3>1, <3>3 DEF PlaceInv, Placed
    <3> QED BY <2>3, <3>3, <3>4 DEF PlaceInv
  <2>5. CASE PacketDropped
    <3>1. list' = list /\ lost' = lost \cup {p}
      BY <2>5 DEF PacketDropped
    <3>2. Placed'
      BY <2>1, <2>2, <2>3, <3>1 DEF PlaceInv, Placed
    <3> QED BY <2>3, <3>1, <3>2 DEF PlaceInv, ListInOrder
  <2> QED BY <1>12, <2>4, <2>5
<1> QED BY <1>4, <1>5, <1>6, <1>7, <1>9, <1>10, <1>11, <1>12
    DEF Next, IoctlStep, PacketArrives

LEMMA PlaceAlways == Spec => []PlaceInv
BY InvAlways, PlaceInit, PlaceStep, PTL DEF Spec

-----------------------------------------------------------------------------
\* The packets that wait on ReadEventList do so in the order in which the pump
\* reassembled them, whatever reads come and go.
THEOREM WaitingInOrder == Spec => []ListInOrder
<1>1. PlaceInv => ListInOrder
  BY DEF PlaceInv
<1> QED BY <1>1, PlaceAlways, PTL

\* A set with at most one element, counted.
LEMMA CountsOne ==
    ASSUME NEW S, \A x, y \in S : x = y
    PROVE  Cardinality(S) = IF S = {} THEN 0 ELSE 1
<1>1. CASE S = {}
  BY <1>1, FS_EmptySet
<1>2. CASE S # {}
  <2>1. PICK x : x \in S
    BY <1>2
  <2>2. S = {x}
    BY <2>1
  <2> QED BY <1>2, <2>2, FS_Singleton
<1> QED BY <1>1, <1>2

\* Every packet that was reassembled is on the list, in the hand of one thread,
\* with bthport or lost to an error of its read: none is forgotten between the
\* two sections of the lock, and none is returned by two reads.
THEOREM EveryPacketAccounted == Spec => []PacketsAccounted
<1>1. ASSUME IInv, PlaceInv, NEW p \in 1 .. arrived
      PROVE  Cardinality(OnList(p)) + Cardinality(Matched(p)) + Cardinality(WithBthport(p))
                 + (IF p \in lost THEN 1 ELSE 0) = 1
  <2>1. TypeOK /\ p \in 1 .. NumPackets
    BY <1>1, PacketsAssumption DEF IInv, TypeOK
  <2>2. Cardinality(OnList(p)) = IF p \in Range(list) THEN 1 ELSE 0
    <3>1. \A i, j \in OnList(p) : i = j
      BY <1>1, <2>1 DEF OnList, PlaceInv, ListInOrder, TypeOK
    <3>2. OnList(p) = {} <=> p \notin Range(list)
      BY DEF OnList, Range
    <3> HIDE DEF OnList
    <3> QED BY <3>1, <3>2, CountsOne
  <2>3. Cardinality(Matched(p)) = IF p \in InHand THEN 1 ELSE 0
    <3>1. \A t, u \in Matched(p) : t = u
      BY <1>1 DEF Matched, PlaceInv, MatchesFollowCode, OneMatchEach, Threads
    <3>2. Matched(p) = {} <=> p \notin InHand
      BY <2>1 DEF Matched, InHand, Threads
    <3> QED BY <3>1, <3>2, CountsOne
  <2>4. Cardinality(WithBthport(p)) = IF p \in Range(delivered) THEN 1 ELSE 0
    <3>1. \A i, j \in WithBthport(p) : i = j
      BY <1>1 DEF WithBthport, PlaceInv, DeliveredOnce
    <3>2. WithBthport(p) = {} <=> p \notin Range(delivered)
      BY DEF WithBthport, Range
    <3> QED BY <3>1, <3>2, CountsOne
  <2>5. /\ p \in Range(list) \/ p \in InHand \/ p \in Range(delivered) \/ p \in lost
        /\ p \in Range(list) => p \notin InHand /\ p \notin Range(delivered) /\ p \notin lost
        /\ p \in InHand => p \notin Range(delivered) /\ p \notin lost
        /\ p \in Range(delivered) => p \notin lost
    BY <1>1 DEF PlaceInv, Placed
  <2> QED BY <2>2, <2>3, <2>4, <2>5
<1>2. IInv /\ PlaceInv => PacketsAccounted
  BY <1>1 DEF PacketsAccounted
<1> QED BY <1>2, InvAlways, PlaceAlways, PTL

-----------------------------------------------------------------------------
(* The writes.  At every moment a write is in one phase, which says who    *)
(* will complete the request of bthport (or has) and what each thread still*)
(* holds.                                                                  *)

\* The UART refuses no write that bthport may cancel.  The code needs this:
\* the handler that unmarks a refused request does not ask whether the cancel
\* callback has it (Fdo.c, FdoWriteDeviceIO).
RefusedNotCancelled == Refused \cap Cancelled = {}

CancelerOwns == {"cancelSent", "dereference", "deleteMemory", "complete"}
CompleterOwns == {"dereference", "deleteMemory", "complete"}
CompleterPast == {"deleteRequest", "release", "done"}

\* What the completion routine, past the completion, still holds.
RequestHeld(w) == IF completer[w] \in {"release", "done"} THEN 0 ELSE 1
BthportHeld(w) == IF completer[w] = "done" THEN 0 ELSE 1

\* How the mark, the two claims and the places of the threads hang together.
Linked(w) ==
    /\ cancelled[w] => w \in Cancelled
    /\ canceler[w] # "idle" <=> cancelable[w] = "cancelled"
    /\ canceler[w] # "idle" => cancelled[w]
    /\ "cancellation" \in path[w] <=> canceler[w] \in CancelerOwns \cup {"done"}
    /\ completer[w] \in {"idle", "claim"} => "completion" \notin path[w]
    /\ completer[w] \in {"unmark", "relinquish"} \cup CompleterOwns => "completion" \in path[w]
    /\ uart[w] = "done" <=> completer[w] # "idle"

\* Only the handler knows of the write.
Fresh(w) ==
    /\ handler[w] = "start" /\ canceler[w] = "idle" /\ completer[w] = "idle"
    /\ cancelable[w] = "no" /\ uart[w] = "none"
    /\ uartRefs[w] = 0 /\ bthportRefs[w] = 0 /\ memory[w] = 0 /\ writeCompletions[w] = 0

\* The handler completes it with a failure, or has.
Failing(w) ==
    /\ handler[w] \in {"unmark", "balance", "free", "fail", "done"}
    /\ canceler[w] = "idle" /\ completer[w] = "idle"
    /\ uart[w] # "pending"
    /\ cancelable[w] = "marked" => handler[w] = "unmark" /\ w \in Refused
    /\ uartRefs[w] = IF handler[w] \in {"unmark", "balance"} THEN 2
                     ELSE IF handler[w] = "free" THEN 1
                     ELSE IF uart[w] = "none" THEN uartRefs[w] ELSE 0
    /\ bthportRefs[w] = IF handler[w] \in {"unmark", "balance"} THEN 1 ELSE 0
    /\ memory[w] = IF handler[w] \in {"unmark", "balance", "free"} THEN 1 ELSE 0
    /\ writeCompletions[w] = IF handler[w] = "done" THEN 1 ELSE 0

\* Past the preparation, on the way to the UART or sent.
Sending(w) ==
    /\ handler[w] \in {"mark", "send", "done"}
    /\ handler[w] = "mark" => cancelable[w] = "no"
    /\ handler[w] \in {"mark", "send"} => uart[w] = "formatted"
    /\ handler[w] = "send" => cancelable[w] # "no"
    /\ handler[w] = "done" => uart[w] \in {"pending", "done"}

\* Nobody has taken the completion on, or the completion routine has and may
\* still give it back.
Open(w) ==
    /\ Sending(w)
    /\ \/ canceler[w] \in {"idle", "claim"} /\ completer[w] \in {"idle", "claim"}
       \/ canceler[w] \in {"idle", "claim", "done"} /\ completer[w] \in {"unmark", "relinquish"}
       \/ canceler[w] = "claim" /\ completer[w] \in CompleterPast /\ path[w] = {}
    /\ completer[w] \in {"idle", "claim"} => cancelable[w] # "no" \/ handler[w] = "mark"
    /\ completer[w] = "unmark" => cancelable[w] # "no"
    /\ completer[w] = "relinquish" => canceler[w] # "idle"
    /\ uartRefs[w] = 1 + RequestHeld(w) /\ bthportRefs[w] = BthportHeld(w)
    /\ memory[w] = 1 /\ writeCompletions[w] = 0

\* The cancel callback completes it, or has.
ByCancel(w) ==
    /\ Sending(w)
    /\ canceler[w] \in CancelerOwns \cup {"done"}
    /\ completer[w] \in {"idle", "claim"} \cup CompleterPast
    /\ uartRefs[w] = (IF canceler[w] \in {"cancelSent", "dereference"} THEN 1 ELSE 0)
                     + RequestHeld(w)
    /\ bthportRefs[w] = BthportHeld(w)
    /\ memory[w] = IF canceler[w] \in {"complete", "done"} THEN 0 ELSE 1
    /\ writeCompletions[w] = IF canceler[w] = "done" THEN 1 ELSE 0

\* The completion routine completes it, or has.
ByCompletion(w) ==
    /\ handler[w] = "done" /\ uart[w] = "done"
    /\ canceler[w] \in {"idle", "done"} /\ cancelable[w] # "marked"
    /\ completer[w] \in CompleterOwns \cup CompleterPast
    /\ uartRefs[w] = (IF completer[w] = "dereference" THEN 1 ELSE 0) + RequestHeld(w)
    /\ bthportRefs[w] = BthportHeld(w)
    /\ memory[w] = IF completer[w] \in {"dereference", "deleteMemory"} THEN 1 ELSE 0
    /\ writeCompletions[w] = IF completer[w] \in CompleterOwns THEN 0 ELSE 1

PhaseInv(w) ==
    /\ Linked(w)
    /\ Fresh(w) \/ Failing(w) \/ Open(w) \/ ByCancel(w) \/ ByCompletion(w)

WriteInv == W!TypeOK /\ \A w \in Writes : PhaseInv(w)

-----------------------------------------------------------------------------
\* A step of one write leaves the state of another as it is.
Same(w) ==
    /\ handler'[w] = handler[w] /\ canceler'[w] = canceler[w] /\ completer'[w] = completer[w]
    /\ path'[w] = path[w] /\ cancelable'[w] = cancelable[w] /\ cancelled'[w] = cancelled[w]
    /\ uart'[w] = uart[w] /\ uartRefs'[w] = uartRefs[w] /\ bthportRefs'[w] = bthportRefs[w]
    /\ memory'[w] = memory[w] /\ writeCompletions'[w] = writeCompletions[w]

LEMMA SameKeepsPhase ==
    ASSUME NEW w \in Writes, PhaseInv(w), Same(w) PROVE PhaseInv(w)'
BY DEF PhaseInv, Same, Linked, Fresh, Failing, Open, ByCancel, ByCompletion, Sending,
       RequestHeld, BthportHeld

LEMMA WriteInit == W!Init => WriteInv
<1> SUFFICES ASSUME W!Init PROVE WriteInv
  OBVIOUS
<1>1. W!TypeOK
  BY DEF W!Init, W!TypeOK, W!Handler, W!Canceler, W!Completer, W!Path
<1>2. ASSUME NEW w \in Writes PROVE Linked(w) /\ Fresh(w)
  BY DEF W!Init, Linked, Fresh, CancelerOwns, CompleterOwns
<1> QED BY <1>1, <1>2 DEF WriteInv, PhaseInv

LEMMA HandlerKeeps ==
    ASSUME RefusedNotCancelled, WriteInv, NEW w \in Writes, W!HandlerStep(w)
    PROVE  W!TypeOK' /\ PhaseInv(w)' /\ \A v \in Writes \ {w} : Same(v)
<1> USE DEF WriteInv, W!TypeOK, PhaseInv, Linked, Same, W!Goto, W!Take, W!Drop, W!Handler,
            W!Canceler, W!Completer, W!Path, CancelerOwns, CompleterOwns, CompleterPast
<1>1. CASE W!Prepare(w)
  BY <1>1 DEF W!Prepare, Fresh, Failing, Open, ByCancel, ByCompletion, Sending,
             RequestHeld, BthportHeld, RefusedNotCancelled
<1>2. CASE W!PrepareFails(w)
  BY <1>2 DEF W!PrepareFails, Fresh, Failing, Open, ByCancel, ByCompletion, Sending,
             RequestHeld, BthportHeld, RefusedNotCancelled
<1>3. CASE W!MarkCancelable(w)
  BY <1>3 DEF W!MarkCancelable, Fresh, Failing, Open, ByCancel, ByCompletion, Sending,
             RequestHeld, BthportHeld, RefusedNotCancelled
<1>4. CASE W!Send(w)
  BY <1>4 DEF W!Send, Fresh, Failing, Open, ByCancel, ByCompletion, Sending,
             RequestHeld, BthportHeld, RefusedNotCancelled
<1>5. CASE W!SendFails(w)
  BY <1>5 DEF W!SendFails, Fresh, Failing, Open, ByCancel, ByCompletion, Sending,
             RequestHeld, BthportHeld, RefusedNotCancelled
<1>6. CASE W!UnmarkAfterFailure(w)
  BY <1>6 DEF W!UnmarkAfterFailure, Fresh, Failing, Open, ByCancel, ByCompletion, Sending,
             RequestHeld, BthportHeld, RefusedNotCancelled
<1>7. CASE W!Balance(w)
  BY <1>7 DEF W!Balance, Fresh, Failing, Open, ByCancel, ByCompletion, Sending,
             RequestHeld, BthportHeld, RefusedNotCancelled
<1>8. CASE W!FreeResourceForWrite(w)
  BY <1>8 DEF W!FreeResourceForWrite, Fresh, Failing, Open, ByCancel, ByCompletion, Sending,
             RequestHeld, BthportHeld, RefusedNotCancelled
<1>9. CASE W!CompleteFailed(w)
  BY <1>9 DEF W!CompleteFailed, Fresh, Failing, Open, ByCancel, ByCompletion, Sending,
             RequestHeld, BthportHeld, RefusedNotCancelled
<1> QED BY <1>1, <1>2, <1>3, <1>4, <1>5, <1>6, <1>7, <1>8, <1>9 DEF W!HandlerStep

LEMMA CancelerKeeps ==
    ASSUME RefusedNotCancelled, WriteInv, NEW w \in Writes, W!CancelerStep(w)
    PROVE  W!TypeOK' /\ PhaseInv(w)' /\ \A v \in Writes \ {w} : Same(v)
<1> USE DEF WriteInv, W!TypeOK, PhaseInv, Linked, Same, W!Goto, W!Take, W!Drop, W!Handler,
            W!Canceler, W!Completer, W!Path, CancelerOwns, CompleterOwns, CompleterPast
<1>1. CASE W!CallBack(w)
  BY <1>1 DEF W!CallBack, Fresh, Failing, Open, ByCancel, ByCompletion, Sending,
             RequestHeld, BthportHeld, RefusedNotCancelled
<1>2. CASE W!ClaimCancellation(w)
  BY <1>2 DEF W!ClaimCancellation, Fresh, Failing, Open, ByCancel, ByCompletion, Sending,
             RequestHeld, BthportHeld, RefusedNotCancelled
<1>3. CASE W!CancelSentRequest(w)
  BY <1>3 DEF W!CancelSentRequest, Fresh, Failing, Open, ByCancel, ByCompletion, Sending,
             RequestHeld, BthportHeld, RefusedNotCancelled
<1>4. CASE W!DereferenceByCancel(w)
  BY <1>4 DEF W!DereferenceByCancel, Fresh, Failing, Open, ByCancel, ByCompletion, Sending,
             RequestHeld, BthportHeld, RefusedNotCancelled
<1>5. CASE W!DeleteMemoryByCancel(w)
  BY <1>5 DEF W!DeleteMemoryByCancel, Fresh, Failing, Open, ByCancel, ByCompletion, Sending,
             RequestHeld, BthportHeld, RefusedNotCancelled
<1>6. CASE W!CompleteByCancel(w)
  BY <1>6 DEF W!CompleteByCancel, Fresh, Failing, Open, ByCancel, ByCompletion, Sending,
             RequestHeld, BthportHeld, RefusedNotCancelled
<1> QED BY <1>1, <1>2, <1>3, <1>4, <1>5, <1>6 DEF W!CancelerStep

LEMMA CompleterKeeps ==
    ASSUME RefusedNotCancelled, WriteInv, NEW w \in Writes, W!CompleterStep(w)
    PROVE  W!TypeOK' /\ PhaseInv(w)' /\ \A v \in Writes \ {w} : Same(v)
<1> USE DEF WriteInv, W!TypeOK, PhaseInv, Linked, Same, W!Goto, W!Take, W!Drop, W!Handler,
            W!Canceler, W!Completer, W!Path, CancelerOwns, CompleterOwns, CompleterPast
<1>1. CASE W!UartCompletes(w)
  BY <1>1 DEF W!UartCompletes, Fresh, Failing, Open, ByCancel, ByCompletion, Sending,
             RequestHeld, BthportHeld, RefusedNotCancelled
<1>2. CASE W!ClaimCompletion(w)
  BY <1>2 DEF W!ClaimCompletion, Fresh, Failing, Open, ByCancel, ByCompletion, Sending,
             RequestHeld, BthportHeld, RefusedNotCancelled
<1>3. CASE W!Unmark(w)
  BY <1>3 DEF W!Unmark, Fresh, Failing, Open, ByCancel, ByCompletion, Sending,
             RequestHeld, BthportHeld, RefusedNotCancelled
<1>4. CASE W!Relinquish(w)
  BY <1>4 DEF W!Relinquish, Fresh, Failing, Open, ByCancel, ByCompletion, Sending,
             RequestHeld, BthportHeld, RefusedNotCancelled
<1>5. CASE W!DereferenceByCompletion(w)
  BY <1>5 DEF W!DereferenceByCompletion, Fresh, Failing, Open, ByCancel, ByCompletion, Sending,
             RequestHeld, BthportHeld, RefusedNotCancelled
<1>6. CASE W!DeleteMemoryByCompletion(w)
  BY <1>6 DEF W!DeleteMemoryByCompletion, Fresh, Failing, Open, ByCancel, ByCompletion, Sending,
             RequestHeld, BthportHeld, RefusedNotCancelled
<1>7. CASE W!CompleteByCompletion(w)
  BY <1>7 DEF W!CompleteByCompletion, Fresh, Failing, Open, ByCancel, ByCompletion, Sending,
             RequestHeld, BthportHeld, RefusedNotCancelled
<1>8. CASE W!DeleteRequest(w)
  BY <1>8 DEF W!DeleteRequest, Fresh, Failing, Open, ByCancel, ByCompletion, Sending,
             RequestHeld, BthportHeld, RefusedNotCancelled
<1>9. CASE W!Release(w)
  BY <1>9 DEF W!Release, Fresh, Failing, Open, ByCancel, ByCompletion, Sending,
             RequestHeld, BthportHeld, RefusedNotCancelled
<1> QED BY <1>1, <1>2, <1>3, <1>4, <1>5, <1>6, <1>7, <1>8, <1>9 DEF W!CompleterStep

LEMMA WriteStep == RefusedNotCancelled /\ WriteInv /\ [W!Next]_(W!vars) => WriteInv'
<1> SUFFICES ASSUME RefusedNotCancelled, WriteInv, [W!Next]_(W!vars) PROVE WriteInv'
  OBVIOUS
<1>1. CASE UNCHANGED W!vars
  <2>1. W!TypeOK'
    BY <1>1 DEF W!vars, WriteInv, W!TypeOK
  <2>2. ASSUME NEW w \in Writes PROVE PhaseInv(w)'
    <3>1. Same(w)
      BY <1>1 DEF W!vars, Same
    <3> QED BY <3>1, SameKeepsPhase DEF WriteInv
  <2> QED BY <2>1, <2>2 DEF WriteInv
<1>2. ASSUME NEW w \in Writes,
             W!Cancel(w) \/ W!HandlerStep(w) \/ W!CancelerStep(w) \/ W!CompleterStep(w)
      PROVE WriteInv'
  <2>1. CASE W!Cancel(w)
    <3>1. W!TypeOK' /\ \A v \in Writes \ {w} : Same(v)
      BY <2>1 DEF W!Cancel, WriteInv, W!TypeOK, Same
    <3>2. PhaseInv(w)'
      BY <2>1 DEF W!Cancel, WriteInv, W!TypeOK, PhaseInv, Linked, Fresh, Failing, Open, ByCancel,
                  ByCompletion, Sending, RequestHeld, BthportHeld
    <3> QED BY <3>1, <3>2, SameKeepsPhase DEF WriteInv
  <2>2. CASE W!HandlerStep(w)
    BY <2>2, HandlerKeeps, SameKeepsPhase DEF WriteInv
  <2>3. CASE W!CancelerStep(w)
    BY <2>3, CancelerKeeps, SameKeepsPhase DEF WriteInv
  <2>4. CASE W!CompleterStep(w)
    BY <2>4, CompleterKeeps, SameKeepsPhase DEF WriteInv
  <2> QED BY <1>2, <2>1, <2>2, <2>3, <2>4
<1> QED BY <1>1, <1>2 DEF W!Next

LEMMA WriteAlways == RefusedNotCancelled /\ W!Spec => []WriteInv
<1> SUFFICES ASSUME RefusedNotCancelled PROVE W!Spec => []WriteInv
  OBVIOUS
<1>1. WriteInv /\ [W!Next]_(W!vars) => WriteInv'
  BY WriteStep
<1> QED BY WriteInit, <1>1, PTL DEF W!Spec

-----------------------------------------------------------------------------
\* The threads of a write stay at declared places and no reference is returned
\* twice, for any number of writes.
THEOREM WriteTypeCorrect == RefusedNotCancelled /\ W!Spec => []W!TypeOK
<1>1. WriteInv => W!TypeOK
  BY DEF WriteInv
<1> QED BY <1>1, WriteAlways, PTL

\* No write is completed by both the cancel callback and the completion
\* routine, however the two interleave.
THEOREM CompletedAtMostOnce == RefusedNotCancelled /\ W!Spec => []CompletedOnce
<1>1. ASSUME WriteInv, NEW w \in Writes PROVE writeCompletions[w] <= 1
  <2>1. PhaseInv(w)
    BY <1>1 DEF WriteInv
  <2> QED BY <2>1 DEF PhaseInv, Fresh, Failing, Open, ByCancel, ByCompletion
<1>2. WriteInv => CompletedOnce
  BY <1>1 DEF CompletedOnce, W!CompletedOnce
<1> QED BY <1>2, WriteAlways, PTL

\* Neither callback touches a request, a context or a memory object that the
\* other has released.
THEOREM NothingUsedAfterRelease == RefusedNotCancelled /\ W!Spec => []UsesLiveObjects
<1>1. ASSUME WriteInv PROVE UsesLiveObjects
  <2> SUFFICES ASSUME NEW w \in Writes PROVE W!UsesLiveObjects!(w)
    BY DEF UsesLiveObjects, W!UsesLiveObjects
  <2>1. PhaseInv(w)
    BY <1>1 DEF WriteInv
  <2> USE DEF W!Alive, RequestHeld, BthportHeld, CancelerOwns, CompleterOwns, CompleterPast
  <2>2. CASE Fresh(w) \/ Failing(w)
    BY <2>2 DEF Fresh, Failing
  <2>3. CASE Open(w)
    BY <2>3 DEF Open
  <2>4. CASE ByCancel(w)
    BY <2>4 DEF ByCancel
  <2>5. CASE ByCompletion(w)
    BY <2>5 DEF ByCompletion
  <2> QED BY <2>1, <2>2, <2>3, <2>4, <2>5 DEF PhaseInv
<1> QED BY <1>1, WriteAlways, PTL

\* A write at rest is completed and has left no reference behind.
THEOREM NothingLeftBehind == RefusedNotCancelled /\ W!Spec => []AllReleased
<1>1. ASSUME WriteInv PROVE AllReleased
  BY <1>1 DEF WriteInv, PhaseInv, Linked, Fresh, Failing, Open, ByCancel, ByCompletion,
       Sending, RequestHeld, BthportHeld, AllReleased, W!AllReleased, W!AtRest,
       CancelerOwns, CompleterOwns, CompleterPast
<1> QED BY <1>1, WriteAlways, PTL

=============================================================================
