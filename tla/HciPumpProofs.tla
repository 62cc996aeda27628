--------------------------- MODULE HciPumpProofs ---------------------------
(***************************************************************************)
(* Proofs about HciPump, for any streams of packets of any contents, cut   *)
(* into reads of any lengths.                                              *)
(*                                                                         *)
(* What has been sent is a sequence of bytes, and where a packet begins in *)
(* it (Offset) depends on the packets before it.  The invariant says how   *)
(* far the pump has come in this sequence, and that what it holds of the   *)
(* packet in progress are that packet's bytes.                             *)
(***************************************************************************)
EXTENDS HciPump, SequenceTheorems, WellFoundedInduction, TLAPS

-----------------------------------------------------------------------------
(* Induction, in the form of a set: the least number outside would follow  *)
(* one inside.                                                             *)
LEMMA LeastNumber ==
    ASSUME NEW T \in SUBSET Nat, T # {}
    PROVE  \E x \in T : \A y \in T : ~(y < x)
<1> DEFINE Less == OpToRel(<, Nat)
<1>1. IsWellFoundedOn(Less, Nat)
  BY NatLessThanWellFounded
<1> HIDE DEF Less
<1>2. \E x \in T : \A y \in T : ~(<<y, x>> \in Less)
  BY <1>1, WFMin
<1>3. \A x, y \in Nat : y < x => <<y, x>> \in Less
  BY DEF Less, OpToRel
<1> QED BY <1>2, <1>3

LEMMA Counting ==
    ASSUME NEW T, 0 \in T, \A n \in Nat : n \in T => n + 1 \in T
    PROVE  \A n \in Nat : n \in T
<1> SUFFICES ASSUME Nat \ T # {} PROVE FALSE
  OBVIOUS
<1>1. PICK x \in Nat \ T : \A y \in Nat \ T : ~(y < x)
  BY LeastNumber
<1>2. x # 0 /\ x - 1 \in Nat /\ x - 1 < x
  BY <1>1
<1>3. x - 1 \in T
  BY <1>1, <1>2
<1> QED BY <1>1, <1>2, <1>3

-----------------------------------------------------------------------------
(* What FlattenSeq returns: the last of the partial concatenations.        *)
Partials(s, n, g) == \A i \in 1 .. n : g[i] = IF i = 1 THEN s[i] ELSE g[i - 1] \o s[i]

LEMMA PartialsExist ==
    ASSUME NEW D, NEW s \in Seq(Seq(D))
    PROVE  \E g \in [1 .. Len(s) -> Seq(D)] : Partials(s, Len(s), g)
<1> DEFINE T == {n \in Nat : n <= Len(s) => \E g \in [1 .. n -> Seq(D)] : Partials(s, n, g)}
<1>1. 0 \in T
  <2>1. [i \in 1 .. 0 |-> <<>>] \in [1 .. 0 -> Seq(D)]
    OBVIOUS
  <2>2. Partials(s, 0, [i \in 1 .. 0 |-> <<>>])
    BY DEF Partials
  <2> QED BY <2>1, <2>2
<1>2. ASSUME NEW n \in Nat, n \in T PROVE n + 1 \in T
  <2> SUFFICES ASSUME n + 1 <= Len(s)
               PROVE  \E g \in [1 .. n + 1 -> Seq(D)] : Partials(s, n + 1, g)
    OBVIOUS
  <2>1. PICK g \in [1 .. n -> Seq(D)] : Partials(s, n, g)
    BY <1>2
  <2>2. s[n + 1] \in Seq(D)
    OBVIOUS
  <2> DEFINE x == IF n = 0 THEN s[n + 1] ELSE g[n] \o s[n + 1]
             h == [i \in 1 .. n + 1 |-> IF i = n + 1 THEN x ELSE g[i]]
  <2>3. x \in Seq(D)
    <3>1. CASE n = 0
      BY <2>2, <3>1
    <3>2. CASE n # 0
      <4>1. g[n] \in Seq(D)
        BY <3>2
      <4> QED BY <2>2, <3>2, <4>1
    <3> QED BY <3>1, <3>2
  <2>4. h \in [1 .. n + 1 -> Seq(D)]
    <3> HIDE DEF x
    <3> QED BY <2>3
  <2>5. Partials(s, n + 1, h)
    <3> SUFFICES ASSUME NEW i \in 1 .. n + 1
                 PROVE  h[i] = IF i = 1 THEN s[i] ELSE h[i - 1] \o s[i]
      BY DEF Partials
    <3>1. CASE i = n + 1
      <4>1. h[i] = x
        BY <3>1
      <4>2. n # 0 => h[n] = g[n]
        OBVIOUS
      <4> QED BY <3>1, <4>1, <4>2
    <3>2. CASE i # n + 1
      <4>1. i \in 1 .. n /\ h[i] = g[i] /\ (i # 1 => h[i - 1] = g[i - 1])
        BY <3>2
      <4> QED BY <2>1, <4>1 DEF Partials
    <3> QED BY <3>1, <3>2
  <2> QED BY <2>4, <2>5
<1> HIDE DEF T
<1>3. Len(s) \in T
  BY <1>1, <1>2, Counting
<1> QED BY <1>3 DEF T

LEMMA PartialsAgree ==
    ASSUME NEW s, NEW n \in Nat, NEW g, NEW h, Partials(s, n, g), Partials(s, n, h)
    PROVE  \A i \in 1 .. n : g[i] = h[i]
<1> DEFINE T == {i \in Nat : i \in 1 .. n => g[i] = h[i]}
<1>1. 0 \in T
  OBVIOUS
<1>2. ASSUME NEW i \in Nat, i \in T PROVE i + 1 \in T
  <2> SUFFICES ASSUME i + 1 \in 1 .. n PROVE g[i + 1] = h[i + 1]
    OBVIOUS
  <2>1. /\ g[i + 1] = IF i + 1 = 1 THEN s[i + 1] ELSE g[i] \o s[i + 1]
        /\ h[i + 1] = IF i + 1 = 1 THEN s[i + 1] ELSE h[i] \o s[i + 1]
    BY DEF Partials
  <2>2. i # 0 => g[i] = h[i]
    BY <1>2
  <2> QED BY <2>1, <2>2
<1> HIDE DEF T
<1>3. \A i \in Nat : i \in T
  BY <1>1, <1>2, Counting
<1> QED BY <1>3 DEF T

LEMMA FlattenIs ==
    ASSUME NEW D, NEW s \in Seq(Seq(D)), NEW g \in [1 .. Len(s) -> Seq(D)],
           Partials(s, Len(s), g)
    PROVE  FlattenSeq(s) = IF Len(s) = 0 THEN <<>> ELSE g[Len(s)]
<1> DEFINE Flat == CHOOSE f : f = [i \in 1 .. Len(s) |-> IF i = 1 THEN s[i] ELSE f[i-1] \o s[i]]
<1>1. CASE Len(s) = 0
  BY <1>1 DEF FlattenSeq
<1>2. CASE Len(s) # 0
  <2>1. FlattenSeq(s) = Flat[Len(s)]
    BY <1>2, Zenon DEF FlattenSeq
  <2>2. g = [i \in 1 .. Len(s) |-> IF i = 1 THEN s[i] ELSE g[i-1] \o s[i]]
    BY DEF Partials
  <2>3. Flat = [i \in 1 .. Len(s) |-> IF i = 1 THEN s[i] ELSE Flat[i-1] \o s[i]]
    BY <2>2, Zenon
  <2> HIDE DEF Flat
  <2>4. Partials(s, Len(s), Flat)
    BY <2>3, Zenon DEF Partials
  <2>5. Flat[Len(s)] = g[Len(s)]
    BY <1>2, <2>4, PartialsAgree
  <2> QED BY <1>2, <2>1, <2>5
<1> QED BY <1>1, <1>2

-----------------------------------------------------------------------------
(* The bytes of a stream.                                                  *)
Bytes(p) == <<p.type>> \o p.bytes

FirstBytes(s, k) == Encode(SubSeq(s, 1, k))

(* Packet k + 1 begins after Offset(s, k) bytes.                           *)
Offset(s, k) == Len(FirstBytes(s, k))

LEMMA PacketBytes ==
    ASSUME NEW p \in Sendable
    PROVE  /\ Bytes(p) \in Seq(Byte) /\ Len(Bytes(p)) = 1 + Len(p.bytes)
           /\ Bytes(p)[1] = p.type
           /\ \A i \in 1 .. Len(p.bytes) : Bytes(p)[i + 1] = p.bytes[i]
<1>1. p.type \in Byte /\ p.bytes \in Seq(Byte)
  BY DEF Sendable
<1>2. <<p.type>> \in Seq(Byte) /\ Len(<<p.type>>) = 1
  BY <1>1
<1> QED BY <1>1, <1>2 DEF Bytes

LEMMA FirstBytesAre ==
    ASSUME NEW s \in Seq(Sendable), NEW g \in [1 .. Len(s) -> Seq(Byte)],
           NEW all, \A i \in 1 .. Len(s) : all[i] = Bytes(s[i]), Partials(all, Len(s), g),
           NEW k \in 0 .. Len(s)
    PROVE  FirstBytes(s, k) = IF k = 0 THEN <<>> ELSE g[k]
<1> DEFINE t == SubSeq(s, 1, k)
           e == [i \in 1 .. k |-> Bytes(s[i])]
           h == [i \in 1 .. k |-> g[i]]
<1>1. Len(t) = k /\ t \in Seq(Sendable) /\ \A i \in 1 .. k : t[i] = s[i]
  OBVIOUS
<1>2. DOMAIN t = 1 .. k
  BY <1>1
<1>3. \A i \in 1 .. k : Bytes(s[i]) \in Seq(Byte)
  BY PacketBytes
<1>4. e \in Seq(Seq(Byte)) /\ Len(e) = k
  BY <1>3
<1>5. [i \in DOMAIN t |-> <<t[i].type>> \o t[i].bytes] = e
  BY <1>1, <1>2 DEF Bytes
<1>6. h \in [1 .. Len(e) -> Seq(Byte)]
  BY <1>4
<1>7. Partials(e, Len(e), h)
  <2>1. \A i \in 1 .. k : e[i] = Bytes(s[i]) /\ h[i] = g[i]
    OBVIOUS
  <2>2. \A i \in 1 .. k : g[i] = IF i = 1 THEN Bytes(s[i]) ELSE g[i - 1] \o Bytes(s[i])
    <3>1. \A i \in 1 .. k : i \in 1 .. Len(s)
      OBVIOUS
    <3> QED BY <3>1 DEF Partials
  <2>3. \A i \in 1 .. k : i # 1 => h[i - 1] = g[i - 1]
    <3>1. \A i \in 1 .. k : i # 1 => i - 1 \in 1 .. k
      OBVIOUS
    <3> HIDE DEF h
    <3> QED BY <2>1, <3>1
  <2> HIDE DEF e, h
  <2> QED BY <1>4, <2>1, <2>2, <2>3 DEF Partials
<1>8. FirstBytes(s, k) = FlattenSeq(e)
  BY <1>5 DEF FirstBytes, Encode
<1> HIDE DEF e, h
<1>9. FlattenSeq(e) = IF Len(e) = 0 THEN <<>> ELSE h[Len(e)]
  BY <1>4, <1>6, <1>7, FlattenIs
<1> QED BY <1>4, <1>8, <1>9 DEF h

LEMMA BytesGrow ==
    ASSUME NEW s \in Seq(Sendable)
    PROVE  /\ FirstBytes(s, 0) = <<>> /\ FirstBytes(s, Len(s)) = Encode(s)
           /\ \A k \in 0 .. Len(s) : FirstBytes(s, k) \in Seq(Byte)
           /\ \A k \in 0 .. Len(s) - 1 :
                  FirstBytes(s, k + 1) = FirstBytes(s, k) \o Bytes(s[k + 1])
<1> DEFINE e == [i \in 1 .. Len(s) |-> Bytes(s[i])]
<1>1. e \in Seq(Seq(Byte)) /\ Len(e) = Len(s) /\ \A i \in 1 .. Len(s) : e[i] = Bytes(s[i])
  BY PacketBytes
<1> HIDE DEF e
<1>2. PICK g \in [1 .. Len(s) -> Seq(Byte)] : Partials(e, Len(s), g)
  BY <1>1, PartialsExist
<1>3. \A k \in 0 .. Len(s) : FirstBytes(s, k) = IF k = 0 THEN <<>> ELSE g[k]
  BY <1>1, <1>2, FirstBytesAre
<1>4. SubSeq(s, 1, Len(s)) = s
  OBVIOUS
<1>5. \A k \in 0 .. Len(s) : FirstBytes(s, k) \in Seq(Byte)
  <2>1. <<>> \in Seq(Byte) /\ \A k \in 0 .. Len(s) : k # 0 => g[k] \in Seq(Byte)
    OBVIOUS
  <2> QED BY <1>3, <2>1
<1>6. ASSUME NEW k \in 0 .. Len(s) - 1
      PROVE  FirstBytes(s, k + 1) = FirstBytes(s, k) \o Bytes(s[k + 1])
  <2>1. /\ k \in 0 .. Len(s) /\ k + 1 \in 0 .. Len(s) /\ k + 1 \in 1 .. Len(s)
        /\ k + 1 # 0 /\ (k + 1) - 1 = k /\ (k + 1 = 1 <=> k = 0)
    OBVIOUS
  <2>2. g[k + 1] = IF k = 0 THEN Bytes(s[k + 1]) ELSE g[k] \o Bytes(s[k + 1])
    BY <1>1, <1>2, <2>1 DEF Partials
  <2>3. FirstBytes(s, k + 1) = g[k + 1] /\ FirstBytes(s, k) = IF k = 0 THEN <<>> ELSE g[k]
    BY <1>3, <2>1
  <2>4. Bytes(s[k + 1]) \in Seq(Byte)
    BY <2>1, PacketBytes
  <2>5. <<>> \o Bytes(s[k + 1]) = Bytes(s[k + 1])
    BY <2>4
  <2> QED BY <2>2, <2>3, <2>5
<1>7. FirstBytes(s, 0) = <<>>
  BY <1>3
<1>8. FirstBytes(s, Len(s)) = Encode(s)
  BY <1>4 DEF FirstBytes
<1> QED BY <1>5, <1>6, <1>7, <1>8

(* The first packets' bytes come first.                                    *)
LEMMA FirstBytesFirst ==
    ASSUME NEW s \in Seq(Sendable), NEW k \in 0 .. Len(s)
    PROVE  /\ Encode(s) \in Seq(Byte) /\ Offset(s, k) \in 0 .. Len(Encode(s))
           /\ \A i \in 1 .. Offset(s, k) : Encode(s)[i] = FirstBytes(s, k)[i]
<1> DEFINE Begins(v, w) == Len(v) <= Len(w) /\ \A i \in 1 .. Len(v) : w[i] = v[i]
           T == {d \in Nat : d <= Len(s) => Begins(FirstBytes(s, Len(s) - d), Encode(s))}
<1>1. 0 \in T
  <2>1. FirstBytes(s, Len(s) - 0) = Encode(s) /\ Encode(s) \in Seq(Byte)
    BY BytesGrow
  <2> QED BY <2>1
<1>2. ASSUME NEW d \in Nat, d \in T PROVE d + 1 \in T
  <2> SUFFICES ASSUME d + 1 <= Len(s)
               PROVE  Begins(FirstBytes(s, Len(s) - (d + 1)), Encode(s))
    OBVIOUS
  <2> DEFINE j == Len(s) - (d + 1)
             u == FirstBytes(s, j)
             v == FirstBytes(s, j + 1)
             w == Encode(s)
  <2>1. j \in 0 .. Len(s) - 1 /\ j + 1 = Len(s) - d
    OBVIOUS
  <2> HIDE DEF j
  <2>2. /\ u \in Seq(Byte) /\ v \in Seq(Byte) /\ w \in Seq(Byte)
        /\ v = u \o Bytes(s[j + 1]) /\ Bytes(s[j + 1]) \in Seq(Byte)
    <3>1. j \in 0 .. Len(s) /\ j + 1 \in 0 .. Len(s) /\ Len(s) \in 0 .. Len(s)
      BY <2>1
    <3>2. s[j + 1] \in Sendable
      BY <2>1
    <3> QED BY <2>1, <3>1, <3>2, BytesGrow, PacketBytes
  <2>3. Begins(v, w)
    BY <1>2, <2>1
  <2> HIDE DEF u, v, w
  <2>4. Len(u) <= Len(v) /\ \A i \in 1 .. Len(u) : v[i] = u[i]
    BY <2>2
  <2>5. Begins(u, w)
    BY <2>2, <2>3, <2>4
  <2> QED BY <2>5 DEF u, w, j
<1> HIDE DEF T
<1>3. Len(s) - k \in T
  BY <1>1, <1>2, Counting
<1>4. Begins(FirstBytes(s, k), Encode(s))
  <2>1. Len(s) - (Len(s) - k) = k
    OBVIOUS
  <2> QED BY <1>3, <2>1 DEF T
<1>5. Encode(s) \in Seq(Byte) /\ FirstBytes(s, k) \in Seq(Byte)
  BY BytesGrow
<1> QED BY <1>4, <1>5 DEF Offset

(* Where the bytes of a packet are.                                        *)
LEMMA PacketPlace ==
    ASSUME NEW s \in Seq(Sendable), NEW k \in 0 .. Len(s) - 1
    PROVE  /\ Offset(s, k + 1) = Offset(s, k) + 1 + Len(s[k + 1].bytes)
           /\ Offset(s, k + 1) <= Len(Encode(s))
           /\ Encode(s)[Offset(s, k) + 1] = s[k + 1].type
           /\ \A i \in 1 .. Len(s[k + 1].bytes) :
                  Encode(s)[Offset(s, k) + 1 + i] = s[k + 1].bytes[i]
<1> DEFINE b == Bytes(s[k + 1])
           u == FirstBytes(s, k)
           v == FirstBytes(s, k + 1)
           p == s[k + 1]
<1>1. k \in 0 .. Len(s) /\ k + 1 \in 0 .. Len(s) /\ p \in Sendable
  OBVIOUS
<1>2. u \in Seq(Byte) /\ v = u \o b
  BY <1>1, BytesGrow
<1>3. /\ b \in Seq(Byte) /\ Len(b) = 1 + Len(p.bytes)
      /\ b[1] = p.type /\ \A i \in 1 .. Len(p.bytes) : b[i + 1] = p.bytes[i]
      /\ Len(p.bytes) \in Nat
  <2>1. p.bytes \in Seq(Byte)
    BY <1>1 DEF Sendable
  <2>2. /\ b \in Seq(Byte) /\ Len(b) = 1 + Len(p.bytes)
        /\ b[1] = p.type /\ \A i \in 1 .. Len(p.bytes) : b[i + 1] = p.bytes[i]
    BY <1>1, PacketBytes
  <2>3. Len(p.bytes) \in Nat
    <3> HIDE DEF p
    <3> QED BY <2>1
  <2> QED BY <2>2, <2>3
<1>4. /\ Len(v) <= Len(Encode(s)) /\ Offset(s, k) = Len(u) /\ Offset(s, k + 1) = Len(v)
      /\ \A i \in 1 .. Len(v) : Encode(s)[i] = v[i]
  BY <1>1, FirstBytesFirst DEF Offset
<1> HIDE DEF u, v, b, p
<1>5. Len(v) = Len(u) + Len(b) /\ Len(u) \in Nat /\ \A i \in 1 .. Len(b) : v[Len(u) + i] = b[i]
  <2>1. b \in Seq(Byte)
    BY <1>3
  <2> QED BY <1>2, <2>1
<1>6. Encode(s)[Len(u) + 1] = p.type
  BY <1>3, <1>4, <1>5
<1>7. ASSUME NEW i \in 1 .. Len(p.bytes) PROVE Encode(s)[Len(u) + 1 + i] = p.bytes[i]
  <2>1. i + 1 \in 1 .. Len(b) /\ Len(u) + (i + 1) \in 1 .. Len(v)
    BY <1>3, <1>5
  <2>2. Encode(s)[Len(u) + (i + 1)] = b[i + 1]
    BY <1>4, <1>5, <2>1
  <2>3. Len(u) + (i + 1) = Len(u) + 1 + i
    BY <1>5
  <2> QED BY <1>3, <2>2, <2>3
<1>8. Len(v) = Len(u) + 1 + Len(p.bytes)
  <2>1. \A m, n \in Nat : m + (1 + n) = m + 1 + n
    OBVIOUS
  <2> QED BY <1>3, <1>5, <2>1
<1> QED BY <1>4, <1>6, <1>7, <1>8 DEF p


-----------------------------------------------------------------------------
(* The invariant: the types, for any stream.                               *)
Segments == {"type", "header", "payload"}
Lacks == 0 .. LargestSize
PacketTypes == {EventType, AclType}
Types == {0} \cup PacketTypes
Raws == [1 .. RawSize -> Byte]

(* The parts of the context, and how they fit together: past the type byte *)
(* something is lacking, and no more was read than the segment has.        *)
PumpContext == [segment : Segments, read : Nat, lacks : Lacks,
                type : Types, raw : Raws]

InPlace ==
    CASE context.segment = "type" -> TRUE
      [] context.segment = "header" ->
             /\ context.type # 0 /\ context.lacks # 0
             /\ context.read < HeaderSize(context.type)
      [] context.segment = "payload" ->
             /\ context.type # 0 /\ context.lacks # 0
             /\ context.read <= PayloadSize(context)

SenderTypes ==
    /\ sender \in {"send", "compare", "waiting", "stopped"} /\ length \in 1 .. LargestSize
    /\ uart \in BOOLEAN /\ status \in BOOLEAN
    /\ state \in {"sent", "pending", "complete"} /\ completer \in {"idle", "sent", "pending"}
    /\ uart => state # "complete"
    /\ completer = "idle" => buffer = <<>>
    /\ hardwareError \in BOOLEAN

DataTypes ==
    /\ stream \in Streams /\ wire \in Seq(Byte) /\ buffer \in Seq(Byte)
    /\ context \in PumpContext /\ InPlace
    /\ delivered \in Seq([type : PacketTypes, bytes : Seq(Byte)])

(* The invariant: how far the pump has come in a clean stream.             *)
Sent == Encode(stream)
Place == Len(Sent) - Len(wire) - Len(buffer)
Done == Len(delivered)
Current == stream[Done + 1]
Held == context.read + (IF context.segment = "payload" THEN HeaderSize(context.type) ELSE 0)

OnItsWay ==
    /\ Len(wire) + Len(buffer) <= Len(Sent)
    /\ \A i \in 1 .. Len(buffer) : buffer[i] = Sent[Place + i]
    /\ \A i \in 1 .. Len(wire) : wire[i] = Sent[Place + Len(buffer) + i]

InOrder == Done <= Len(stream) /\ \A i \in 1 .. Done : delivered[i] = stream[i]

InProgress ==
    IF context.segment = "type" THEN Place = Offset(stream, Done)
    ELSE /\ Done < Len(stream) /\ Current.type = context.type
         /\ Place = Offset(stream, Done) + 1 + Held
         /\ Held <= Len(Current.bytes)
         /\ \A i \in 1 .. Held : context.raw[i] = Current.bytes[i]

InStep == Clean => OnItsWay /\ InOrder /\ InProgress

IInv == SenderTypes /\ DataTypes /\ InStep

-----------------------------------------------------------------------------
(* The operators of the reassembly.                                        *)
LEMMA Sizes ==
    /\ RawSize \in Nat /\ RawSize >= 4 /\ 2 + MaxParams <= RawSize
    /\ 0 \in Byte /\ \A b \in Byte : b \in Nat /\ b <= 255 /\ b <= MaxParams
    /\ LargestSize \in Nat /\ MaxParams \in Nat
    /\ MaxAclPayload \in Nat /\ RawSize = 4 + MaxAclPayload
  BY SizesAssumption DEF RawSize, Byte, LargestSize

LEMMA Cut ==
    ASSUME NEW D, NEW w \in Seq(D), NEW n \in 0 .. Len(w)
    PROVE  /\ SubSeq(w, 1, n) \in Seq(D) /\ Len(SubSeq(w, 1, n)) = n
           /\ \A i \in 1 .. n : SubSeq(w, 1, n)[i] = w[i]
           /\ SubSeq(w, n + 1, Len(w)) \in Seq(D)
           /\ Len(SubSeq(w, n + 1, Len(w))) = Len(w) - n
           /\ \A i \in 1 .. Len(w) - n : SubSeq(w, n + 1, Len(w))[i] = w[n + i]
  OBVIOUS

LEMMA Rest ==
    ASSUME NEW D, NEW w \in Seq(D), w # <<>>
    PROVE  /\ Len(w) >= 1 /\ Head(w) = w[1] /\ Head(w) \in D
           /\ Tail(w) \in Seq(D) /\ Len(Tail(w)) = Len(w) - 1
           /\ \A i \in 1 .. Len(w) - 1 : Tail(w)[i] = w[i + 1]
  OBVIOUS

LEMMA Headers ==
    /\ HeaderSize(EventType) = 2 /\ HeaderSize(AclType) = 4
    /\ \A t \in PacketTypes : HeaderSize(t) \in 2 .. 4 /\ t # 0
    /\ \A t : t # EventType => HeaderSize(t) = 4
  BY DEF HeaderSize, EventType, AclType, PacketTypes

LEMMA ContextIs ==
    ASSUME NEW c \in PumpContext
    PROVE  /\ c.segment \in Segments /\ c.read \in Nat /\ c.lacks \in Lacks
           /\ c.type \in Types /\ c.raw \in Raws
           /\ c.type # 0 => c.type \in PacketTypes
  BY DEF PumpContext, Types

LEMMA ContextWith ==
    ASSUME NEW c \in PumpContext, NEW s \in Segments, NEW n \in Nat, NEW l \in Lacks,
           NEW t \in Types, NEW r \in Raws, NEW d,
           d = [c EXCEPT !.segment = s, !.read = n, !.lacks = l, !.type = t, !.raw = r]
    PROVE  /\ d \in PumpContext
           /\ d.segment = s /\ d.read = n /\ d.lacks = l /\ d.type = t /\ d.raw = r
  BY DEF PumpContext

LEMMA RawIs ==
    ASSUME NEW r \in Raws
    PROVE  /\ \A i \in 1 .. RawSize : r[i] \in Byte
           /\ \A i \in {2, 3, 4} : r[i] \in Nat /\ r[i] <= 255 /\ r[i] <= MaxParams
           /\ r \in Seq(Byte) /\ Len(r) = RawSize
<1>1. \A i \in 1 .. RawSize : r[i] \in Byte
  BY DEF Raws
<1>2. r \in Seq(Byte) /\ Len(r) = RawSize
  BY Sizes DEF Raws
<1>3. 2 \in 1 .. RawSize /\ 3 \in 1 .. RawSize /\ 4 \in 1 .. RawSize
  BY Sizes
<1>4. r[2] \in Byte /\ r[3] \in Byte /\ r[4] \in Byte
  BY <1>1, <1>3
<1> QED BY <1>1, <1>2, <1>4, Sizes

LEMMA PayloadIs ==
    ASSUME NEW c, c.raw \in Raws
    PROVE  /\ PayloadSize(c) \in 0 .. LargestSize
           /\ c.type = EventType => HeaderSize(c.type) + PayloadSize(c) <= RawSize
           /\ c.type # EventType /\ PayloadSize(c) <= MaxAclPayload
                  => HeaderSize(c.type) + PayloadSize(c) <= RawSize
<1> DEFINE r == c.raw
<1>1. \A i \in {2, 3, 4} : r[i] \in Nat /\ r[i] <= 255 /\ r[i] <= MaxParams
  BY RawIs
<1>2. PayloadSize(c) = IF c.type = EventType THEN r[2] ELSE r[3] + 256 * r[4]
  BY DEF PayloadSize
<1> DEFINE h == HeaderSize(c.type)
           n == PayloadSize(c)
<1>3. h = IF c.type = EventType THEN 2 ELSE 4
  BY Headers
<1> HIDE DEF r, h, n
<1>4. n \in 0 .. LargestSize
  <2>1. \A x, y \in Nat : x <= 255 /\ y <= 255
            => x \in 0 .. LargestSize /\ x + 256 * y \in 0 .. LargestSize
    <3>1. \A x, y \in Nat : x <= 255 /\ y <= 255
              => x <= LargestSize /\ x + 256 * y <= LargestSize
      BY DEF LargestSize
    <3>2. \A x, y \in Nat : x + 256 * y \in Nat
      OBVIOUS
    <3>3. LargestSize \in Nat
      BY Sizes
    <3> QED BY <3>1, <3>2, <3>3
  <2>2. CASE c.type = EventType
    BY <1>1, <1>2, <2>1, <2>2 DEF n
  <2>3. CASE c.type # EventType
    BY <1>1, <1>2, <2>1, <2>3 DEF n
  <2> QED BY <2>2, <2>3
<1>5. c.type = EventType => h + n <= RawSize
  BY <1>1, <1>2, <1>3, Sizes DEF n
<1>6. c.type # EventType /\ n <= MaxAclPayload => h + n <= RawSize
  BY <1>3, <1>4, Sizes
<1> QED BY <1>4, <1>5, <1>6, Zenon DEF h, n

LEMMA EnterIs ==
    ASSUME NEW c \in PumpContext
    PROVE  /\ Enter(c, "type") \in PumpContext /\ Enter(c, "type").segment = "type"
           /\ \A x \in {"header", "payload"} :
                  /\ Enter(c, x) \in PumpContext /\ Enter(c, x).segment = x
                  /\ Enter(c, x).read = 0 /\ Enter(c, x).lacks = c.lacks
                  /\ Enter(c, x).type = c.type /\ Enter(c, x).raw = c.raw
<1> DEFINE r == [i \in 1 .. RawSize |-> IF i <= 4 THEN 0 ELSE c.raw[i]]
<1>1. r \in Raws
  <2>1. \A i \in 1 .. RawSize : c.raw[i] \in Byte
    BY ContextIs, RawIs
  <2> QED BY <2>1, Sizes DEF Raws
<1>2. Enter(c, "type") = [c EXCEPT !.segment = "type", !.read = 0, !.lacks = 0, !.type = 0,
                                   !.raw = r]
  BY DEF Enter
<1> HIDE DEF r
<1>3. Enter(c, "type") \in PumpContext /\ Enter(c, "type").segment = "type"
  <2>1. "type" \in Segments /\ 0 \in Lacks /\ 0 \in Types /\ 0 \in Nat
    BY Sizes DEF Segments, Lacks, Types
  <2> QED BY <1>1, <1>2, <2>1 DEF PumpContext
<1>4. ASSUME NEW x \in {"header", "payload"}
      PROVE  /\ Enter(c, x) \in PumpContext /\ Enter(c, x).segment = x
             /\ Enter(c, x).read = 0 /\ Enter(c, x).lacks = c.lacks
             /\ Enter(c, x).type = c.type /\ Enter(c, x).raw = c.raw
  <2>1. Enter(c, x) = [c EXCEPT !.segment = x, !.read = 0]
    BY DEF Enter
  <2>2. x \in Segments /\ 0 \in Nat
    BY DEF Segments
  <2> QED BY <2>1, <2>2 DEF PumpContext
<1> QED BY <1>3, <1>4

LEMMA PacketIs ==
    ASSUME NEW c, c.raw \in Raws, c.type \in PacketTypes,
           HeaderSize(c.type) + PayloadSize(c) <= RawSize
    PROVE  /\ Packet(c) \in [type : PacketTypes, bytes : Seq(Byte)]
           /\ Packet(c).type = c.type
           /\ Len(Packet(c).bytes) = HeaderSize(c.type) + PayloadSize(c)
           /\ \A i \in 1 .. HeaderSize(c.type) + PayloadSize(c) : Packet(c).bytes[i] = c.raw[i]
<1> DEFINE n == HeaderSize(c.type) + PayloadSize(c)
<1>1. n \in 0 .. RawSize
  <2> DEFINE h == HeaderSize(c.type)
             m == PayloadSize(c)
  <2>1. m \in 0 .. LargestSize
    BY PayloadIs, Zenon
  <2>2. h \in 2 .. 4
    BY Headers, Zenon
  <2>3. h + m <= RawSize /\ n = h + m
    OBVIOUS
  <2> HIDE DEF h, m, n
  <2> QED BY <2>1, <2>2, <2>3, Sizes
<1>2. c.raw \in Seq(Byte) /\ Len(c.raw) = RawSize
  BY RawIs
<1> HIDE DEF n
<1>3. /\ SubSeq(c.raw, 1, n) \in Seq(Byte) /\ Len(SubSeq(c.raw, 1, n)) = n
      /\ \A i \in 1 .. n : SubSeq(c.raw, 1, n)[i] = c.raw[i]
  BY <1>1, <1>2, Cut
<1>4. Packet(c) = [type |-> c.type, bytes |-> SubSeq(c.raw, 1, n)]
  BY DEF Packet, n
<1> QED BY <1>3, <1>4 DEF n

LEMMA CopyIs ==
    ASSUME NEW raw \in Raws, NEW at \in Nat, at >= 1, NEW bytes \in Seq(Byte)
    PROVE  /\ Copy(raw, at, bytes) \in Raws
           /\ \A i \in 1 .. RawSize : i < at => Copy(raw, at, bytes)[i] = raw[i]
           /\ \A i \in 1 .. RawSize : i >= at /\ i < at + Len(bytes)
                                          => Copy(raw, at, bytes)[i] = bytes[i - at + 1]
<1>1. \A i \in 1 .. RawSize : i - at + 1 \in DOMAIN bytes <=> i >= at /\ i < at + Len(bytes)
  BY Sizes
<1>2. \A i \in DOMAIN bytes : bytes[i] \in Byte
  OBVIOUS
<1> QED BY <1>1, <1>2 DEF Copy, Raws

(* What is copied into the payload leaves the header as it is.             *)
LEMMA PayloadToIs ==
    ASSUME context \in PumpContext, context.type # 0, buffer \in Seq(Byte),
           NEW n \in 0 .. Len(buffer)
    PROVE  LET c == [context EXCEPT !.raw = PayloadTo(n)]
               h == HeaderSize(context.type) + context.read
           IN /\ PayloadTo(n) \in Raws
              /\ c \in PumpContext /\ c.raw = PayloadTo(n) /\ c.type = context.type
              /\ PayloadSize(c) = PayloadSize(context)
              /\ \A i \in 1 .. RawSize : i <= h => PayloadTo(n)[i] = context.raw[i]
              /\ \A i \in 1 .. RawSize : i > h /\ i <= h + n => PayloadTo(n)[i] = buffer[i - h]
<1> DEFINE c == [context EXCEPT !.raw = PayloadTo(n)]
           h == HeaderSize(context.type) + context.read
           b == SubSeq(buffer, 1, n)
<1>1. h \in Nat /\ h >= 2 /\ (context.type # EventType => h >= 4)
  <2>1. context.type \in PacketTypes /\ context.read \in Nat
    BY ContextIs
  <2> QED BY <2>1, Headers
<1>2. b \in Seq(Byte) /\ Len(b) = n /\ \A i \in 1 .. n : b[i] = buffer[i]
  BY Cut
<1>3. context.raw \in Raws
  BY ContextIs
<1>4. PayloadTo(n) = Copy(context.raw, h + 1, b)
  BY DEF PayloadTo
<1> HIDE DEF h, b
<1>5. /\ PayloadTo(n) \in Raws
      /\ \A i \in 1 .. RawSize : i < h + 1 => PayloadTo(n)[i] = context.raw[i]
      /\ \A i \in 1 .. RawSize : i >= h + 1 /\ i < h + 1 + Len(b)
                                     => PayloadTo(n)[i] = b[i - (h + 1) + 1]
  <2>1. h + 1 \in Nat /\ h + 1 >= 1
    BY <1>1
  <2> DEFINE at == h + 1
  <2> HIDE DEF at
  <2>2. /\ Copy(context.raw, at, b) \in Raws
        /\ \A i \in 1 .. RawSize : i < at => Copy(context.raw, at, b)[i] = context.raw[i]
        /\ \A i \in 1 .. RawSize : i >= at /\ i < at + Len(b)
                                       => Copy(context.raw, at, b)[i] = b[i - at + 1]
    BY <1>2, <1>3, <2>1, CopyIs DEF at
  <2> QED BY <1>4, <2>2 DEF at
<1>6. \A i \in 1 .. RawSize : i <= h => PayloadTo(n)[i] = context.raw[i]
  BY <1>1, <1>5, Sizes
<1>7. ASSUME NEW i \in 1 .. RawSize, i > h, i <= h + n PROVE PayloadTo(n)[i] = buffer[i - h]
  <2>1. i >= h + 1 /\ i < h + 1 + Len(b) /\ i - (h + 1) + 1 = i - h /\ i - h \in 1 .. n
    BY <1>1, <1>2, <1>7, Sizes
  <2> QED BY <1>2, <1>5, <2>1
<1>8. c \in PumpContext /\ c.raw = PayloadTo(n) /\ c.type = context.type
  BY <1>5 DEF PumpContext
<1>9. PayloadSize(c) = PayloadSize(context)
  <2>1. /\ PayloadTo(n)[2] = context.raw[2]
        /\ context.type # EventType => PayloadTo(n)[3] = context.raw[3]
                                       /\ PayloadTo(n)[4] = context.raw[4]
    BY <1>1, <1>6, Sizes
  <2> HIDE DEF c
  <2> QED BY <1>8, <2>1 DEF PayloadSize
<1> QED BY <1>5, <1>6, <1>7, <1>8, <1>9 DEF h

-----------------------------------------------------------------------------
(* What a pass of the reassembly does to the packet in progress.           *)
LEMMA InPlaceIs ==
    ASSUME context \in PumpContext, InPlace, context.segment # "type"
    PROVE  /\ context.segment \in {"header", "payload"}
           /\ context.type \in PacketTypes /\ context.type # 0 /\ context.lacks # 0
           /\ context.segment = "header" => context.read < HeaderSize(context.type)
           /\ context.segment = "payload" => context.read <= PayloadSize(context)
<1>1. context.segment \in {"header", "payload"}
  BY ContextIs DEF Segments
<1>2. /\ context.type # 0 /\ context.lacks # 0
      /\ context.segment = "header" => context.read < HeaderSize(context.type)
      /\ context.segment = "payload" => context.read <= PayloadSize(context)
  BY <1>1 DEF InPlace
<1> QED BY <1>1, <1>2, ContextIs

LEMMA GetTypeIs ==
    ASSUME DataTypes, GetType
    PROVE  /\ context' \in PumpContext /\ context'.segment = "header" /\ context'.read = 0
           /\ context'.type = buffer[1] /\ context'.type \in PacketTypes
           /\ context'.lacks = HeaderSize(context'.type)
           /\ buffer # <<>> /\ buffer' = Tail(buffer) /\ context.segment = "type"
           /\ UNCHANGED <<stream, wire, delivered>>
<1> DEFINE t == Head(buffer)
<1>1. /\ buffer # <<>> /\ buffer' = Tail(buffer) /\ context.segment = "type"
      /\ UNCHANGED <<stream, wire, delivered>> /\ t \in PacketTypes
      /\ context' = [Enter(context, "header") EXCEPT !.type = t, !.lacks = HeaderSize(t)]
  BY DEF GetType, Reassembling, PacketTypes
<1>2. t = buffer[1]
  BY <1>1 DEF DataTypes
<1> HIDE DEF t
<1>3. t \in Types /\ HeaderSize(t) \in Lacks
  <2>1. HeaderSize(t) \in Nat /\ HeaderSize(t) <= LargestSize
    BY <1>1, Headers DEF LargestSize
  <2> QED BY <1>1, <2>1, Sizes DEF Types, Lacks
<1>4. /\ Enter(context, "header") \in PumpContext
      /\ Enter(context, "header").segment = "header" /\ Enter(context, "header").read = 0
  BY EnterIs DEF DataTypes
<1>5. /\ context' \in PumpContext /\ context'.segment = "header" /\ context'.read = 0
      /\ context'.type = t /\ context'.lacks = HeaderSize(t)
  BY <1>1, <1>3, <1>4 DEF PumpContext
<1> QED BY <1>1, <1>2, <1>5

AfterByte(l) ==
    [context EXCEPT !.raw = [context.raw EXCEPT ![context.read + 1] = Head(buffer)],
                    !.read = context.read + 1, !.lacks = l]

LEMMA HeaderByteIs ==
    ASSUME DataTypes, Reassembling("header"), NEW l \in Lacks, NEW c, c = AfterByte(l)
    PROVE  /\ c \in PumpContext /\ c.segment = "header" /\ c.read = context.read + 1
           /\ c.type = context.type /\ c.type \in PacketTypes /\ c.lacks = l
           /\ context.read + 1 \in 1 .. RawSize
           /\ c.raw[context.read + 1] = buffer[1]
           /\ \A i \in 1 .. context.read : c.raw[i] = context.raw[i]
<1> DEFINE n == context.read + 1
           r == [context.raw EXCEPT ![n] = Head(buffer)]
<1>1. buffer # <<>> /\ context.segment = "header" /\ context \in PumpContext /\ InPlace
      /\ buffer \in Seq(Byte)
  BY DEF DataTypes, Reassembling
<1>2. Head(buffer) = buffer[1] /\ Head(buffer) \in Byte
  BY <1>1
<1>3. context.type \in PacketTypes /\ n \in 1 .. RawSize
  <2>1. /\ context.type \in PacketTypes /\ context.read < HeaderSize(context.type)
        /\ context.read \in Nat
    BY <1>1, InPlaceIs, ContextIs
  <2> QED BY <2>1, Headers, Sizes
<1>4. /\ r \in Raws /\ r[n] = Head(buffer)
      /\ \A i \in 1 .. RawSize : i # n => r[i] = context.raw[i]
  <2>1. context.raw \in Raws
    BY <1>1, ContextIs
  <2> HIDE DEF n
  <2> QED BY <1>2, <1>3, <2>1 DEF Raws
<1>5. \A i \in 1 .. context.read : i \in 1 .. RawSize /\ i # n
  <2>1. context.read \in Nat
    BY <1>1, ContextIs
  <2> QED BY <1>3, <2>1, Sizes
<1>6. n \in Nat /\ n = context.read + 1
  BY <1>3, Sizes
<1>7. c = [context EXCEPT !.raw = r, !.read = n, !.lacks = l]
  BY DEF AfterByte
<1> HIDE DEF r, n
<1>8. /\ c \in PumpContext /\ c.segment = context.segment /\ c.read = n
      /\ c.type = context.type /\ c.lacks = l /\ c.raw = r
  BY <1>1, <1>4, <1>6, <1>7 DEF PumpContext
<1> QED BY <1>1, <1>2, <1>3, <1>4, <1>5, <1>6, <1>8

LEMMA GetHeaderIs ==
    ASSUME DataTypes, GetHeader
    PROVE  /\ context' \in PumpContext /\ context'.segment = "header"
           /\ context'.read = context.read + 1 /\ context'.read < HeaderSize(context.type)
           /\ context'.type = context.type /\ context'.type \in PacketTypes
           /\ context'.lacks # 0
           /\ context'.raw[context.read + 1] = buffer[1]
           /\ \A i \in 1 .. context.read : context'.raw[i] = context.raw[i]
           /\ buffer # <<>> /\ buffer' = Tail(buffer) /\ context.segment = "header"
           /\ UNCHANGED <<stream, wire, delivered>>
<1> DEFINE l == HeaderSize(context.type) - (context.read + 1)
<1>1. /\ buffer # <<>> /\ buffer' = Tail(buffer) /\ context.segment = "header"
      /\ context.read + 1 < HeaderSize(context.type) /\ Reassembling("header")
      /\ UNCHANGED <<stream, wire, delivered>>
  BY DEF GetHeader, Reassembling
<1>2. context' = AfterByte(l)
  BY DEF GetHeader, WithHeaderByte, AfterByte
<1>3. l \in Lacks /\ l # 0
  <2>1. context.type \in PacketTypes /\ context.read \in Nat
    BY <1>1, InPlaceIs, ContextIs DEF DataTypes
  <2>2. l \in 1 .. 4
    BY <1>1, <2>1, Headers
  <2>3. 4 <= LargestSize
    BY DEF LargestSize
  <2> HIDE DEF l
  <2> QED BY <2>2, <2>3, Sizes DEF Lacks
<1> HIDE DEF l
<1>4. /\ context' \in PumpContext /\ context'.segment = "header"
      /\ context'.read = context.read + 1
      /\ context'.type = context.type /\ context'.type \in PacketTypes /\ context'.lacks = l
      /\ context'.raw[context.read + 1] = buffer[1]
      /\ \A i \in 1 .. context.read : context'.raw[i] = context.raw[i]
  BY <1>1, <1>2, <1>3, HeaderByteIs
<1> QED BY <1>1, <1>3, <1>4

LEMMA EndHeaderIs ==
    ASSUME DataTypes, EndHeader
    PROVE  \E c \in PumpContext :
           /\ c.type = context.type /\ c.type \in PacketTypes
           /\ c.raw[context.read + 1] = buffer[1]
           /\ \A i \in 1 .. context.read : c.raw[i] = context.raw[i]
           /\ context' \in PumpContext
           /\ \/ /\ c.type = EventType /\ PayloadSize(c) = 0
                 /\ delivered' = Append(delivered, Packet(c)) /\ context'.segment = "type"
              \/ /\ context'.segment = "payload" /\ context'.read = 0 /\ context'.lacks # 0
                 /\ context'.type = c.type /\ context'.raw = c.raw
                 /\ UNCHANGED delivered
           /\ context.read + 1 = HeaderSize(context.type)
           /\ buffer # <<>> /\ buffer' = Tail(buffer) /\ context.segment = "header"
           /\ UNCHANGED <<stream, wire>>
<1> DEFINE c == AfterByte(context.lacks)
           m == PayloadSize(c) - Len(buffer')
           l == IF m > 0 THEN m ELSE context.lacks
<1>1. /\ buffer # <<>> /\ buffer' = Tail(buffer) /\ context.segment = "header"
      /\ context.read + 1 = HeaderSize(context.type) /\ Reassembling("header")
      /\ UNCHANGED <<stream, wire>>
  BY DEF EndHeader, Reassembling
<1>2. context \in PumpContext /\ context.lacks \in Lacks /\ context.lacks # 0
  BY <1>1, InPlaceIs, ContextIs DEF DataTypes
<1>3. [WithHeaderByte EXCEPT !.lacks = context.lacks] = c
  BY <1>2 DEF WithHeaderByte, AfterByte, PumpContext
<1>4. IF c.type = EventType /\ PayloadSize(c) = 0
      THEN delivered' = Append(delivered, Packet(c)) /\ context' = Enter(c, "type")
      ELSE /\ context' = [Enter(c, "payload") EXCEPT
                              !.lacks = IF m > 0 THEN m ELSE Enter(c, "payload").lacks]
           /\ UNCHANGED delivered
  BY <1>3, Zenon DEF EndHeader
<1>5. /\ c \in PumpContext /\ c.type = context.type /\ c.type \in PacketTypes
      /\ c.lacks = context.lacks /\ c.raw[context.read + 1] = buffer[1]
      /\ \A i \in 1 .. context.read : c.raw[i] = context.raw[i]
  BY <1>1, <1>2, HeaderByteIs
<1> HIDE DEF c
<1>6. l \in Lacks /\ l # 0
  <2>1. PayloadSize(c) \in 0 .. LargestSize
    BY <1>5, PayloadIs, ContextIs
  <2>2. buffer' \in Seq(Byte)
    BY <1>1 DEF DataTypes
  <2>3. Len(buffer') \in Nat
    BY <2>2
  <2>4. m > 0 => m \in Lacks /\ m # 0
    BY <2>1, <2>3, Sizes DEF Lacks
  <2> QED BY <1>2, <2>4
<1>7. /\ Enter(c, "payload") \in PumpContext /\ Enter(c, "payload").segment = "payload"
      /\ Enter(c, "payload").read = 0 /\ Enter(c, "payload").lacks = c.lacks
      /\ Enter(c, "payload").type = c.type /\ Enter(c, "payload").raw = c.raw
      /\ Enter(c, "type") \in PumpContext /\ Enter(c, "type").segment = "type"
  BY <1>5, EnterIs
<1>8. CASE c.type = EventType /\ PayloadSize(c) = 0
  BY <1>1, <1>4, <1>5, <1>7, <1>8, Zenon
<1>9. CASE ~(c.type = EventType /\ PayloadSize(c) = 0)
  <2>1. context' = [Enter(c, "payload") EXCEPT !.lacks = l] /\ UNCHANGED delivered
    BY <1>4, <1>5, <1>7, <1>9
  <2> HIDE DEF l
  <2>2. /\ context' \in PumpContext /\ context'.segment = "payload" /\ context'.read = 0
        /\ context'.lacks = l /\ context'.type = c.type /\ context'.raw = c.raw
    BY <1>6, <1>7, <2>1 DEF PumpContext
  <2> QED BY <1>1, <1>5, <1>6, <2>1, <2>2, Zenon
<1> QED BY <1>8, <1>9

LEMMA PayloadFits ==
    ASSUME DataTypes, Reassembling("payload"), InSync
    PROVE  /\ context \in PumpContext /\ context.type \in PacketTypes /\ context.type # 0
           /\ buffer \in Seq(Byte) /\ Len(buffer) >= 1 /\ context.segment = "payload"
           /\ context.read \in Nat /\ context.read <= PayloadSize(context)
           /\ PayloadSize(context) \in Nat /\ PayloadSize(context) <= LargestSize
           /\ HeaderSize(context.type) \in 2 .. 4
           /\ HeaderSize(context.type) + PayloadSize(context) <= RawSize
<1>1. /\ context \in PumpContext /\ InPlace /\ buffer \in Seq(Byte) /\ buffer # <<>>
      /\ context.segment = "payload"
  BY DEF DataTypes, Reassembling
<1>2. /\ context.type \in PacketTypes /\ context.type # 0 /\ context.read \in Nat
      /\ context.read <= PayloadSize(context)
  BY <1>1, InPlaceIs, ContextIs
<1>3. Len(buffer) >= 1
  BY <1>1
<1>4. PayloadSize(context) \in 0 .. LargestSize
  BY <1>1, PayloadIs, ContextIs
<1>5. PayloadSize(context) \in Nat /\ PayloadSize(context) <= LargestSize
  BY <1>4, Sizes
<1>6. HeaderSize(context.type) + PayloadSize(context) <= RawSize
  <2>1. context.type # EventType => context.type = AclType
    BY <1>2 DEF PacketTypes
  <2>2. context.type = EventType \/ PayloadSize(context) <= MaxAclPayload
    BY <2>1 DEF InSync
  <2> QED BY <1>1, <2>2, PayloadIs, ContextIs
<1>7. HeaderSize(context.type) \in 2 .. 4
  BY <1>2, Headers
<1> QED BY <1>1, <1>2, <1>3, <1>5, <1>6, <1>7

LEMMA EndPayloadIs ==
    ASSUME DataTypes, EndPayload
    PROVE  /\ Missing \in 0 .. Len(buffer) /\ Missing = PayloadSize(context) - context.read
           /\ buffer' = SubSeq(buffer, Missing + 1, Len(buffer))
           /\ \E c : /\ c.type = context.type /\ c.raw = PayloadTo(Missing) /\ c.raw \in Raws
                     /\ PayloadSize(c) = PayloadSize(context)
                     /\ delivered' = Append(delivered, Packet(c))
           /\ context' \in PumpContext /\ context'.segment = "type"
           /\ UNCHANGED <<stream, wire>>
           /\ Reassembling("payload") /\ InSync
<1> DEFINE c == [context EXCEPT !.raw = PayloadTo(Missing)]
<1>1. /\ Reassembling("payload") /\ InSync /\ Len(buffer) >= Missing
      /\ buffer' = SubSeq(buffer, Missing + 1, Len(buffer))
      /\ delivered' = Append(delivered, Packet(c)) /\ context' = Enter(c, "type")
      /\ UNCHANGED <<stream, wire>>
  BY DEF EndPayload, Reassembling
<1>2. Missing \in 0 .. Len(buffer) /\ Missing = PayloadSize(context) - context.read
  <2>1. Missing = PayloadSize(context) - context.read
    BY DEF Missing
  <2> QED BY <1>1, <2>1, PayloadFits
<1>3. /\ PayloadTo(Missing) \in Raws /\ c \in PumpContext /\ c.raw = PayloadTo(Missing)
      /\ c.type = context.type /\ PayloadSize(c) = PayloadSize(context)
  BY <1>1, <1>2, PayloadFits, PayloadToIs
<1> HIDE DEF c
<1>4. context' \in PumpContext /\ context'.segment = "type"
  BY <1>1, <1>3, EnterIs
<1> QED BY <1>1, <1>2, <1>3, <1>4, Zenon

LEMMA GetPayloadIs ==
    ASSUME DataTypes, GetPayload
    PROVE  /\ Len(buffer) < PayloadSize(context) - context.read /\ buffer' = <<>>
           /\ context' \in PumpContext /\ context'.segment = "payload"
           /\ context'.read = context.read + Len(buffer) /\ context'.type = context.type
           /\ context'.lacks # 0 /\ context'.raw = PayloadTo(Len(buffer))
           /\ PayloadSize(context') = PayloadSize(context)
           /\ UNCHANGED <<stream, wire, delivered>>
           /\ Reassembling("payload") /\ InSync
<1> DEFINE n == Len(buffer)
           l == Missing - n
           c == [context EXCEPT !.raw = PayloadTo(n)]
<1>1. /\ Reassembling("payload") /\ InSync /\ n < Missing /\ buffer' = <<>>
      /\ context' = [context EXCEPT !.raw = PayloadTo(n), !.read = context.read + n, !.lacks = l]
      /\ UNCHANGED <<stream, wire, delivered>>
  BY DEF GetPayload, Reassembling
<1>2. Missing = PayloadSize(context) - context.read
  BY DEF Missing
<1>3. n \in Nat /\ n \in 0 .. Len(buffer)
  BY <1>1, PayloadFits
<1>4. l \in Lacks /\ l # 0 /\ context.read + n \in Nat
  <2>1. /\ context.read \in Nat /\ PayloadSize(context) \in Nat
        /\ PayloadSize(context) <= LargestSize
    BY <1>1, PayloadFits
  <2> HIDE DEF n
  <2> QED BY <1>1, <1>2, <1>3, <2>1, Sizes DEF Lacks
<1>5. /\ PayloadTo(n) \in Raws /\ c \in PumpContext /\ c.raw = PayloadTo(n)
      /\ c.type = context.type /\ PayloadSize(c) = PayloadSize(context)
  BY <1>1, <1>3, PayloadFits, PayloadToIs
<1>6. context \in PumpContext /\ context.segment = "payload"
  BY <1>1, PayloadFits
<1> HIDE DEF n, l, c
<1>7. /\ context' \in PumpContext /\ context'.segment = "payload"
      /\ context'.read = context.read + n /\ context'.type = context.type
      /\ context'.lacks = l /\ context'.raw = PayloadTo(n)
  BY <1>1, <1>4, <1>5, <1>6 DEF PumpContext
<1>8. PayloadSize(context') = PayloadSize(context)
  BY <1>5, <1>7 DEF PayloadSize
<1> QED BY <1>1, <1>2, <1>4, <1>7, <1>8 DEF n

LEMMA OutOfSyncIs ==
    ASSUME DataTypes, OutOfSync
    PROVE  /\ context' \in PumpContext /\ context'.segment = "type" /\ buffer' = <<>>
           /\ UNCHANGED <<stream, wire, delivered>>
<1>1. context' = Enter(context, "type") /\ buffer' = <<>> /\ UNCHANGED <<stream, wire, delivered>>
  BY DEF OutOfSync
<1> QED BY <1>1, EnterIs DEF DataTypes

-----------------------------------------------------------------------------
(* The types are an invariant.                                             *)
LEMMA StreamsAre ==
    ASSUME NEW s \in Streams
    PROVE  s \in Seq(Sendable) /\ Encode(s) \in Seq(Byte)
<1>1. s \in Seq(Sendable)
  BY StreamsAssumption
<1>2. 0 \in 0 .. Len(s)
  BY <1>1
<1> QED BY <1>1, <1>2, FirstBytesFirst

LEMMA DataStays ==
    ASSUME UNCHANGED <<stream, wire, buffer, context, delivered>>
    PROVE  /\ DataTypes => DataTypes'
           /\ InStep => InStep'
<1>1. DataTypes => DataTypes'
  <2>1. InPlace => InPlace'
    BY DEF InPlace, PayloadSize
  <2> QED BY <2>1 DEF DataTypes
<1>2. InStep => InStep'
  BY DEF InStep, Clean, OnItsWay, InOrder, InProgress, Place, Sent, Done, Current, Held
<1> QED BY <1>1, <1>2

LEMMA NextReadIs ==
    ASSUME DataTypes PROVE NextLength \in 1 .. LargestSize
<1>1. CASE context.segment = "type"
  BY <1>1 DEF NextLength, INITIAL_H4_READ_SIZE, HeaderSize, EventType, LargestSize
<1>2. CASE context.segment # "type"
  <2>1. context.lacks \in Lacks /\ context.lacks # 0
    BY <1>2, InPlaceIs, ContextIs DEF DataTypes
  <2>2. NextLength = context.lacks
    BY <1>2, <2>1 DEF NextLength
  <2> QED BY <2>1, <2>2, Sizes DEF Lacks
<1> QED BY <1>1, <1>2

LEMMA TypesInit == Init => SenderTypes /\ DataTypes
<1> SUFFICES ASSUME Init PROVE SenderTypes /\ DataTypes
  OBVIOUS
<1>1. SenderTypes
  <2>1. length \in 1 .. LargestSize
    BY DEF Init, INITIAL_H4_READ_SIZE, HeaderSize, EventType, LargestSize
  <2> QED BY <2>1 DEF Init, SenderTypes
<1>2. stream \in Streams /\ wire \in Seq(Byte) /\ buffer \in Seq(Byte)
  BY StreamsAre DEF Init
<1>3. context \in PumpContext /\ InPlace
  <2>1. Cleared \in Raws /\ 0 \in Lacks /\ 0 \in Types /\ "type" \in Segments
    BY Sizes DEF Cleared, Raws, Lacks, Types, Segments
  <2>2. context = [segment |-> "type", read |-> 0, lacks |-> 0, type |-> 0, raw |-> Cleared]
    BY DEF Init
  <2> QED BY <2>1, <2>2 DEF PumpContext, InPlace
<1>4. delivered = <<>>
  BY DEF Init
<1> QED BY <1>1, <1>2, <1>3, <1>4 DEF DataTypes

LEMMA SenderTypesStep ==
    ASSUME SenderTypes, DataTypes, [Next]_vars
    PROVE  SenderTypes'
<1> USE DEF SenderTypes
<1>1. CASE Send
  BY <1>1 DEF Send
<1>2. CASE ComparePending
  BY <1>2 DEF ComparePending
<1>3. CASE CompareComplete
  BY <1>3 DEF CompareComplete
<1>4. CASE ReadNext
  <2>1. NextLength \in 1 .. LargestSize
    BY NextReadIs
  <2> HIDE DEF NextLength
  <2> QED BY <1>4, <2>1 DEF ReadNext
<1>5. CASE Reassemble /\ ~OutOfSync
  <2>1. /\ completer # "idle"
        /\ UNCHANGED <<sender, length, uart, state, status, completer, hardwareError>>
    BY <1>5 DEF Reassemble, GetType, GetHeader, EndHeader, GetPayload, EndPayload, Reassembling
  <2> QED BY <2>1
<1>11. CASE OutOfSync
  <2>1. /\ buffer' = <<>> /\ UNCHANGED <<length, uart, state, status>>
        /\ hardwareError' \in BOOLEAN
        /\ completer' \in {"idle", completer} /\ sender' \in {"stopped", sender}
    BY <1>11 DEF OutOfSync
  <2> QED BY <2>1
<1>6. CASE SendFails
  BY <1>6 DEF SendFails
<1>7. CASE ReadReturns
  <2>1. /\ Completes /\ completer' = state /\ status' \in BOOLEAN
        /\ UNCHANGED <<sender, length, hardwareError>>
    BY <1>7 DEF ReadReturns
  <2> QED BY <2>1 DEF Completes
<1>8. CASE ReadTimesOut
  BY <1>8 DEF ReadTimesOut, Completes
<1>9. CASE ReadFails
  BY <1>9 DEF ReadFails, Completes
<1>10. CASE UNCHANGED vars
  BY <1>10 DEF vars
<1> QED BY <1>1, <1>2, <1>3, <1>4, <1>5, <1>6, <1>7, <1>8, <1>9, <1>10, <1>11 DEF Next, Run

LEMMA Delivers ==
    ASSUME DataTypes, NEW c, c.raw \in Raws, c.type \in PacketTypes,
           HeaderSize(c.type) + PayloadSize(c) <= RawSize,
           delivered' = Append(delivered, Packet(c))
    PROVE  delivered' \in Seq([type : PacketTypes, bytes : Seq(Byte)])
<1> DEFINE P == [type : PacketTypes, bytes : Seq(Byte)]
<1>1. Packet(c) \in P
  BY PacketIs
<1>2. delivered \in Seq(P)
  BY DEF DataTypes
<1> HIDE DEF P
<1>3. Append(delivered, Packet(c)) \in Seq(P)
  BY <1>1, <1>2
<1> QED BY <1>3 DEF P

LEMMA DataTypesStep ==
    ASSUME SenderTypes, DataTypes, [Next]_vars
    PROVE  DataTypes'
<1> DEFINE P == [type : PacketTypes, bytes : Seq(Byte)]
<1>0. /\ stream \in Streams /\ wire \in Seq(Byte) /\ buffer \in Seq(Byte)
      /\ context \in PumpContext /\ InPlace /\ delivered \in Seq(P)
  BY DEF DataTypes
<1>1. CASE \/ Send \/ ComparePending \/ CompareComplete \/ ReadNext \/ SendFails
           \/ ReadTimesOut \/ ReadFails \/ UNCHANGED vars
  <2>1. UNCHANGED <<stream, wire, buffer, context, delivered>>
    BY <1>1 DEF Send, ComparePending, CompareComplete, ReadNext, SendFails, ReadTimesOut,
                ReadFails, vars
  <2> QED BY <2>1, DataStays
<1>2. CASE ReadReturns
  <2>1. PICK n \in 1 .. length :
            /\ n <= Len(wire) /\ buffer' = SubSeq(wire, 1, n)
            /\ wire' = SubSeq(wire, n + 1, Len(wire))
            /\ UNCHANGED <<stream, context, delivered>>
    BY <1>2 DEF ReadReturns
  <2>2. n \in 0 .. Len(wire)
    BY <1>0, <2>1 DEF SenderTypes
  <2>3. buffer' \in Seq(Byte) /\ wire' \in Seq(Byte)
    BY <1>0, <2>1, <2>2, Cut
  <2>4. InPlace'
    BY <1>0, <2>1 DEF InPlace, PayloadSize
  <2> QED BY <1>0, <2>1, <2>3, <2>4 DEF DataTypes
<1>3. CASE GetType
  <2>1. /\ context' \in PumpContext /\ context'.segment = "header" /\ context'.read = 0
        /\ context'.type \in PacketTypes /\ context'.lacks = HeaderSize(context'.type)
        /\ buffer # <<>> /\ buffer' = Tail(buffer)
        /\ UNCHANGED <<stream, wire, delivered>>
    BY <1>3, GetTypeIs
  <2>2. HeaderSize(context'.type) \in 2 .. 4 /\ context'.type # 0
    BY <2>1, Headers
  <2>3. InPlace'
    BY <2>1, <2>2 DEF InPlace
  <2>4. buffer' \in Seq(Byte)
    BY <1>0, <2>1
  <2> QED BY <1>0, <2>1, <2>3, <2>4 DEF DataTypes
<1>4. CASE OutOfSync
  <2>1. /\ context' \in PumpContext /\ context'.segment = "type" /\ buffer' = <<>>
        /\ UNCHANGED <<stream, wire, delivered>>
    BY <1>4, OutOfSyncIs
  <2>2. InPlace'
    BY <2>1 DEF InPlace
  <2> QED BY <1>0, <2>1, <2>2 DEF DataTypes
<1>5. CASE GetHeader
  <2>1. /\ context' \in PumpContext /\ context'.segment = "header"
        /\ context'.read < HeaderSize(context'.type) /\ context'.type \in PacketTypes
        /\ context'.lacks # 0 /\ buffer # <<>> /\ buffer' = Tail(buffer)
        /\ UNCHANGED <<stream, wire, delivered>>
    BY <1>5, GetHeaderIs
  <2>2. InPlace'
    BY <2>1, Headers DEF InPlace
  <2>3. buffer' \in Seq(Byte)
    BY <1>0, <2>1
  <2> QED BY <1>0, <2>1, <2>2, <2>3 DEF DataTypes
<1>6. CASE EndHeader
  <2>1. PICK c \in PumpContext :
           /\ c.type \in PacketTypes
           /\ context' \in PumpContext
           /\ \/ /\ c.type = EventType /\ PayloadSize(c) = 0
                 /\ delivered' = Append(delivered, Packet(c)) /\ context'.segment = "type"
              \/ /\ context'.segment = "payload" /\ context'.read = 0 /\ context'.lacks # 0
                 /\ context'.type = c.type /\ context'.raw = c.raw
                 /\ UNCHANGED delivered
           /\ buffer # <<>> /\ buffer' = Tail(buffer)
           /\ UNCHANGED <<stream, wire>>
    BY <1>6, EndHeaderIs
  <2>2. buffer' \in Seq(Byte)
    BY <1>0, <2>1
  <2>3. InPlace' /\ delivered' \in Seq(P)
    <3>1. CASE /\ c.type = EventType /\ PayloadSize(c) = 0
               /\ delivered' = Append(delivered, Packet(c)) /\ context'.segment = "type"
      <4>1. HeaderSize(c.type) + PayloadSize(c) <= RawSize /\ c.raw \in Raws
        BY <3>1, ContextIs, PayloadIs
      <4>2. delivered' \in Seq(P)
        BY <2>1, <3>1, <4>1, Delivers
      <4> QED BY <3>1, <4>2 DEF InPlace
    <3>2. CASE /\ context'.segment = "payload" /\ context'.read = 0 /\ context'.lacks # 0
               /\ context'.type = c.type /\ context'.raw = c.raw
               /\ UNCHANGED delivered
      <4>1. PayloadSize(c) \in 0 .. LargestSize
        BY ContextIs, PayloadIs
      <4>2. PayloadSize(context') = PayloadSize(c)
        BY <3>2 DEF PayloadSize
      <4>3. PayloadSize(context') \in Nat
        BY <4>1, <4>2, Sizes
      <4>4. context'.read <= PayloadSize(context') /\ context'.type # 0
        BY <2>1, <3>2, <4>3, Headers
      <4>5. InPlace'
        BY <3>2, <4>4 DEF InPlace
      <4> QED BY <1>0, <3>2, <4>5
    <3> QED BY <2>1, <3>1, <3>2
  <2> QED BY <1>0, <2>1, <2>2, <2>3 DEF DataTypes
<1>7. CASE GetPayload
  <2>1. /\ Len(buffer) < PayloadSize(context) - context.read /\ buffer' = <<>>
        /\ context' \in PumpContext /\ context'.segment = "payload"
        /\ context'.read = context.read + Len(buffer) /\ context'.type = context.type
        /\ context'.lacks # 0 /\ PayloadSize(context') = PayloadSize(context)
        /\ UNCHANGED <<stream, wire, delivered>>
        /\ Reassembling("payload") /\ InSync
    BY <1>7, GetPayloadIs
  <2>2. /\ context.read \in Nat /\ PayloadSize(context) \in Nat /\ Len(buffer) \in Nat
        /\ context.type # 0
    BY <1>0, <2>1, PayloadFits
  <2>3. context'.read <= PayloadSize(context')
    BY <2>1, <2>2
  <2>4. InPlace'
    BY <2>1, <2>2, <2>3 DEF InPlace
  <2> QED BY <1>0, <2>1, <2>4 DEF DataTypes
<1>8. CASE EndPayload
  <2>1. PICK c : /\ c.type = context.type /\ c.raw \in Raws
                 /\ PayloadSize(c) = PayloadSize(context)
                 /\ delivered' = Append(delivered, Packet(c))
    BY <1>8, EndPayloadIs, Zenon
  <2>2. /\ Missing \in 0 .. Len(buffer)
        /\ buffer' = SubSeq(buffer, Missing + 1, Len(buffer))
        /\ context' \in PumpContext /\ context'.segment = "type"
        /\ UNCHANGED <<stream, wire>> /\ Reassembling("payload") /\ InSync
    BY <1>8, EndPayloadIs, Zenon
  <2>3. buffer' \in Seq(Byte)
    BY <1>0, <2>2, Cut
  <2>4. HeaderSize(c.type) + PayloadSize(c) <= RawSize /\ c.type \in PacketTypes
    BY <2>1, <2>2, PayloadFits
  <2>5. delivered' \in Seq(P)
    BY <2>1, <2>4, Delivers
  <2>6. InPlace'
    BY <2>2 DEF InPlace
  <2> QED BY <1>0, <2>2, <2>3, <2>5, <2>6 DEF DataTypes
<1> QED BY <1>1, <1>2, <1>3, <1>4, <1>5, <1>6, <1>7, <1>8 DEF Next, Run, Reassemble

-----------------------------------------------------------------------------
(* Where the pump is in a clean stream.                                    *)
LEMMA PacketSays ==
    ASSUME NEW p \in Sendable, IsEvent(p) \/ IsAcl(p)
    PROVE  /\ p.type \in PacketTypes /\ p.bytes \in Seq(Byte) /\ Len(p.bytes) \in Nat
           /\ HeaderSize(p.type) <= Len(p.bytes) /\ Len(p.bytes) <= RawSize
           /\ \A c : /\ c.type = p.type
                     /\ \A i \in 1 .. HeaderSize(p.type) : c.raw[i] = p.bytes[i]
                     => Len(p.bytes) = HeaderSize(p.type) + PayloadSize(c)
<1>1. p.bytes \in Seq(Byte)
  BY DEF Sendable
<1> DEFINE b == p.bytes
<1>2. Len(b) \in Nat /\ DOMAIN b = 1 .. Len(b)
  BY <1>1
<1>3. CASE IsEvent(p)
  <2>1. /\ p.type = EventType /\ HeaderSize(p.type) = 2 /\ p.type \in PacketTypes
        /\ Len(b) >= 2 /\ Len(b) = 2 + b[2]
    BY <1>3, Headers DEF IsEvent, PacketTypes
  <2>2. 2 \in 1 .. Len(b) /\ 2 \in 1 .. 2
    BY <1>2, <2>1
  <2>3. b[2] \in Byte
    BY <1>1, <2>2
  <2>4. ASSUME NEW c, c.type = p.type, \A i \in 1 .. 2 : c.raw[i] = b[i]
        PROVE  PayloadSize(c) = b[2]
    BY <2>1, <2>2, <2>4 DEF PayloadSize
  <2> HIDE DEF b
  <2>5. Len(b) <= RawSize
    BY <2>1, <2>3, Sizes
  <2> QED BY <1>1, <1>2, <2>1, <2>4, <2>5 DEF b
<1>4. CASE IsAcl(p)
  <2>1. /\ p.type = AclType /\ HeaderSize(p.type) = 4 /\ p.type \in PacketTypes
        /\ p.type # EventType
        /\ Len(b) >= 4 /\ Len(b) = 4 + b[3] + 256 * b[4] /\ Len(b) <= RawSize
    BY <1>4, Headers DEF IsAcl, PacketTypes, AclType, EventType
  <2>2. 3 \in 1 .. Len(b) /\ 4 \in 1 .. Len(b) /\ 3 \in 1 .. 4 /\ 4 \in 1 .. 4
    BY <1>2, <2>1
  <2>3. b[3] \in Byte /\ b[4] \in Byte
    BY <1>1, <2>2
  <2>4. ASSUME NEW c, c.type = p.type, \A i \in 1 .. 4 : c.raw[i] = b[i]
        PROVE  PayloadSize(c) = b[3] + 256 * b[4]
    BY <2>1, <2>2, <2>4 DEF PayloadSize
  <2> HIDE DEF b
  <2>5. Len(b) = 4 + (b[3] + 256 * b[4])
    BY <2>1, <2>3, Sizes
  <2> QED BY <1>1, <1>2, <2>1, <2>4, <2>5 DEF b
<1> QED BY <1>3, <1>4

LEMMA CleanIs ==
    ASSUME DataTypes, Clean, NEW k \in 0 .. Len(stream) - 1
    PROVE  stream[k + 1] \in Sendable /\ (IsEvent(stream[k + 1]) \/ IsAcl(stream[k + 1]))
<1>1. stream \in Seq(Sendable) /\ k + 1 \in 1 .. Len(stream)
  BY StreamsAre DEF DataTypes
<1>2. k + 1 \in DOMAIN stream
  BY <1>1
<1>3. IsEvent(stream[k + 1]) \/ IsAcl(stream[k + 1])
  BY <1>2, Zenon DEF Clean
<1>4. stream[k + 1] \in Sendable
  BY <1>1
<1> QED BY <1>3, <1>4

LEMMA PlaceIs ==
    ASSUME DataTypes, InStep, Clean
    PROVE  /\ Sent \in Seq(Byte) /\ Len(Sent) \in Nat
           /\ Len(buffer) \in Nat /\ Len(wire) \in Nat /\ Place \in Nat
           /\ Place + Len(buffer) + Len(wire) = Len(Sent)
           /\ Done \in 0 .. Len(stream) /\ Len(stream) \in Nat
           /\ Offset(stream, Done) \in Nat
<1>1. /\ stream \in Seq(Sendable) /\ Sent \in Seq(Byte) /\ buffer \in Seq(Byte)
      /\ wire \in Seq(Byte)
  BY StreamsAre DEF DataTypes, Sent
<1>2. Len(wire) + Len(buffer) <= Len(Sent)
  BY DEF InStep, OnItsWay
<1>3. Len(Sent) \in Nat /\ Len(buffer) \in Nat /\ Len(wire) \in Nat /\ Len(stream) \in Nat
  BY <1>1
<1>4. Place \in Nat /\ Place + Len(buffer) + Len(wire) = Len(Sent)
  BY <1>2, <1>3 DEF Place
<1>5. Done \in 0 .. Len(stream)
  <2>1. Done \in Nat
    BY DEF DataTypes, Done
  <2> QED BY <1>3, <2>1 DEF InStep, InOrder
<1>6. Offset(stream, Done) \in Nat
  <2>1. Offset(stream, Done) \in 0 .. Len(Encode(stream))
    BY <1>1, <1>5, FirstBytesFirst
  <2> QED BY <1>3, <2>1 DEF Sent
<1> QED BY <1>1, <1>3, <1>4, <1>5, <1>6

LEMMA TypeByte ==
    ASSUME DataTypes, InStep, Clean, context.segment = "type", buffer # <<>>
    PROVE  /\ Done \in 0 .. Len(stream) - 1 /\ buffer[1] = Current.type
           /\ Current.type \in PacketTypes
<1>1. /\ stream \in Seq(Sendable) /\ Len(buffer) >= 1 /\ Place = Offset(stream, Done)
  BY StreamsAre DEF DataTypes, InStep, InProgress
<1>2. Done # Len(stream)
  <2>1. Offset(stream, Len(stream)) = Len(Sent)
    BY <1>1, BytesGrow DEF Offset, Sent
  <2> QED BY <1>1, <2>1, PlaceIs
<1>3. Done \in 0 .. Len(stream) - 1
  BY <1>2, PlaceIs
<1>4. Sent[Offset(stream, Done) + 1] = Current.type
  BY <1>1, <1>3, PacketPlace DEF Sent, Current
<1>5. buffer[1] = Sent[Place + 1]
  <2>1. 1 \in 1 .. Len(buffer)
    BY <1>1, PlaceIs
  <2> QED BY <2>1 DEF InStep, OnItsWay
<1>6. Current.type \in PacketTypes
  BY <1>3, CleanIs, PacketSays DEF Current
<1> QED BY <1>1, <1>3, <1>4, <1>5, <1>6

LEMMA CurrentIs ==
    ASSUME DataTypes, InStep, Clean, context.segment # "type"
    PROVE  /\ Done \in 0 .. Len(stream) - 1
           /\ Current \in Sendable /\ (IsEvent(Current) \/ IsAcl(Current))
           /\ Current.type = context.type /\ Current.type \in PacketTypes
           /\ Current.bytes \in Seq(Byte) /\ Len(Current.bytes) \in Nat
           /\ HeaderSize(context.type) <= Len(Current.bytes) /\ Len(Current.bytes) <= RawSize
           /\ Held \in Nat /\ Held <= Len(Current.bytes)
           /\ Place = Offset(stream, Done) + 1 + Held
           /\ Offset(stream, Done + 1) = Offset(stream, Done) + 1 + Len(Current.bytes)
           /\ \A i \in 1 .. Held : context.raw[i] = Current.bytes[i]
           /\ \A n \in 1 .. Len(buffer) :
                  Held + n <= Len(Current.bytes) => buffer[n] = Current.bytes[Held + n]
<1>1. /\ Done < Len(stream) /\ Current.type = context.type
      /\ Place = Offset(stream, Done) + 1 + Held /\ Held <= Len(Current.bytes)
      /\ \A i \in 1 .. Held : context.raw[i] = Current.bytes[i]
      /\ \A i \in 1 .. Len(buffer) : buffer[i] = Sent[Place + i]
      /\ stream \in Seq(Sendable)
  BY StreamsAre DEF DataTypes, InStep, InProgress, OnItsWay
<1>2. Done \in 0 .. Len(stream) - 1
  BY <1>1, PlaceIs
<1>3. Current \in Sendable /\ (IsEvent(Current) \/ IsAcl(Current))
  BY <1>2, CleanIs DEF Current
<1>4. /\ Current.type \in PacketTypes /\ Current.bytes \in Seq(Byte)
      /\ Len(Current.bytes) \in Nat
      /\ HeaderSize(context.type) <= Len(Current.bytes) /\ Len(Current.bytes) <= RawSize
  BY <1>1, <1>3, PacketSays
<1>5. Held \in Nat
  <2>1. context.read \in Nat /\ HeaderSize(context.type) \in 2 .. 4
    BY <1>1, <1>4, ContextIs, Headers DEF DataTypes
  <2> QED BY <2>1 DEF Held
<1>6. /\ Offset(stream, Done + 1) = Offset(stream, Done) + 1 + Len(Current.bytes)
      /\ \A i \in 1 .. Len(Current.bytes) :
             Sent[Offset(stream, Done) + 1 + i] = Current.bytes[i]
  BY <1>1, <1>2, PacketPlace DEF Sent, Current
<1>7. ASSUME NEW n \in 1 .. Len(buffer), Held + n <= Len(Current.bytes)
      PROVE  buffer[n] = Current.bytes[Held + n]
  <2>1. /\ Held + n \in 1 .. Len(Current.bytes)
        /\ Offset(stream, Done) + 1 + (Held + n) = Place + n
    <3>1. n \in Nat /\ n >= 1 /\ Place \in Int
      BY <1>7, PlaceIs
    <3>2. Place = Offset(stream, Done) + 1 + Held
      BY <1>1
    <3>3. Offset(stream, Done) \in Int
      BY <1>2, PlaceIs
    <3> HIDE DEF Place, Held, Current, Offset
    <3> QED BY <1>4, <1>5, <1>7, <3>1, <3>2, <3>3
  <2>2. Sent[Place + n] = Current.bytes[Held + n]
    BY <1>6, <2>1
  <2> QED BY <1>1, <2>2
<1> QED BY <1>1, <1>2, <1>3, <1>4, <1>5, <1>6, <1>7

(* The buffer loses its first n bytes.                                     *)
LEMMA Advance ==
    ASSUME DataTypes, InStep, Clean, NEW n \in 0 .. Len(buffer),
           buffer' \in Seq(Byte), Len(buffer') = Len(buffer) - n,
           \A i \in 1 .. Len(buffer) - n : buffer'[i] = buffer[n + i],
           UNCHANGED <<stream, wire>>
    PROVE  OnItsWay' /\ Place' = Place + n /\ Place' \in Nat
<1>1. Sent' = Sent
  BY DEF Sent
<1>2. Place' = Place + n /\ Place' \in Nat
  BY <1>1, PlaceIs DEF Place
<1>3. Len(wire') + Len(buffer') <= Len(Sent')
  BY <1>1, PlaceIs
<1>4. ASSUME NEW i \in 1 .. Len(buffer') PROVE buffer'[i] = Sent'[Place' + i]
  <2>1. n + i \in 1 .. Len(buffer) /\ i \in 1 .. Len(buffer) - n /\ Place' + i = Place + (n + i)
    BY <1>2, PlaceIs
  <2>2. buffer[n + i] = Sent[Place + (n + i)]
    BY <2>1 DEF InStep, OnItsWay
  <2> QED BY <1>1, <2>1, <2>2
<1>5. ASSUME NEW i \in 1 .. Len(wire') PROVE wire'[i] = Sent'[Place' + Len(buffer') + i]
  <2>1. i \in 1 .. Len(wire) /\ Place' + Len(buffer') + i = Place + Len(buffer) + i
    BY <1>2, PlaceIs
  <2>2. wire[i] = Sent[Place + Len(buffer) + i]
    BY <2>1 DEF InStep, OnItsWay
  <2> QED BY <1>1, <2>1, <2>2
<1> QED BY <1>2, <1>3, <1>4, <1>5 DEF OnItsWay

-----------------------------------------------------------------------------
(* The pump stays in step.                                                 *)
LEMMA PacketArrives ==
    ASSUME DataTypes, InStep, Clean, context.segment # "type",
           NEW c, c.raw \in Raws, c.type = context.type,
           Len(Current.bytes) = HeaderSize(c.type) + PayloadSize(c),
           \A i \in 1 .. Len(Current.bytes) : c.raw[i] = Current.bytes[i],
           delivered' = Append(delivered, Packet(c)), stream' = stream
    PROVE  /\ InOrder' /\ Done' = Done + 1
           /\ Offset(stream', Done') = Offset(stream, Done) + 1 + Len(Current.bytes)
<1>1. /\ Done \in 0 .. Len(stream) - 1 /\ Current \in Sendable /\ c.type \in PacketTypes
      /\ Current.type = c.type /\ Current.bytes \in Seq(Byte)
      /\ HeaderSize(c.type) + PayloadSize(c) <= RawSize
      /\ Offset(stream, Done + 1) = Offset(stream, Done) + 1 + Len(Current.bytes)
  BY CurrentIs
<1>2. Packet(c) = Current
  <2> DEFINE b == Packet(c).bytes
  <2>1. /\ Packet(c) \in [type : PacketTypes, bytes : Seq(Byte)] /\ Packet(c).type = c.type
        /\ Len(b) = HeaderSize(c.type) + PayloadSize(c)
        /\ \A i \in 1 .. HeaderSize(c.type) + PayloadSize(c) : b[i] = c.raw[i]
    BY <1>1, PacketIs
  <2>2. b \in Seq(Byte)
    BY <2>1
  <2>3. Len(b) = Len(Current.bytes) /\ \A i \in 1 .. Len(Current.bytes) : b[i] = Current.bytes[i]
    BY <2>1
  <2>4. b = Current.bytes
    <3> DEFINE d == Current.bytes
    <3>1. d \in Seq(Byte) /\ Len(b) = Len(d) /\ \A i \in 1 .. Len(d) : b[i] = d[i]
      BY <1>1, <2>3
    <3>2. \A i \in 1 .. Len(b) : b[i] = d[i]
      BY <3>1
    <3> HIDE DEF b, d
    <3>3. b = d
      BY <2>2, <3>1, <3>2, SeqEqual
    <3> QED BY <3>3 DEF d
  <2> QED BY <1>1, <2>1, <2>4 DEF Sendable
<1>3. Len(delivered) = Done /\ delivered \in Seq([type : PacketTypes, bytes : Seq(Byte)])
  BY DEF DataTypes, Done
<1>4. Done' = Done + 1 /\ \A i \in 1 .. Done + 1 :
          delivered'[i] = IF i = Done + 1 THEN Current ELSE delivered[i]
  <2>1. delivered' = Append(delivered, Current)
    BY <1>2
  <2> HIDE DEF Current
  <2> QED BY <1>3, <2>1 DEF Done
<1>5. InOrder'
  <2>1. Done' <= Len(stream')
    BY <1>1, <1>4, PlaceIs
  <2>2. ASSUME NEW i \in 1 .. Done' PROVE delivered'[i] = stream'[i]
    <3>1. CASE i = Done + 1
      BY <1>4, <3>1 DEF Current
    <3>2. CASE i # Done + 1
      <4>1. i \in 1 .. Done /\ i \in 1 .. Done + 1
        BY <1>1, <1>4, <3>2
      <4>2. delivered[i] = stream[i]
        BY <4>1 DEF InStep, InOrder
      <4> QED BY <1>4, <3>2, <4>1, <4>2
    <3> QED BY <3>1, <3>2
  <2> QED BY <2>1, <2>2 DEF InOrder
<1> QED BY <1>1, <1>4, <1>5

LEMMA ReturnKeepsStep ==
    ASSUME SenderTypes, DataTypes, InStep, Clean, ReadReturns
    PROVE  OnItsWay' /\ InOrder' /\ InProgress'
<1>1. PICK n \in 1 .. length :
          /\ n <= Len(wire) /\ buffer' = SubSeq(wire, 1, n)
          /\ wire' = SubSeq(wire, n + 1, Len(wire))
          /\ completer = "idle" /\ UNCHANGED <<stream, context, delivered>>
  BY DEF ReadReturns, Completes
<1>2. n \in 0 .. Len(wire) /\ wire \in Seq(Byte) /\ Len(buffer) = 0
  <2>1. buffer = <<>>
    BY <1>1 DEF SenderTypes
  <2> QED BY <1>1, <2>1, PlaceIs DEF SenderTypes, DataTypes
<1>3. /\ Len(buffer') = n /\ Len(wire') = Len(wire) - n
      /\ \A i \in 1 .. n : buffer'[i] = wire[i]
      /\ \A i \in 1 .. Len(wire) - n : wire'[i] = wire[n + i]
  BY <1>1, <1>2, Cut
<1>4. Sent' = Sent /\ Done' = Done /\ Current' = Current /\ Held' = Held
  BY <1>1 DEF Sent, Done, Current, Held
<1>5. Place' = Place
  <2>1. Place' = Len(Sent') - Len(wire') - Len(buffer')
    BY DEF Place
  <2>2. Place = Len(Sent) - Len(wire) - 0
    BY <1>2 DEF Place
  <2>3. Len(Sent) \in Nat /\ Len(wire) \in Nat /\ n \in Nat
    BY <1>2, PlaceIs
  <2> QED BY <1>3, <1>4, <2>1, <2>2, <2>3
<1>6. OnItsWay'
  <2>1. Len(wire') + Len(buffer') <= Len(Sent')
    BY <1>2, <1>3, <1>4, PlaceIs
  <2>2. ASSUME NEW i \in 1 .. Len(wire) PROVE wire[i] = Sent[Place + i]
    <3>1. wire[i] = Sent[Place + Len(buffer) + i]
      BY DEF InStep, OnItsWay
    <3>2. Place + Len(buffer) + i = Place + i
      BY <1>2, PlaceIs
    <3> QED BY <3>1, <3>2
  <2>3. ASSUME NEW i \in 1 .. Len(buffer') PROVE buffer'[i] = Sent'[Place' + i]
    <3>1. i \in 1 .. n /\ i \in 1 .. Len(wire)
      BY <1>2, <1>3
    <3> QED BY <1>3, <1>4, <1>5, <2>2, <3>1
  <2>4. ASSUME NEW i \in 1 .. Len(wire') PROVE wire'[i] = Sent'[Place' + Len(buffer') + i]
    <3>1. n + i \in 1 .. Len(wire) /\ i \in 1 .. Len(wire) - n
      BY <1>2, <1>3, PlaceIs
    <3>2. Place' + Len(buffer') + i = Place + (n + i)
      BY <1>2, <1>3, <1>5, PlaceIs
    <3> QED BY <1>3, <1>4, <2>2, <3>1, <3>2
  <2> QED BY <2>1, <2>3, <2>4 DEF OnItsWay
<1>7. InOrder'
  BY <1>1, <1>4 DEF InStep, InOrder
<1>8. InProgress'
  BY <1>1, <1>4, <1>5 DEF InStep, InProgress
<1> QED BY <1>6, <1>7, <1>8

LEMMA TypeKeepsStep ==
    ASSUME DataTypes, InStep, Clean, GetType
    PROVE  OnItsWay' /\ InOrder' /\ InProgress'
<1>1. /\ context'.segment = "header" /\ context'.read = 0 /\ context'.type = buffer[1]
      /\ buffer # <<>> /\ buffer' = Tail(buffer) /\ context.segment = "type"
      /\ UNCHANGED <<stream, wire, delivered>>
  BY GetTypeIs
<1>2. Done \in 0 .. Len(stream) - 1 /\ buffer[1] = Current.type
  BY <1>1, TypeByte
<1>3. /\ buffer' \in Seq(Byte) /\ Len(buffer') = Len(buffer) - 1 /\ 1 \in 0 .. Len(buffer)
      /\ \A i \in 1 .. Len(buffer) - 1 : buffer'[i] = buffer[1 + i]
  BY <1>1, Rest DEF DataTypes
<1>4. OnItsWay' /\ Place' = Place + 1
  BY <1>1, <1>3, Advance
<1>5. Done' = Done /\ Current' = Current /\ Held' = 0
  BY <1>1 DEF Done, Current, Held
<1>6. InOrder'
  BY <1>1, <1>5 DEF InStep, InOrder
<1>7. Place' = Offset(stream', Done') + 1 + Held'
  BY <1>1, <1>4, <1>5, PlaceIs DEF InStep, InProgress
<1>8. Held' <= Len(Current'.bytes)
  <2>1. Len(Current.bytes) \in Nat
    BY <1>2, CleanIs, PacketSays DEF Current
  <2> QED BY <1>5, <2>1
<1>9. InProgress'
  <2>1. \A i \in 1 .. Held' : context'.raw[i] = Current'.bytes[i]
    BY <1>5
  <2>2. Done' < Len(stream') /\ Current'.type = context'.type
    BY <1>1, <1>2, <1>5, PlaceIs
  <2> QED BY <1>1, <1>7, <1>8, <2>1, <2>2 DEF InProgress
<1> QED BY <1>4, <1>6, <1>9

LEMMA SyncIsKept ==
    ASSUME DataTypes, InStep, Clean
    PROVE  ~OutOfSync
<1> SUFFICES ASSUME buffer # <<>>
             PROVE  /\ ~(context.segment = "type" /\ Head(buffer) \notin {EventType, AclType})
                    /\ ~(/\ context.segment = "payload" /\ context.type = AclType
                         /\ PayloadSize(context) > MaxAclPayload)
  BY DEF OutOfSync
<1>1. ~(context.segment = "type" /\ Head(buffer) \notin {EventType, AclType})
  <2> SUFFICES ASSUME context.segment = "type" PROVE Head(buffer) \in {EventType, AclType}
    OBVIOUS
  <2>1. context.segment = "type" /\ buffer # <<>> /\ buffer \in Seq(Byte)
    BY DEF DataTypes
  <2> QED BY <2>1, TypeByte, Rest DEF PacketTypes
<1>2. ~(/\ context.segment = "payload" /\ context.type = AclType
        /\ PayloadSize(context) > MaxAclPayload)
  <2> SUFFICES ASSUME context.segment = "payload", context.type = AclType
               PROVE  ~(PayloadSize(context) > MaxAclPayload)
    OBVIOUS
  <2>1. context.segment = "payload" /\ context.raw \in Raws
    BY ContextIs DEF DataTypes
  <2>2. HeaderSize(context.type) = 4
    BY Headers
  <2>3. context.read \in Nat
    BY ContextIs DEF DataTypes
  <2>4. \A i \in 1 .. HeaderSize(context.type) : i \in 1 .. Held
    BY <2>1, <2>2, <2>3 DEF Held
  <2>5. Len(Current.bytes) = HeaderSize(context.type) + PayloadSize(context)
    BY <2>1, <2>4, CurrentIs, PacketSays
  <2>6. PayloadSize(context) \in Nat
    BY <2>1, PayloadIs, Sizes
  <2> QED BY <2>1, <2>2, <2>5, <2>6, CurrentIs, Sizes
<1> QED BY <1>1, <1>2

LEMMA Move ==
    /\ \A p, o, h, n \in Nat : p = o + 1 + h => p + n = o + 1 + (h + n)
    /\ \A h, r, p, l, n \in Nat : l = h + p /\ n <= p - r => (h + r) + n <= l
  OBVIOUS

LEMMA HeaderKeepsStep ==
    ASSUME DataTypes, InStep, Clean, GetHeader
    PROVE  OnItsWay' /\ InOrder' /\ InProgress'
<1>1. /\ context'.segment = "header" /\ context'.type = context.type
      /\ context'.read = context.read + 1 /\ context'.read < HeaderSize(context.type)
      /\ context'.raw[context.read + 1] = buffer[1]
      /\ \A i \in 1 .. context.read : context'.raw[i] = context.raw[i]
      /\ buffer # <<>> /\ buffer' = Tail(buffer) /\ context.segment = "header"
      /\ UNCHANGED <<stream, wire, delivered>>
  BY GetHeaderIs
<1>2. /\ buffer' \in Seq(Byte) /\ Len(buffer') = Len(buffer) - 1 /\ 1 \in 1 .. Len(buffer)
      /\ \A i \in 1 .. Len(buffer) - 1 : buffer'[i] = buffer[1 + i]
  BY <1>1, Rest DEF DataTypes
<1>3. OnItsWay' /\ Place' = Place + 1
  BY <1>1, <1>2, Advance
<1>4. /\ Done' = Done /\ Current' = Current /\ Held' = Held + 1 /\ Held = context.read
      /\ Held \in Nat
  <2>1. context.read \in Nat
    BY ContextIs DEF DataTypes
  <2> QED BY <1>1, <2>1 DEF Done, Current, Held
<1>5. InOrder'
  BY <1>1, <1>4 DEF InStep, InOrder
<1>6. Held + 1 <= Len(Current.bytes)
  <2>1. HeaderSize(context.type) <= Len(Current.bytes) /\ Len(Current.bytes) \in Nat
        /\ context.type \in PacketTypes
    BY <1>1, CurrentIs
  <2>2. HeaderSize(context.type) \in 2 .. 4
    BY <2>1, Headers
  <2> QED BY <1>1, <1>4, <2>1, <2>2
<1>7. \A i \in 1 .. Held + 1 : context'.raw[i] = Current.bytes[i]
  <2>1. buffer[1] = Current.bytes[Held + 1]
    BY <1>1, <1>2, <1>6, CurrentIs
  <2>2. \A i \in 1 .. Held : context.raw[i] = Current.bytes[i]
    BY <1>1, CurrentIs
  <2>3. \A i \in 1 .. Held + 1 : i \in 1 .. Held \/ i = Held + 1
    BY <1>4
  <2> QED BY <1>1, <1>4, <2>1, <2>2, <2>3
<1>8. /\ Done' < Len(stream') /\ Current'.type = context'.type
      /\ Place' = Offset(stream', Done') + 1 + Held'
  <2>1. /\ Done \in 0 .. Len(stream) - 1 /\ Current.type = context.type
        /\ Place = Offset(stream, Done) + 1 + Held
        /\ Place \in Nat /\ Offset(stream, Done) \in Nat /\ Len(stream) \in Nat
    BY <1>1, CurrentIs, PlaceIs
  <2>2. Place + 1 = Offset(stream, Done) + 1 + (Held + 1)
    BY <1>4, <2>1, Move
  <2>3. Done < Len(stream)
    BY <2>1
  <2> QED BY <1>1, <1>3, <1>4, <2>1, <2>2, <2>3
<1>9. InProgress'
  BY <1>1, <1>4, <1>6, <1>7, <1>8 DEF InProgress
<1> QED BY <1>3, <1>5, <1>9

LEMMA EndHeaderKeepsStep ==
    ASSUME DataTypes, InStep, Clean, EndHeader
    PROVE  OnItsWay' /\ InOrder' /\ InProgress'
<1>1. PICK c \in PumpContext :
           /\ c.type = context.type /\ c.type \in PacketTypes
           /\ c.raw[context.read + 1] = buffer[1]
           /\ \A i \in 1 .. context.read : c.raw[i] = context.raw[i]
           /\ context' \in PumpContext
           /\ \/ /\ c.type = EventType /\ PayloadSize(c) = 0
                 /\ delivered' = Append(delivered, Packet(c)) /\ context'.segment = "type"
              \/ /\ context'.segment = "payload" /\ context'.read = 0 /\ context'.lacks # 0
                 /\ context'.type = c.type /\ context'.raw = c.raw
                 /\ UNCHANGED delivered
           /\ context.read + 1 = HeaderSize(context.type)
           /\ buffer # <<>> /\ buffer' = Tail(buffer) /\ context.segment = "header"
           /\ UNCHANGED <<stream, wire>>
  BY EndHeaderIs
<1>2. /\ buffer' \in Seq(Byte) /\ Len(buffer') = Len(buffer) - 1 /\ 1 \in 1 .. Len(buffer)
      /\ \A i \in 1 .. Len(buffer) - 1 : buffer'[i] = buffer[1 + i]
  BY <1>1, Rest DEF DataTypes
<1>3. OnItsWay' /\ Place' = Place + 1
  BY <1>1, <1>2, Advance
<1>4. Held = context.read /\ Held \in Nat /\ Held + 1 = HeaderSize(c.type)
  <2>1. context.read \in Nat
    BY ContextIs DEF DataTypes
  <2> QED BY <1>1, <2>1 DEF Held
<1>5. /\ Done \in 0 .. Len(stream) - 1 /\ Current.type = c.type
      /\ HeaderSize(c.type) <= Len(Current.bytes)
      /\ Current \in Sendable /\ (IsEvent(Current) \/ IsAcl(Current))
      /\ Place = Offset(stream, Done) + 1 + Held /\ Len(Current.bytes) \in Nat
  BY <1>1, CurrentIs
<1>6. \A i \in 1 .. HeaderSize(c.type) : c.raw[i] = Current.bytes[i]
  <2>1. buffer[1] = Current.bytes[Held + 1]
    BY <1>1, <1>2, <1>4, <1>5, CurrentIs
  <2>2. \A i \in 1 .. Held : context.raw[i] = Current.bytes[i]
    BY <1>1, CurrentIs
  <2>3. \A i \in 1 .. Held + 1 : i \in 1 .. Held \/ i = Held + 1
    BY <1>4
  <2> QED BY <1>1, <1>4, <2>1, <2>2, <2>3
<1>7. Len(Current.bytes) = HeaderSize(c.type) + PayloadSize(c)
  BY <1>5, <1>6, PacketSays
<1>8. CASE /\ c.type = EventType /\ PayloadSize(c) = 0
           /\ delivered' = Append(delivered, Packet(c)) /\ context'.segment = "type"
  <2>1. HeaderSize(c.type) \in Nat
    BY <1>1, Headers
  <2>2. Len(Current.bytes) = HeaderSize(c.type)
    BY <1>7, <1>8, <2>1
  <2>3. /\ InOrder' /\ Done' = Done + 1
        /\ Offset(stream', Done') = Offset(stream, Done) + 1 + Len(Current.bytes)
    <3>1. c.raw \in Raws
      BY ContextIs
    <3> QED BY <1>1, <1>6, <1>7, <1>8, <2>2, <3>1, PacketArrives
  <2>4. Place' = Offset(stream', Done')
    <3>1. Place \in Nat /\ Offset(stream, Done) \in Nat
      BY PlaceIs
    <3>2. Place + 1 = Offset(stream, Done) + 1 + (Held + 1)
      BY <1>4, <1>5, <3>1, Move
    <3> QED BY <1>3, <1>4, <2>2, <2>3, <3>2
  <2>5. InProgress'
    BY <1>8, <2>4 DEF InProgress
  <2> QED BY <1>3, <2>3, <2>5
<1>9. CASE /\ context'.segment = "payload" /\ context'.read = 0
           /\ context'.type = c.type /\ context'.raw = c.raw
           /\ UNCHANGED delivered
  <2>1. Done' = Done /\ Current' = Current /\ Held' = HeaderSize(c.type)
    <3>1. HeaderSize(c.type) \in Nat
      BY <1>1, Headers
    <3> QED BY <1>1, <1>9, <3>1 DEF Done, Current, Held
  <2>2. InOrder'
    BY <1>1, <1>9, <2>1 DEF InStep, InOrder
  <2>3. /\ Done' < Len(stream') /\ Current'.type = context'.type
        /\ Place' = Offset(stream', Done') + 1 + Held'
    <3>1. Place \in Nat /\ Offset(stream, Done) \in Nat /\ Len(stream) \in Nat
      BY PlaceIs
    <3>2. Place + 1 = Offset(stream, Done) + 1 + (Held + 1)
      BY <1>4, <1>5, <3>1, Move
    <3>3. Done < Len(stream)
      BY <1>5, <3>1
    <3> QED BY <1>1, <1>3, <1>4, <1>5, <1>9, <2>1, <3>2, <3>3
  <2>4. InProgress'
    BY <1>5, <1>6, <1>9, <2>1, <2>3 DEF InProgress
  <2> QED BY <1>3, <2>2, <2>4
<1> QED BY <1>1, <1>8, <1>9

(* Of the payload, what has been copied is the packet's.                   *)
LEMMA PayloadIsCurrent ==
    ASSUME DataTypes, InStep, Clean, Reassembling("payload"), InSync,
           NEW n \in 0 .. Len(buffer), n <= PayloadSize(context) - context.read
    PROVE  /\ Held = HeaderSize(context.type) + context.read /\ Held \in Nat
           /\ Len(Current.bytes) = HeaderSize(context.type) + PayloadSize(context)
           /\ Held + n <= Len(Current.bytes) /\ PayloadSize(context) \in Nat
           /\ HeaderSize(context.type) \in Nat
           /\ \A i \in 1 .. Held + n : PayloadTo(n)[i] = Current.bytes[i]
<1>1. /\ context \in PumpContext /\ context.type \in PacketTypes /\ context.type # 0
      /\ buffer \in Seq(Byte) /\ context.segment = "payload" /\ context.read \in Nat
      /\ PayloadSize(context) \in Nat /\ HeaderSize(context.type) \in 2 .. 4
      /\ HeaderSize(context.type) + PayloadSize(context) <= RawSize
  BY PayloadFits
<1>2. Held = HeaderSize(context.type) + context.read /\ Held \in Nat
  BY <1>1 DEF Held
<1>3. /\ Current \in Sendable /\ (IsEvent(Current) \/ IsAcl(Current))
      /\ Current.type = context.type /\ Len(Current.bytes) \in Nat
      /\ \A i \in 1 .. Held : context.raw[i] = Current.bytes[i]
      /\ \A i \in 1 .. Len(buffer) :
             Held + i <= Len(Current.bytes) => buffer[i] = Current.bytes[Held + i]
  BY <1>1, CurrentIs
<1>4. Len(Current.bytes) = HeaderSize(context.type) + PayloadSize(context)
  <2>1. \A i \in 1 .. HeaderSize(context.type) : i \in 1 .. Held
    BY <1>1, <1>2
  <2> QED BY <1>3, <2>1, PacketSays
<1>5. n \in Nat /\ Held + n <= Len(Current.bytes) /\ Len(Current.bytes) <= RawSize
      /\ HeaderSize(context.type) \in Nat
  <2>1. n \in Nat /\ HeaderSize(context.type) \in Nat
    BY <1>1
  <2> QED BY <1>1, <1>2, <1>3, <1>4, <2>1, Move
<1>6. /\ \A i \in 1 .. RawSize : i <= Held => PayloadTo(n)[i] = context.raw[i]
      /\ \A i \in 1 .. RawSize : i > Held /\ i <= Held + n => PayloadTo(n)[i] = buffer[i - Held]
  <2>1. LET h == HeaderSize(context.type) + context.read
        IN /\ \A i \in 1 .. RawSize : i <= h => PayloadTo(n)[i] = context.raw[i]
           /\ \A i \in 1 .. RawSize : i > h /\ i <= h + n => PayloadTo(n)[i] = buffer[i - h]
    BY <1>1, PayloadToIs
  <2> QED BY <1>2, <2>1
<1>7. ASSUME NEW i \in 1 .. Held + n PROVE PayloadTo(n)[i] = Current.bytes[i]
  <2>1. i \in 1 .. RawSize
    BY <1>2, <1>3, <1>5, Sizes
  <2>2. CASE i <= Held
    <3>1. i \in 1 .. Held
      BY <1>2, <2>2
    <3> QED BY <1>3, <1>6, <2>1, <2>2, <3>1
  <2>3. CASE i > Held
    <3>1. /\ i - Held \in 1 .. Len(buffer) /\ Held + (i - Held) = i /\ i <= Held + n
          /\ Held + (i - Held) <= Len(Current.bytes)
      BY <1>2, <1>3, <1>5, <2>3
    <3>2. buffer[i - Held] = Current.bytes[Held + (i - Held)]
      BY <1>3, <3>1
    <3> QED BY <1>6, <2>1, <2>3, <3>1, <3>2
  <2> QED BY <1>2, <2>2, <2>3
<1> QED BY <1>1, <1>2, <1>4, <1>5, <1>7

LEMMA PayloadKeepsStep ==
    ASSUME DataTypes, InStep, Clean, GetPayload
    PROVE  OnItsWay' /\ InOrder' /\ InProgress'
<1> DEFINE n == Len(buffer)
<1>1. /\ n < PayloadSize(context) - context.read /\ buffer' = <<>>
      /\ context'.segment = "payload" /\ context'.read = context.read + n
      /\ context'.type = context.type /\ context'.raw = PayloadTo(n)
      /\ UNCHANGED <<stream, wire, delivered>>
      /\ Reassembling("payload") /\ InSync
  BY GetPayloadIs
<1>2. /\ context.type \in PacketTypes /\ context.read \in Nat
      /\ context.segment = "payload" /\ buffer \in Seq(Byte)
      /\ PayloadSize(context) \in Nat
  BY <1>1, PayloadFits
<1>3. n \in Nat /\ n \in 0 .. Len(buffer) /\ n <= PayloadSize(context) - context.read
  BY <1>1, <1>2
<1>4. OnItsWay' /\ Place' = Place + n
  <2>1. /\ buffer' \in Seq(Byte) /\ Len(buffer') = Len(buffer) - n
        /\ \A i \in 1 .. Len(buffer) - n : buffer'[i] = buffer[n + i]
    BY <1>1, <1>3
  <2> QED BY <1>1, <1>3, <2>1, Advance
<1>5. /\ Held = HeaderSize(context.type) + context.read /\ Held \in Nat
      /\ Held + n <= Len(Current.bytes) /\ HeaderSize(context.type) \in Nat
      /\ \A i \in 1 .. Held + n : PayloadTo(n)[i] = Current.bytes[i]
  BY <1>1, <1>3, PayloadIsCurrent
<1> HIDE DEF n
<1>6. Done' = Done /\ Current' = Current /\ Held' = Held + n
  BY <1>1, <1>2, <1>3, <1>5 DEF Done, Current, Held
<1>7. InOrder'
  BY <1>1, <1>6 DEF InStep, InOrder
<1>8. /\ Done' < Len(stream') /\ Current'.type = context'.type
      /\ Place' = Offset(stream', Done') + 1 + Held'
  <2>1. /\ Done \in 0 .. Len(stream) - 1 /\ Current.type = context.type
        /\ Place = Offset(stream, Done) + 1 + Held
        /\ Place \in Nat /\ Offset(stream, Done) \in Nat /\ Len(stream) \in Nat
    BY <1>2, CurrentIs, PlaceIs
  <2>2. Place + n = Offset(stream, Done) + 1 + (Held + n)
    BY <1>3, <1>5, <2>1, Move
  <2>3. Done < Len(stream)
    BY <2>1
  <2> QED BY <1>1, <1>4, <1>6, <2>1, <2>2, <2>3
<1>9. InProgress'
  BY <1>1, <1>5, <1>6, <1>8 DEF InProgress
<1> QED BY <1>4, <1>7, <1>9

LEMMA EndPayloadKeepsStep ==
    ASSUME DataTypes, InStep, Clean, EndPayload
    PROVE  OnItsWay' /\ InOrder' /\ InProgress'
<1> DEFINE n == Missing
<1>1. /\ n \in 0 .. Len(buffer) /\ n = PayloadSize(context) - context.read
      /\ buffer' = SubSeq(buffer, n + 1, Len(buffer))
      /\ context'.segment = "type"
      /\ UNCHANGED <<stream, wire>> /\ Reassembling("payload") /\ InSync
  BY EndPayloadIs, Zenon
<1>2. PICK c : /\ c.type = context.type /\ c.raw = PayloadTo(n) /\ c.raw \in Raws
               /\ PayloadSize(c) = PayloadSize(context)
               /\ delivered' = Append(delivered, Packet(c))
  BY EndPayloadIs, Zenon
<1> HIDE DEF n
<1>3. /\ context.read \in Nat /\ context.segment = "payload" /\ buffer \in Seq(Byte)
  BY <1>1, PayloadFits
<1>4. OnItsWay' /\ Place' = Place + n
  <2>1. /\ buffer' \in Seq(Byte) /\ Len(buffer') = Len(buffer) - n
        /\ \A i \in 1 .. Len(buffer) - n : buffer'[i] = buffer[n + i]
    BY <1>1, <1>3, Cut
  <2> QED BY <1>1, <2>1, Advance
<1>5. n <= PayloadSize(context) - context.read /\ n \in Nat
  BY <1>1, <1>3
<1>6. /\ Held = HeaderSize(context.type) + context.read /\ Held \in Nat
      /\ Len(Current.bytes) = HeaderSize(context.type) + PayloadSize(context)
      /\ HeaderSize(context.type) \in Nat /\ PayloadSize(context) \in Nat
      /\ \A i \in 1 .. Held + n : PayloadTo(n)[i] = Current.bytes[i]
  BY <1>1, <1>5, PayloadIsCurrent
<1>7. Held + n = Len(Current.bytes)
  BY <1>1, <1>3, <1>6
<1>8. /\ InOrder' /\ Done' = Done + 1
      /\ Offset(stream', Done') = Offset(stream, Done) + 1 + Len(Current.bytes)
  <2>1. \A i \in 1 .. Len(Current.bytes) : c.raw[i] = Current.bytes[i]
    BY <1>2, <1>6, <1>7
  <2>2. Len(Current.bytes) = HeaderSize(c.type) + PayloadSize(c)
    BY <1>2, <1>6
  <2> QED BY <1>1, <1>2, <1>3, <2>1, <2>2, PacketArrives
<1>9. Place' = Offset(stream', Done')
  <2>1. Place = Offset(stream, Done) + 1 + Held
    BY <1>3, CurrentIs
  <2>2. Place + n = Offset(stream, Done) + 1 + (Held + n)
    <3>1. Place \in Nat /\ Offset(stream, Done) \in Nat
      BY PlaceIs
    <3> QED BY <1>5, <1>6, <2>1, <3>1, Move
  <2> QED BY <1>4, <1>7, <1>8, <2>2
<1>10. InProgress'
  BY <1>1, <1>9 DEF InProgress
<1> QED BY <1>4, <1>8, <1>10

LEMMA InStepInit == Init => InStep
<1> SUFFICES ASSUME Init PROVE InStep
  OBVIOUS
<1>1. /\ stream \in Streams /\ wire = Encode(stream) /\ buffer = <<>> /\ delivered = <<>>
      /\ context.segment = "type"
  BY DEF Init
<1>2. stream \in Seq(Sendable) /\ Sent = wire /\ wire \in Seq(Byte)
  BY <1>1, StreamsAre DEF Sent
<1>3. Len(buffer) = 0 /\ Len(wire) \in Nat /\ Len(stream) \in Nat /\ Done = 0
  BY <1>1, <1>2 DEF Done
<1>4. Place = 0
  BY <1>2, <1>3 DEF Place
<1>5. OnItsWay
  BY <1>2, <1>3, <1>4 DEF OnItsWay
<1>6. InOrder
  BY <1>3 DEF InOrder
<1>7. InProgress
  <2>1. Offset(stream, 0) = 0
    BY <1>2, BytesGrow DEF Offset
  <2> QED BY <1>1, <1>3, <1>4, <2>1 DEF InProgress
<1> QED BY <1>5, <1>6, <1>7 DEF InStep

LEMMA InStepStep ==
    ASSUME SenderTypes, DataTypes, InStep, [Next]_vars
    PROVE  InStep'
<1>1. CASE \/ Send \/ ComparePending \/ CompareComplete \/ ReadNext \/ SendFails
           \/ ReadTimesOut \/ ReadFails \/ UNCHANGED vars
  <2>1. UNCHANGED <<stream, wire, buffer, context, delivered>>
    BY <1>1 DEF Send, ComparePending, CompareComplete, ReadNext, SendFails, ReadTimesOut,
                ReadFails, vars
  <2> QED BY <2>1, DataStays
<1>2. CASE ReadReturns \/ Reassemble
  <2>1. Clean' => Clean
    <3>1. stream' = stream
      BY <1>2 DEF ReadReturns, Reassemble, GetType, OutOfSync, GetHeader, EndHeader, GetPayload,
                  EndPayload, Reassembling
    <3> QED BY <3>1 DEF Clean
  <2> SUFFICES ASSUME Clean PROVE OnItsWay' /\ InOrder' /\ InProgress'
    BY <2>1 DEF InStep
  <2> QED BY <1>2, ReturnKeepsStep, TypeKeepsStep, SyncIsKept, HeaderKeepsStep,
             EndHeaderKeepsStep, PayloadKeepsStep, EndPayloadKeepsStep DEF Reassemble
<1> QED BY <1>1, <1>2 DEF Next, Run

LEMMA Invariant == Spec => []IInv
<1>1. Init => IInv
  BY TypesInit, InStepInit DEF IInv
<1>2. IInv /\ [Next]_vars => IInv'
  BY SenderTypesStep, DataTypesStep, InStepStep DEF IInv
<1> QED BY <1>1, <1>2, PTL DEF Spec

-----------------------------------------------------------------------------
(* The types, for any streams the controller may send, noise among them:   *)
(* whatever a header says, the pump never asks the UART for a read of no   *)
(* length, or of more than a header can tell.                              *)
THEOREM TypeCorrect == Spec => []TypeOK
<1>1. SenderTypes /\ DataTypes => TypeOK
  <2> SUFFICES ASSUME SenderTypes, DataTypes PROVE TypeOK
    OBVIOUS
  <2>1. \A b \in Byte : b \in Nat
    BY Sizes
  <2>2. wire \in Seq(Nat) /\ buffer \in Seq(Nat)
    BY <2>1 DEF DataTypes
  <2>3. context \in Context
    <3>1. context.raw \in [1 .. RawSize -> Nat]
      BY <2>1, ContextIs DEF DataTypes, Raws
    <3>2. context.lacks \in Nat
      BY ContextIs, Sizes DEF DataTypes, Lacks
    <3>3. context.type \in {0, EventType, AclType}
      BY ContextIs DEF DataTypes, Types, PacketTypes
    <3>4. context.segment \in {"type", "header", "payload"} /\ context.read \in Nat
      BY ContextIs DEF DataTypes, Segments
    <3>5. context = [segment |-> context.segment, read |-> context.read,
                     lacks |-> context.lacks, type |-> context.type, raw |-> context.raw]
      BY DEF DataTypes, PumpContext
    <3> QED BY <3>1, <3>2, <3>3, <3>4, <3>5, Zenon DEF Context
  <2>4. delivered \in Seq([type : {EventType, AclType}, bytes : Seq(Nat)])
    <3>1. Seq(Byte) \subseteq Seq(Nat)
      BY <2>1
    <3> DEFINE P == [type : PacketTypes, bytes : Seq(Byte)]
               Q == [type : {EventType, AclType}, bytes : Seq(Nat)]
    <3>2. P \subseteq Q
      BY <3>1 DEF PacketTypes
    <3>3. delivered \in Seq(P)
      BY DEF DataTypes
    <3> HIDE DEF P, Q
    <3>4. delivered \in Seq(Q)
      BY <3>2, <3>3
    <3> QED BY <3>4 DEF Q
  <2> QED BY <2>2, <2>3, <2>4 DEF TypeOK, SenderTypes, DataTypes
<1> QED BY <1>1, Invariant, PTL DEF IInv

MadeOf(w, a, b, c, d) ==
    /\ a \in Seq(Byte) /\ b \in Seq(Byte) /\ c \in Seq(Byte) /\ d \in Seq(Byte)
    /\ w \in Seq(Byte) /\ Len(a) + Len(b) + Len(c) + Len(d) = Len(w)
    /\ \A i \in 1 .. Len(a) : a[i] = w[i]
    /\ \A i \in 1 .. Len(b) : b[i] = w[Len(a) + i]
    /\ \A i \in 1 .. Len(c) : c[i] = w[Len(a) + Len(b) + i]
    /\ \A i \in 1 .. Len(d) : d[i] = w[Len(a) + Len(b) + Len(c) + i]

LEMMA Joined ==
    ASSUME NEW w, NEW a, NEW b, NEW c, NEW d, MadeOf(w, a, b, c, d)
    PROVE  a \o b \o c \o d = w
<1> USE DEF MadeOf
<1> DEFINE x == a \o b \o c \o d
<1>1. x \in Seq(Byte) /\ Len(x) = Len(w)
  OBVIOUS
<1>2. ASSUME NEW i \in 1 .. Len(x) PROVE x[i] = w[i]
  <2>1. CASE i <= Len(a)
    BY <2>1
  <2>2. CASE i > Len(a) /\ i <= Len(a) + Len(b)
    <3>1. x[i] = b[i - Len(a)] /\ i - Len(a) \in 1 .. Len(b) /\ Len(a) + (i - Len(a)) = i
      BY <2>2
    <3> QED BY <3>1
  <2>3. CASE i > Len(a) + Len(b) /\ i <= Len(a) + Len(b) + Len(c)
    <3> DEFINE j == i - (Len(a) + Len(b))
    <3>1. x[i] = c[j] /\ j \in 1 .. Len(c) /\ Len(a) + Len(b) + j = i
      BY <2>3
    <3> QED BY <3>1
  <2>4. CASE i > Len(a) + Len(b) + Len(c)
    <3> DEFINE j == i - (Len(a) + Len(b) + Len(c))
    <3>1. x[i] = d[j] /\ j \in 1 .. Len(d) /\ Len(a) + Len(b) + Len(c) + j = i
      BY <1>1, <2>4
    <3> QED BY <3>1
  <2> QED BY <2>1, <2>2, <2>3, <2>4
<1> HIDE DEF x
<1>3. x = w
  BY <1>1, <1>2, SeqEqual
<1> QED BY <1>3 DEF x

(* The packets delivered are the first ones sent.                          *)
LEMMA DeliveredFirst ==
    ASSUME DataTypes, InStep, Clean
    PROVE  delivered = SubSeq(stream, 1, Done)
<1> DEFINE S == [type : PacketTypes \cup Byte, bytes : Seq(Byte)]
           s == SubSeq(stream, 1, Done)
<1>1. stream \in Seq(Sendable) /\ Done \in 0 .. Len(stream) /\ Len(delivered) = Done
  BY StreamsAre, PlaceIs DEF DataTypes, Done
<1>2. s \in Seq(Sendable) /\ Len(s) = Done /\ \A i \in 1 .. Done : s[i] = stream[i]
  BY <1>1, Cut
<1>3. \A i \in 1 .. Done : delivered[i] = s[i]
  BY <1>2 DEF InStep, InOrder
<1>4. delivered \in Seq(S) /\ s \in Seq(S)
  <2>1. [type : PacketTypes, bytes : Seq(Byte)] \subseteq S /\ Sendable \subseteq S
    BY DEF Sendable
  <2>2. delivered \in Seq([type : PacketTypes, bytes : Seq(Byte)])
    BY DEF DataTypes
  <2> DEFINE P == [type : PacketTypes, bytes : Seq(Byte)]
  <2>3. P \subseteq S /\ delivered \in Seq(P)
    BY <2>1, <2>2
  <2> HIDE DEF S, P
  <2>4. delivered \in Seq(S)
    BY <2>3
  <2>5. s \in Seq(S)
    BY <1>2, <2>1
  <2> QED BY <2>4, <2>5
<1> HIDE DEF S, s
<1>5. delivered = s
  BY <1>1, <1>2, <1>3, <1>4, SeqEqual
<1> QED BY <1>5 DEF s

LEMMA OneThen ==
    ASSUME NEW D, NEW t \in Seq(D), Len(t) = 1, NEW r \in Seq(D)
    PROVE  /\ t \o r \in Seq(D) /\ Len(t \o r) = 1 + Len(r) /\ (t \o r)[1] = t[1]
           /\ \A i \in 1 .. Len(r) : (t \o r)[1 + i] = r[i]
<1> DEFINE x == t \o r
<1>1. /\ x \in Seq(D) /\ Len(x) = Len(t) + Len(r)
      /\ \A i \in 1 .. Len(t) + Len(r) : x[i] = IF i <= Len(t) THEN t[i] ELSE r[i - Len(t)]
  BY ConcatProperties
<1>2. Len(r) \in Nat
  OBVIOUS
<1> HIDE DEF x
<1>3. x[1] = t[1]
  BY <1>1, <1>2
<1>4. ASSUME NEW i \in 1 .. Len(r) PROVE x[1 + i] = r[i]
  <2>1. 1 + i \in 1 .. Len(t) + Len(r) /\ ~(1 + i <= Len(t)) /\ (1 + i) - Len(t) = i
    BY <1>2
  <2> QED BY <1>1, <2>1
<1> QED BY <1>1, <1>3, <1>4 DEF x

LEMMA PartialIs ==
    ASSUME DataTypes, InStep, Clean
    PROVE  /\ Partial \in Seq(Byte)
           /\ Offset(stream, Done) + Len(Partial) = Place
           /\ \A i \in 1 .. Len(Partial) : Partial[i] = Sent[Offset(stream, Done) + i]
<1>1. CASE context.segment = "type"
  <2>1. Partial = <<>> /\ Place = Offset(stream, Done)
    BY <1>1 DEF Partial, InStep, InProgress
  <2> QED BY <2>1, PlaceIs
<1>2. CASE context.segment # "type"
  <2> DEFINE r == SubSeq(context.raw, 1, Held)
             t == <<context.type>>
  <2>1. Partial = t \o r
    BY <1>2 DEF Partial, Held
  <2>2. /\ Held \in Nat /\ Held <= Len(Current.bytes) /\ Len(Current.bytes) <= RawSize
        /\ Len(Current.bytes) \in Nat
        /\ Done \in 0 .. Len(stream) - 1 /\ Current \in Sendable /\ Current.type = context.type
        /\ Place = Offset(stream, Done) + 1 + Held
        /\ \A i \in 1 .. Held : context.raw[i] = Current.bytes[i]
    BY <1>2, CurrentIs
  <2>3. r \in Seq(Byte) /\ Len(r) = Held /\ \A i \in 1 .. Held : r[i] = context.raw[i]
    <3>1. context.raw \in Seq(Byte) /\ Len(context.raw) = RawSize
      BY ContextIs, RawIs DEF DataTypes
    <3>2. Held \in 0 .. Len(context.raw)
      BY <2>2, <3>1, Sizes
    <3> QED BY <3>1, <3>2, Cut
  <2>4. t \in Seq(Byte) /\ Len(t) = 1 /\ t[1] = context.type
    <3>1. context.type \in Byte
      BY <2>2 DEF Sendable
    <3> QED BY <3>1
  <2>5. /\ Sent[Offset(stream, Done) + 1] = Current.type
        /\ \A i \in 1 .. Len(Current.bytes) :
               Sent[Offset(stream, Done) + 1 + i] = Current.bytes[i]
    <3>1. stream \in Seq(Sendable)
      BY StreamsAre DEF DataTypes
    <3> QED BY <2>2, <3>1, PacketPlace DEF Sent, Current
  <2> HIDE DEF r, t
  <2>6. /\ Partial \in Seq(Byte) /\ Len(Partial) = 1 + Held /\ Partial[1] = context.type
        /\ \A i \in 1 .. Held : Partial[1 + i] = r[i]
    <3> DEFINE x == t \o r
    <3>1. /\ x \in Seq(Byte) /\ Len(x) = 1 + Len(r) /\ x[1] = t[1]
          /\ \A i \in 1 .. Len(r) : x[1 + i] = r[i]
      BY <2>3, <2>4, OneThen
    <3>2. Partial = x
      BY <2>1
    <3> HIDE DEF x
    <3> QED BY <2>3, <2>4, <3>1, <3>2
  <2>7. ASSUME NEW i \in 1 .. Len(Partial) PROVE Partial[i] = Sent[Offset(stream, Done) + i]
    <3>1. CASE i = 1
      BY <2>2, <2>5, <2>6, <3>1
    <3>2. CASE i # 1
      <4> DEFINE j == i - 1
      <4>1. /\ j \in 1 .. Held /\ j \in 1 .. Len(Current.bytes) /\ 1 + j = i
            /\ Offset(stream, Done) + 1 + j = Offset(stream, Done) + i
        <5>1. i \in 1 .. 1 + Held
          BY <2>6
        <5>2. j \in 1 .. Held /\ 1 + j = i /\ j \in 1 .. Len(Current.bytes)
          BY <2>2, <3>2, <5>1
        <5>3. Offset(stream, Done) \in Nat
          BY PlaceIs
        <5> QED BY <5>2, <5>3
      <4> HIDE DEF j
      <4>2. Partial[1 + j] = Current.bytes[j]
        BY <2>2, <2>3, <2>6, <4>1
      <4> QED BY <2>5, <4>1, <4>2
    <3> QED BY <3>1, <3>2
  <2>8. Offset(stream, Done) + Len(Partial) = Place
    <3>1. \A o, h \in Nat : o + (1 + h) = o + 1 + h
      OBVIOUS
    <3> QED BY <2>2, <2>6, <3>1, PlaceIs
  <2> QED BY <2>6, <2>7, <2>8
<1> QED BY <1>1, <1>2

(* In whatever lengths the UART returns the bytes of a stream without      *)
(* noise, none is lost, duplicated or moved: the packets delivered, what   *)
(* Raw holds of the packet in progress, the buffer of the completion       *)
(* routine and the wire make up what the controller sent.                  *)
THEOREM NoByteIsLost == Spec => []NoByteLost
<1>1. DataTypes /\ InStep => NoByteLost
  <2> SUFFICES ASSUME DataTypes, InStep, Clean
               PROVE  Encode(delivered) \o Partial \o buffer \o wire = Encode(stream)
    BY DEF NoByteLost
  <2> DEFINE u == Encode(delivered)
  <2>1. /\ stream \in Seq(Sendable) /\ Done \in 0 .. Len(stream)
        /\ buffer \in Seq(Byte) /\ wire \in Seq(Byte) /\ Sent \in Seq(Byte)
    BY StreamsAre, PlaceIs DEF DataTypes
  <2>2. u = FirstBytes(stream, Done)
    BY DeliveredFirst DEF FirstBytes
  <2>3. /\ u \in Seq(Byte) /\ Len(u) = Offset(stream, Done)
        /\ \A i \in 1 .. Len(u) : u[i] = Sent[i]
    <3>1. FirstBytes(stream, Done) \in Seq(Byte)
      BY <2>1, BytesGrow
    <3>2. \A i \in 1 .. Offset(stream, Done) : Encode(stream)[i] = FirstBytes(stream, Done)[i]
      BY <2>1, FirstBytesFirst
    <3> QED BY <2>2, <3>1, <3>2 DEF Offset, Sent
  <2>4. /\ Partial \in Seq(Byte) /\ Len(u) + Len(Partial) = Place
        /\ \A i \in 1 .. Len(Partial) : Partial[i] = Sent[Len(u) + i]
    BY <2>3, PartialIs
  <2>5. /\ \A i \in 1 .. Len(buffer) : buffer[i] = Sent[Len(u) + Len(Partial) + i]
        /\ \A i \in 1 .. Len(wire) : wire[i] = Sent[Len(u) + Len(Partial) + Len(buffer) + i]
    BY <2>4 DEF InStep, OnItsWay
  <2>6. Len(u) + Len(Partial) + Len(buffer) + Len(wire) = Len(Sent)
    BY <2>4, PlaceIs
  <2> HIDE DEF u
  <2>7. MadeOf(Sent, u, Partial, buffer, wire)
    BY <2>1, <2>3, <2>4, <2>5, <2>6 DEF MadeOf
  <2>8. u \o Partial \o buffer \o wire = Sent
    BY <2>7, Joined
  <2> QED BY <2>8 DEF u, Sent
<1> QED BY <1>1, Invariant, PTL DEF IInv

(* The packets given to ReadRequestComplete are the first ones of such a   *)
(* stream, unchanged and in the order in which they were sent.             *)
THEOREM DeliversInOrder == Spec => [](Clean => delivered = SubSeq(stream, 1, Len(delivered)))
<1>1. DataTypes /\ InStep => (Clean => delivered = SubSeq(stream, 1, Len(delivered)))
  BY DeliveredFirst DEF Done
<1> QED BY <1>1, Invariant, PTL DEF IInv

(* As long as the controller sends no noise, the reassembly never takes a  *)
(* byte of a packet for a type, nor a length for one that no packet has.   *)
THEOREM StaysInSync == Spec => [][Clean => ~OutOfSync]_vars
<1>1. IInv /\ [Next]_vars => [Clean => ~OutOfSync]_vars
  BY SyncIsKept DEF IInv
<1> QED BY <1>1, Invariant, PTL DEF Spec

(* Whatever the controller sends, noise included, no RtlCopyMemory of a    *)
(* payload goes past the end of Raw.                                       *)
THEOREM CopiesFit ==
    Spec => [][/\ GetPayload => Held + Len(buffer) <= RawSize
               /\ EndPayload => Held + Missing <= RawSize]_vars
<1> DEFINE A == /\ GetPayload => Held + Len(buffer) <= RawSize
                /\ EndPayload => Held + Missing <= RawSize
<1>1. IInv /\ [Next]_vars => [A]_vars
  <2> SUFFICES ASSUME DataTypes PROVE A
    BY DEF IInv
  <2>1. ASSUME Reassembling("payload"), InSync, NEW n \in Nat,
               n <= PayloadSize(context) - context.read
        PROVE  Held + n <= RawSize
    <3>1. /\ context.segment = "payload" /\ context.read \in Nat /\ PayloadSize(context) \in Nat
          /\ HeaderSize(context.type) \in 2 .. 4
          /\ HeaderSize(context.type) + PayloadSize(context) <= RawSize
      BY <2>1, PayloadFits
    <3>2. Held = HeaderSize(context.type) + context.read
      BY <3>1 DEF Held
    <3> QED BY <2>1, <3>1, <3>2, Sizes
  <2>2. ASSUME GetPayload PROVE Held + Len(buffer) <= RawSize
    <3>1. /\ Reassembling("payload") /\ InSync /\ buffer \in Seq(Byte)
          /\ Len(buffer) < PayloadSize(context) - context.read
      BY <2>2, GetPayloadIs DEF DataTypes
    <3>2. context.read \in Nat /\ PayloadSize(context) \in Nat /\ Len(buffer) \in Nat
      BY <3>1, PayloadFits
    <3>3. Len(buffer) <= PayloadSize(context) - context.read
      BY <3>1, <3>2
    <3> QED BY <2>1, <3>1, <3>2, <3>3
  <2>3. ASSUME EndPayload PROVE Held + Missing <= RawSize
    <3>1. /\ Reassembling("payload") /\ InSync /\ Missing \in 0 .. Len(buffer)
          /\ Missing = PayloadSize(context) - context.read
      BY <2>3, EndPayloadIs
    <3>2. Missing \in Nat /\ Missing <= PayloadSize(context) - context.read
      BY <3>1, PayloadFits
    <3> QED BY <2>1, <3>1, <3>2
  <2> QED BY <2>2, <2>3
<1> QED BY <1>1, Invariant, PTL DEF Spec
=============================================================================
