------------------------------- MODULE HciPump -------------------------------
(***************************************************************************)
(* The read pump: bluetooth/serialhcibus, io.c ReadH4Packet, its           *)
(* completion routine and ReadH4PacketReassemble.  One read is with the    *)
(* UART at a time; what it returns is cut into H4 packets, whatever the    *)
(* lengths in which the bytes come, and the next read asks for what the    *)
(* packet in progress still lacks.                                         *)
(*                                                                         *)
(* A completion that comes before ReadH4Packet has compared RequestState   *)
(* is taken for one made inside WdfRequestSend, which has run to its end   *)
(* when WdfRequestSend returns.  The stop and restart of the pump at power *)
(* transitions are not part of the module.                                 *)
(***************************************************************************)
EXTENDS Integers, Sequences, SequencesExt, FiniteSets

CONSTANTS Streams,         \* the sequences of packets the controller may send
          MaxAclPayload,   \* HCI_MAX_ACL_PAYLOAD_SIZE
          MaxParams        \* the largest ParamsCount of an event, and the largest byte

EventType == 4     \* HciPacketEvent
AclType == 2       \* HciPacketAclData

HeaderSize(type) == IF type = EventType THEN 2 ELSE 4
INITIAL_H4_READ_SIZE == 1 + HeaderSize(EventType)
LargestSize == 255 + 256 * 255           \* of a payload, by its header
RawSize == 4 + MaxAclPayload             \* H4Packet.Packet.Raw
ReadBufferSize == 1 + RawSize            \* FDO_EXTENSION.ReadBuffer

ASSUME SizesAssumption ==
    /\ MaxAclPayload \in Nat /\ MaxParams \in 0 .. 255
    /\ 2 + MaxParams <= RawSize

\* A packet is its type and its bytes after the type.  The payload bytes 2, 3,
\* 4 ... look like types, too.
Payload(n) == [i \in 1 .. n |-> i + 1]
Event(n) == [type |-> EventType, bytes |-> <<1, n>> \o Payload(n)]
Acl(n) == [type |-> AclType, bytes |-> <<1, 0, n % 256, n \div 256>> \o Payload(n)]
Noise == [type |-> 7, bytes |-> <<>>]

Encode(packets) ==
    FlattenSeq([i \in DOMAIN packets |-> <<packets[i].type>> \o packets[i].bytes])

\* The controller may send any bytes; what is as long as it says is a packet,
\* anything else is noise.
Byte == 0 .. MaxParams
Sendable == [type : Byte, bytes : Seq(Byte)]

IsEvent(p) ==
    /\ p.type = EventType /\ Len(p.bytes) >= 2
    /\ Len(p.bytes) = 2 + p.bytes[2]

IsAcl(p) ==
    /\ p.type = AclType /\ Len(p.bytes) >= 4
    /\ Len(p.bytes) = 4 + p.bytes[3] + 256 * p.bytes[4] /\ Len(p.bytes) <= RawSize

ASSUME StreamsAssumption == Streams \subseteq Seq(Sendable)

VARIABLES
    stream,    \* the packets the controller sends
    wire,      \* their bytes that no read has returned yet
    sender,    \* ReadH4Packet: "send", "compare", "waiting" (returned), "stopped"
    length,    \* _BufferLen of its loop
    uart,      \* the read request is with the UART
    state,     \* RequestState
    status,    \* Status of the last read: NT_SUCCESS of it
    completer, \* the completion routine runs, and what it read in RequestState
    buffer,    \* the bytes it has not reassembled yet
    context,   \* the reassembly's part of UART_READ_CONTEXT
    delivered, \* the packets given to ReadRequestComplete
    hardwareError  \* HardwareErrorDetected, which nothing in the driver sets

vars == <<stream, wire, sender, length, uart, state, status, completer, buffer,
          context, delivered, hardwareError>>

Context == [segment : {"type", "header", "payload"},   \* ReadSegmentState
            read : Nat,                                \* BytesReadNextSegment
            lacks : Nat,                               \* BytesToRead4FullPacket
            type : {0, EventType, AclType},            \* H4Packet.Type
            raw : [1 .. RawSize -> Nat]]               \* H4Packet.Packet.Raw

\* The types of the variables.
TypeOK ==
    /\ stream \in Streams
    /\ wire \in Seq(Nat) /\ buffer \in Seq(Nat)
    /\ sender \in {"send", "compare", "waiting", "stopped"}
    /\ length \in 1 .. LargestSize
    /\ uart \in BOOLEAN /\ status \in BOOLEAN
    /\ state \in {"sent", "pending", "complete"}
    /\ completer \in {"idle", "sent", "pending"}
    /\ context \in Context
    /\ delivered \in Seq([type : {EventType, AclType}, bytes : Seq(Nat)])
    /\ hardwareError \in BOOLEAN

Cleared == [i \in 1 .. RawSize |-> 0]

\* FdoDevSelfManagedIoInit has allocated the resources and starts the pump.
Init ==
    /\ stream \in Streams /\ wire = Encode(stream)
    /\ sender = "send" /\ length = INITIAL_H4_READ_SIZE
    /\ uart = FALSE /\ state = "complete" /\ status = TRUE
    /\ completer = "idle" /\ buffer = <<>>
    /\ context = [segment |-> "type", read |-> 0, lacks |-> 0, type |-> 0, raw |-> Cleared]
    /\ delivered = <<>>
    /\ hardwareError = FALSE

-----------------------------------------------------------------------------
(* ReadH4Packet. *)

Send ==
    /\ sender = "send" /\ sender' = "compare"
    /\ uart' = TRUE /\ state' = "sent"
    /\ UNCHANGED <<stream, wire, length, status, completer, buffer, context, delivered,
                   hardwareError>>

SendFails ==
    /\ sender = "send" /\ sender' = "stopped"
    /\ state' = "sent"
    /\ UNCHANGED <<stream, wire, length, uart, status, completer, buffer, context, delivered,
                   hardwareError>>

\* The read is pending: its completion will issue the next one.
ComparePending ==
    /\ sender = "compare" /\ state = "sent"
    /\ sender' = "waiting" /\ state' = "pending"
    /\ UNCHANGED <<stream, wire, length, uart, status, completer, buffer, context, delivered,
                   hardwareError>>

\* The read has completed already: the loop issues the next one, of the same
\* length, unless it failed.
CompareComplete ==
    /\ sender = "compare" /\ state = "complete" /\ completer = "idle"
    /\ sender' = IF status THEN "send" ELSE "stopped"
    /\ UNCHANGED <<stream, wire, length, uart, state, status, completer, buffer, context,
                   delivered, hardwareError>>

-----------------------------------------------------------------------------
(* The UART and the completion routine. *)

\* RequestState becomes complete unless the sender has seen the read pending.
Completes ==
    /\ uart /\ completer = "idle"
    /\ uart' = FALSE
    /\ state' = IF state = "sent" THEN "complete" ELSE state

\* A read returns full, or with less when the interval between bytes times out:
\* STATUS_TIMEOUT is a success to NT_SUCCESS, STATUS_IO_TIMEOUT is none.  The
\* completion routine goes on after both, the loop of the sender after the first.
ReadReturns ==
    \E n \in 1 .. length :
        /\ n <= Len(wire)
        /\ Completes
        /\ buffer' = SubSeq(wire, 1, n) /\ wire' = SubSeq(wire, n + 1, Len(wire))
        /\ status' \in BOOLEAN /\ (n = length => status')
        /\ completer' = state
        /\ UNCHANGED <<stream, sender, length, context, delivered,
                   hardwareError>>

ReadTimesOut ==
    /\ Completes
    /\ status' \in BOOLEAN /\ completer' = state
    /\ UNCHANGED <<stream, wire, sender, length, buffer, context, delivered,
                   hardwareError>>

\* Any other status ends the pump, here or in the loop of ReadH4Packet.
ReadFails ==
    /\ Completes
    /\ status' = FALSE
    /\ sender' = IF state = "pending" THEN "stopped" ELSE sender
    /\ UNCHANGED <<stream, wire, length, completer, buffer, context, delivered,
                   hardwareError>>

\* The buffer is used up: a completion that was pending issues the next read.
NextLength ==
    IF context.segment = "type" THEN INITIAL_H4_READ_SIZE
    ELSE IF context.lacks # 0 THEN context.lacks ELSE ReadBufferSize

\* A faulty variant: the pump does not go on.
ReadNextNever ==
    /\ completer # "idle" /\ buffer = <<>>
    /\ completer' = "idle"
    /\ UNCHANGED <<stream, wire, sender, length, uart, state, status, buffer, context, delivered,
                   hardwareError>>

ReadNext ==
    /\ completer # "idle" /\ buffer = <<>>
    /\ completer' = "idle"
    /\ IF completer = "pending"
       THEN sender' = "send" /\ length' = NextLength
       ELSE UNCHANGED <<sender, length>>
    /\ UNCHANGED <<stream, wire, uart, state, status, buffer, context, delivered,
                   hardwareError>>

-----------------------------------------------------------------------------
(* ReadH4PacketReassemble: one pass of its loop, a header byte at a time. *)

\* ReadSegmentStateSet.
Enter(c, segment) ==
    IF segment = "type"
    THEN [c EXCEPT !.segment = "type", !.read = 0, !.lacks = 0, !.type = 0,
                   !.raw = [i \in 1 .. RawSize |-> IF i <= 4 THEN 0 ELSE c.raw[i]]]
    ELSE [c EXCEPT !.segment = segment, !.read = 0]

Reassembling(segment) ==
    /\ completer # "idle" /\ buffer # <<>> /\ context.segment = segment
    /\ UNCHANGED <<stream, wire, sender, length, uart, state, status, completer, hardwareError>>

\* RtlCopyMemory into Raw, from position at on.
Copy(raw, at, bytes) ==
    [i \in 1 .. RawSize |-> IF i - at + 1 \in DOMAIN bytes THEN bytes[i - at + 1] ELSE raw[i]]

PayloadSize(c) == IF c.type = EventType THEN c.raw[2] ELSE c.raw[3] + 256 * c.raw[4]

Packet(c) ==
    [type |-> c.type, bytes |-> SubSeq(c.raw, 1, HeaderSize(c.type) + PayloadSize(c))]

\* A faulty variant: whatever is no event is taken for ACL data.
GetTypeUnchecked ==
    /\ Reassembling("type")
    /\ buffer' = Tail(buffer)
    /\ context' = [Enter(context, "header") EXCEPT !.type = Head(buffer),
                                                   !.lacks = HeaderSize(Head(buffer))]
    /\ UNCHANGED delivered

GetType ==
    /\ Reassembling("type")
    /\ Head(buffer) \in {EventType, AclType}
    /\ buffer' = Tail(buffer)
    /\ context' = [Enter(context, "header") EXCEPT !.type = Head(buffer),
                                                   !.lacks = HeaderSize(Head(buffer))]
    /\ UNCHANGED delivered

\* An unknown type, or a length that no packet has: what is left of the buffer
\* is dropped and the next byte is taken for a type.  With a known hardware error
\* the completion routine returns and issues no read: OutOfSyncErrorCount is above
\* MAX_HARDWARE_ERROR_COUNT, which is 0.  After a completion inside WdfRequestSend
\* the loop of ReadH4Packet reads on all the same.
OutOfSync ==
    /\ completer # "idle" /\ buffer # <<>>
    /\ \/ context.segment = "type" /\ Head(buffer) \notin {EventType, AclType}
       \/ /\ context.segment = "payload"
          /\ context.type = AclType /\ PayloadSize(context) > MaxAclPayload
    /\ buffer' = <<>>
    /\ context' = Enter(context, "type")
    /\ UNCHANGED <<stream, wire, length, uart, state, status, delivered>>
    /\ IF hardwareError
       THEN /\ completer' = "idle" /\ UNCHANGED hardwareError
            /\ sender' = IF completer = "pending" THEN "stopped" ELSE sender
       ELSE hardwareError' = FALSE /\ UNCHANGED <<sender, completer>>

WithHeaderByte ==
    [context EXCEPT !.raw[context.read + 1] = Head(buffer),
                    !.read = @ + 1,
                    !.lacks = HeaderSize(context.type) - (context.read + 1)]

GetHeader ==
    /\ Reassembling("header")
    /\ context.read + 1 < HeaderSize(context.type)
    /\ buffer' = Tail(buffer)
    /\ context' = WithHeaderByte
    /\ UNCHANGED delivered

\* A faulty variant: an event without parameters is left to the next segment.
EndHeaderWaits ==
    /\ Reassembling("header")
    /\ context.read + 1 = HeaderSize(context.type)
    /\ buffer' = Tail(buffer)
    /\ LET c == [WithHeaderByte EXCEPT !.lacks = context.lacks]
           missing == PayloadSize(c) - Len(buffer')
       IN context' = [Enter(c, "payload") EXCEPT !.lacks = IF missing > 0 THEN missing ELSE @]
    /\ UNCHANGED delivered

\* The last byte of the header leaves BytesToRead4FullPacket as it was when the
\* buffer holds the whole payload; only an event can be complete at once.
EndHeader ==
    /\ Reassembling("header")
    /\ context.read + 1 = HeaderSize(context.type)
    /\ buffer' = Tail(buffer)
    /\ LET c == [WithHeaderByte EXCEPT !.lacks = context.lacks]
           missing == PayloadSize(c) - Len(buffer')
       IN IF c.type = EventType /\ PayloadSize(c) = 0
          THEN /\ delivered' = Append(delivered, Packet(c))
               /\ context' = Enter(c, "type")
          ELSE /\ context' = [Enter(c, "payload") EXCEPT
                                !.lacks = IF missing > 0 THEN missing ELSE @]
               /\ UNCHANGED delivered

Missing == PayloadSize(context) - context.read
PayloadTo(n) == Copy(context.raw, HeaderSize(context.type) + context.read + 1, SubSeq(buffer, 1, n))
InSync == context.type = AclType => PayloadSize(context) <= MaxAclPayload

\* A faulty variant: the end of a packet takes the rest of the buffer with it.
EndPayloadGreedy ==
    /\ Reassembling("payload") /\ InSync
    /\ Len(buffer) >= Missing
    /\ buffer' = <<>>
    /\ delivered' = Append(delivered, Packet([context EXCEPT !.raw = PayloadTo(Missing)]))
    /\ context' = Enter([context EXCEPT !.raw = PayloadTo(Missing)], "type")

EndPayload ==
    /\ Reassembling("payload") /\ InSync
    /\ Len(buffer) >= Missing
    /\ buffer' = SubSeq(buffer, Missing + 1, Len(buffer))
    /\ delivered' = Append(delivered, Packet([context EXCEPT !.raw = PayloadTo(Missing)]))
    /\ context' = Enter([context EXCEPT !.raw = PayloadTo(Missing)], "type")

GetPayload ==
    /\ Reassembling("payload") /\ InSync
    /\ Len(buffer) < Missing
    /\ buffer' = <<>>
    /\ context' = [context EXCEPT !.raw = PayloadTo(Len(buffer)),
                                  !.read = @ + Len(buffer),
                                  !.lacks = Missing - Len(buffer)]
    /\ UNCHANGED delivered

-----------------------------------------------------------------------------
Reassemble == GetType \/ OutOfSync \/ GetHeader \/ EndHeader \/ GetPayload \/ EndPayload
Run == Send \/ ComparePending \/ CompareComplete \/ ReadNext \/ Reassemble

Next == Run \/ SendFails \/ ReadReturns \/ ReadTimesOut \/ ReadFails

Spec == Init /\ [][Next]_vars

\* Routines that have started go on, and a UART that has bytes returns them
\* some time, however often it times out before.
FairSpec == Spec /\ WF_vars(Run) /\ SF_vars(ReadReturns)

-----------------------------------------------------------------------------
(* Properties. *)

Clean == \A i \in DOMAIN stream : IsEvent(stream[i]) \/ IsAcl(stream[i])

\* The part of a packet that has been read.
Partial ==
    IF context.segment = "type" THEN <<>>
    ELSE <<context.type>> \o SubSeq(context.raw, 1,
             context.read + (IF context.segment = "payload" THEN HeaderSize(context.type) ELSE 0))

\* Whatever the lengths in which the bytes of a clean stream come, none is lost,
\* duplicated or put in the wrong place: the packets delivered, the packet in
\* progress, the buffer and the wire make up what the controller sent.
NoByteLost == Clean => Encode(delivered) \o Partial \o buffer \o wire = Encode(stream)

\* The pump always comes to read again, in sync or not, whatever the order of the
\* completion and the sender's look at RequestState, unless a read or a send fails
\* or the stream is out of sync after a known hardware error, which nothing in the
\* driver records (HardwareErrorDetected is only ever cleared).
PumpGoesOn == []<>(uart \/ sender = "stopped")

\* A packet sent is delivered, unless the pump stops.
StreamIsDelivered == Clean => <>(delivered = stream \/ sender = "stopped")

=============================================================================
