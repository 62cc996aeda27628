------------------------------- MODULE HciRead -------------------------------
(***************************************************************************)
(* Matching HCI packets with the reads of bthport:                         *)
(* bluetooth/serialhcibus, io.c ReadRequestComplete and its two callers,   *)
(* the read pump (a packet has been reassembled) and FdoIoQuDeviceControl  *)
(* in Fdo.c (IOCTL_BTHX_READ_HCI).                                         *)
(*                                                                         *)
(* There is one such queue of requests and list of packets for events and  *)
(* one for ACL data; they share QueueAccessLock and nothing else, so the   *)
(* module has one of each.  A section under the lock is one step.  The     *)
(* IOCTL takes the lock twice, once to queue its request and once to look  *)
(* for a packet, and a request is completed outside the lock.              *)
(***************************************************************************)
EXTENDS Naturals, Sequences, SequencesExt, FiniteSets

CONSTANTS Requests,     \* the reads bthport issues
          Small,        \* those whose buffer is too small for a packet
          NumPackets    \* the pump reassembles packets 1 .. NumPackets, in order

Pump == "pump"   \* the thread of the read pump, beside the IOCTLs

ASSUME RequestsAssumption ==
    IsFiniteSet(Requests) /\ Small \subseteq Requests /\ Pump \notin Requests
ASSUME PacketsAssumption == NumPackets \in Nat

VARIABLES
    ioctl,        \* [Requests -> where FdoIoQuDeviceControl is with it]
    queue,        \* ReadEventQueue: the requests, oldest first
    list,         \* ReadEventList: the packets, oldest first
    arrived,      \* the packets reassembled so far
    pump,         \* what the pump does with the last one: "idle" or "deliver"
    match,        \* the matches made and not yet completed, by the thread
    delivered,    \* the packets bthport has got, in the order it got them
    lost,         \* the packets that no bthport read will return
    completions   \* [Requests -> how often it was completed]

vars == <<ioctl, queue, list, arrived, pump, match, delivered, lost, completions>>

Match == [request : Requests, packet : 1 .. NumPackets]

\* The types of the variables.
TypeOK ==
    /\ ioctl \in [Requests -> {"idle", "forwarded", "deliver", "fail", "done"}]
    /\ queue \in Seq(Requests) /\ list \in Seq(1 .. NumPackets)
    /\ arrived \in 0 .. NumPackets
    /\ pump \in {"idle", "deliver"}
    /\ match \in [Requests \cup {Pump} -> Match \cup {<<>>}]
    /\ delivered \in Seq(1 .. NumPackets) /\ lost \in SUBSET (1 .. NumPackets)
    /\ completions \in [Requests -> Nat]

Init ==
    /\ ioctl = [r \in Requests |-> "idle"]
    /\ queue = <<>> /\ list = <<>>
    /\ arrived = 0 /\ pump = "idle"
    /\ match = [t \in Requests \cup {Pump} |-> <<>>]
    /\ delivered = <<>> /\ lost = {}
    /\ completions = [r \in Requests |-> 0]

Goto(r, from, to) == ioctl[r] = from /\ ioctl' = [ioctl EXCEPT ![r] = to]

\* A thread takes the oldest request for a packet.
Pair(t, p) ==
    /\ match' = [match EXCEPT ![t] = [request |-> Head(queue), packet |-> p]]
    /\ queue' = Tail(queue)

-----------------------------------------------------------------------------
(* The IOCTL. *)

Forward(r) ==
    /\ Goto(r, "idle", "forwarded")
    /\ queue' = Append(queue, r)
    /\ UNCHANGED <<list, arrived, pump, match, delivered, lost, completions>>

\* A queue that does not accept requests: the IOCTL completes its request.
ForwardFails(r) ==
    /\ Goto(r, "idle", "fail")
    /\ UNCHANGED <<queue, list, arrived, pump, match, delivered, lost, completions>>

\* Faulty variants: the packet stays on the list, or is not looked for.
MatchKeepsPacket(r) ==
    /\ list # <<>> /\ queue # <<>>
    /\ Goto(r, "forwarded", "deliver")
    /\ Pair(r, Head(list))
    /\ UNCHANGED <<list, arrived, pump, delivered, lost, completions>>

MatchSkipped(r) ==
    /\ list # <<>> /\ queue # <<>>
    /\ Goto(r, "forwarded", "done")
    /\ UNCHANGED <<queue, list, arrived, pump, match, delivered, lost, completions>>

\* ReadRequestComplete without a packet; the request it takes may be another's.
MatchRequest(r) ==
    /\ list # <<>> /\ queue # <<>>
    /\ Goto(r, "forwarded", "deliver")
    /\ Pair(r, Head(list))
    /\ list' = Tail(list)
    /\ UNCHANGED <<arrived, pump, delivered, lost, completions>>

\* No request in the queue, its own included: the failure goes back to the
\* IOCTL, which completes its request.
NoRequest(r) ==
    /\ list # <<>> /\ queue = <<>>
    /\ Goto(r, "forwarded", "fail")
    /\ UNCHANGED <<queue, list, arrived, pump, match, delivered, lost, completions>>

StaysQueued(r) ==
    /\ list = <<>>
    /\ Goto(r, "forwarded", "done")
    /\ UNCHANGED <<queue, list, arrived, pump, match, delivered, lost, completions>>

\* Completing a matched request: one that is too small is completed with an
\* error and its packet freed all the same.
Complete(m) ==
    /\ completions' = [completions EXCEPT ![m.request] = @ + 1]
    /\ IF m.request \in Small
       THEN lost' = lost \cup {m.packet} /\ UNCHANGED delivered
       ELSE delivered' = Append(delivered, m.packet) /\ UNCHANGED lost

\* A status that is an error goes back to the IOCTL here too.
Deliver(r) ==
    /\ Goto(r, "deliver", IF match[r].request \in Small THEN "fail" ELSE "done")
    /\ Complete(match[r])
    /\ match' = [match EXCEPT ![r] = <<>>]
    /\ UNCHANGED <<queue, list, arrived, pump>>

CompleteFailed(r) ==
    /\ Goto(r, "fail", "done")
    /\ completions' = [completions EXCEPT ![r] = @ + 1]
    /\ UNCHANGED <<queue, list, arrived, pump, match, delivered, lost>>

\* The framework completes a queued request that bthport cancels; the driver
\* has no callback for it.
CancelQueued(i) ==
    /\ queue' = RemoveAt(queue, i)
    /\ completions' = [completions EXCEPT ![queue[i]] = @ + 1]
    /\ UNCHANGED <<ioctl, list, arrived, pump, match, delivered, lost>>

-----------------------------------------------------------------------------
(* The pump. *)

\* A packet that finds a request is matched with it, whatever the list holds.
PacketFindsRequest ==
    /\ pump = "idle" /\ arrived < NumPackets /\ queue # <<>>
    /\ arrived' = arrived + 1
    /\ Pair(Pump, arrived + 1)
    /\ pump' = "deliver"
    /\ UNCHANGED <<ioctl, list, delivered, lost, completions>>

\* Faulty variants: the packet is put on the list without a look at the queue,
\* or before the others (InsertHeadList).
PacketWaitsBlindly ==
    /\ pump = "idle" /\ arrived < NumPackets
    /\ arrived' = arrived + 1
    /\ list' = Append(list, arrived + 1)
    /\ UNCHANGED <<ioctl, queue, pump, match, delivered, lost, completions>>

PacketWaitsFirst ==
    /\ pump = "idle" /\ arrived < NumPackets /\ queue = <<>>
    /\ arrived' = arrived + 1
    /\ list' = <<arrived + 1>> \o list
    /\ UNCHANGED <<ioctl, queue, pump, match, delivered, lost, completions>>

PacketWaits ==
    /\ pump = "idle" /\ arrived < NumPackets /\ queue = <<>>
    /\ arrived' = arrived + 1
    /\ list' = Append(list, arrived + 1)
    /\ UNCHANGED <<ioctl, queue, pump, match, delivered, lost, completions>>

\* There is no memory for the list entry.
PacketDropped ==
    /\ pump = "idle" /\ arrived < NumPackets /\ queue = <<>>
    /\ arrived' = arrived + 1
    /\ lost' = lost \cup {arrived + 1}
    /\ UNCHANGED <<ioctl, queue, list, pump, match, delivered, completions>>

PumpDelivers ==
    /\ pump = "deliver" /\ pump' = "idle"
    /\ Complete(match[Pump])
    /\ match' = [match EXCEPT ![Pump] = <<>>]
    /\ UNCHANGED <<ioctl, queue, list, arrived>>

-----------------------------------------------------------------------------
IoctlStep(r) ==
    \/ MatchRequest(r) \/ NoRequest(r) \/ StaysQueued(r) \/ Deliver(r) \/ CompleteFailed(r)

PacketArrives == PacketFindsRequest \/ PacketWaits \/ PacketDropped

Next ==
    \/ \E r \in Requests : Forward(r) \/ ForwardFails(r) \/ IoctlStep(r)
    \/ \E i \in DOMAIN queue : CancelQueued(i)
    \/ PacketArrives \/ PumpDelivers

Spec == Init /\ [][Next]_vars

\* A handler that has started returns; packets and reads come as they please.
FairSpec ==
    /\ Spec
    /\ WF_vars(PumpDelivers)
    /\ \A r \in Requests : WF_vars(IoctlStep(r))

-----------------------------------------------------------------------------
(* Properties. *)

\* A packet and a read wait for each other only while an IOCTL is between its
\* two sections: there are never more reads waiting beside a packet than IOCTLs
\* still to look for one (io.c, the table of cases of ReadRequestComplete).
NoStrandedPair ==
    list # <<>> => Len(queue) <= Cardinality({r \in Requests : ioctl[r] = "forwarded"})

\* Where packet p is: on the list, with a thread that matched it, with bthport,
\* or lost to an error.
OnList(p) == {i \in DOMAIN list : list[i] = p}
Matched(p) == {t \in Requests \cup {Pump} : match[t] # <<>> /\ match[t].packet = p}
WithBthport(p) == {i \in DOMAIN delivered : delivered[i] = p}

\* Every packet the pump has reassembled is in exactly one place: none is
\* forgotten and none is delivered twice.
PacketsAccounted ==
    \A p \in 1 .. arrived :
        Cardinality(OnList(p)) + Cardinality(Matched(p)) + Cardinality(WithBthport(p))
            + (IF p \in lost THEN 1 ELSE 0) = 1

\* The packets that wait are waiting in the order of their arrival.
ListInOrder == \A i, j \in DOMAIN list : i < j => list[i] < list[j]

\* A read and a packet that are both waiting do not stay so.
PairsMeet == (list # <<>> /\ queue # <<>>) ~> (list = <<>> \/ queue = <<>>)

\* "C3. (!empty, !empty) -> Error! Cannot both empty at this function entry."
\* (io.c:1236, and the assertion at io.c:1252): a packet that finds a read finds
\* no packet before it on the list.
PacketNeverOvertakes == [][PacketFindsRequest => list = <<>>]_vars

=============================================================================
