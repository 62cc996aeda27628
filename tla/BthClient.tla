----------------------------- MODULE BthClient -----------------------------
(***************************************************************************)
(* The client driver of bluetooth/bthecho: bthcli/sys/client.c, device.c   *)
(* and queue.c over common/lib/connection.c.                               *)
(*                                                                         *)
(* Opening a file opens a connection, closing the file disconnects it and  *)
(* waits for that, and reads and writes in between are handed to the       *)
(* Bluetooth stack one by one.  The peer may disconnect at any time after  *)
(* the channel is open, also before the driver has seen that it is.        *)
(*                                                                         *)
(* A thread <<f, k>> works on the connection of file f; one step is one    *)
(* locked section or one access to state that no lock protects.            *)
(***************************************************************************)
EXTENDS Integers

CONSTANTS
    File,      \* the file objects
    Io,        \* the reads and writes a file may have outstanding at once
    Faults     \* what may happen to them

FaultKind == {"remote disconnect", "send failure"}

ASSUME FaultsAssumption == Faults \subseteq FaultKind

Connector == 1   \* BthEchoCliOpenRemoteConnection and its completion routine
Indicator == 2   \* BthEchoCliIndicationCallback
Closer == 3      \* BthEchoCliEvtFileClose
Ender == 4       \* BthEchoConnectionObjectDisconnectCompletion

Thread == File \X (Connector .. Ender)
Transfer == File \X Io

VARIABLES
    handle,   \* [File -> the state of the file object]
    conn,     \* [File -> its connection object]
    at,       \* [Thread -> Label]
    io        \* [Transfer -> the state of the request]

vars == <<handle, conn, at, io>>

Label == {"off", "send", "opening", "opened", "refused", "complete", "reject",
          "lock", "clear", "close", "closing", "wake", "wait", "done"}

Connection == [state : {"initialized", "connecting", "connected", "connectFailed",
                        "disconnecting", "disconnected"},
               discEvent : BOOLEAN,
               channel : {"none", "opening", "open", "dropped", "closing", "closed"},
               object : {"none", "live", "disposed"},
               closes : Nat,
               unsent : BOOLEAN]   \* the stack did not take the disconnect

(* at: "format" and "send" inside the handler, "sent" with the stack;      *)
(* marked: the framework's cancel mark.                                    *)
IoState == [at : {"idle", "format", "send", "sent"}, marked : BOOLEAN]

TypeOK ==
    /\ handle \in [File -> {"none", "creating", "open", "failed", "closing", "closed"}]
    /\ conn \in [File -> Connection]
    /\ at \in [Thread -> Label]
    /\ io \in [Transfer -> IoState]

(* Faulty variant: the disconnect event is not signalled.                 *)
InitEventClear ==
    /\ handle = [f \in File |-> "none"]
    /\ conn = [f \in File |-> [state |-> "initialized", discEvent |-> FALSE,
                               channel |-> "none", object |-> "none", closes |-> 0,
                               unsent |-> FALSE]]
    /\ at = [t \in Thread |-> "off"]
    /\ io = [q \in Transfer |-> [at |-> "idle", marked |-> FALSE]]

Init ==
    /\ handle = [f \in File |-> "none"]
    /\ conn = [f \in File |-> [state |-> "initialized", discEvent |-> TRUE,
                               channel |-> "none", object |-> "none", closes |-> 0,
                               unsent |-> FALSE]]
    /\ at = [t \in Thread |-> "off"]
    /\ io = [q \in Transfer |-> [at |-> "idle", marked |-> FALSE]]

Goto(t, from, to) ==
    /\ at[t] = from
    /\ at' = [at EXCEPT ![t] = to]

-----------------------------------------------------------------------------
(* BthEchoCliEvtDeviceFileCreate and BthEchoCliOpenRemoteConnection.       *)

Create(f) ==
    /\ handle[f] = "none"
    /\ handle' = [handle EXCEPT ![f] = "creating"]
    /\ Goto(<<f, Connector>>, "off", "send")
    /\ conn' = [conn EXCEPT ![f].state = "connecting", ![f].object = "live"]
    /\ UNCHANGED io

(* The server's SDP record could not be read: no connection is created.    *)
CreateFails(f) ==
    /\ handle[f] = "none"
    /\ handle' = [handle EXCEPT ![f] = "failed"]
    /\ UNCHANGED <<conn, at, io>>

SendConnect(f) ==
    /\ Goto(<<f, Connector>>, "send", "opening")
    /\ conn' = [conn EXCEPT ![f].channel = "opening"]
    /\ UNCHANGED <<handle, io>>

ConnectNotSent(f) ==
    /\ "send failure" \in Faults
    /\ Goto(<<f, Connector>>, "send", "reject")
    /\ conn' = [conn EXCEPT ![f].state = "connectFailed"]
    /\ UNCHANGED <<handle, io>>

ChannelOpens(f) ==
    /\ Goto(<<f, Connector>>, "opening", "opened")
    /\ conn' = [conn EXCEPT ![f].channel = "open"]
    /\ UNCHANGED <<handle, io>>

ChannelRefused(f) ==
    /\ Goto(<<f, Connector>>, "opening", "refused")
    /\ conn' = [conn EXCEPT ![f].channel = "closed"]
    /\ UNCHANGED <<handle, io>>

(* BthEchoCliRemoteConnectCompletion sets the state without looking at it. *)
Opened(f) ==
    /\ Goto(<<f, Connector>>, "opened", "complete")
    /\ conn' = [conn EXCEPT ![f].state = "connected"]
    /\ UNCHANGED <<handle, io>>

Refused(f) ==
    /\ Goto(<<f, Connector>>, "refused", "reject")
    /\ conn' = [conn EXCEPT ![f].state = "connectFailed"]
    /\ UNCHANGED <<handle, io>>

CompleteCreate(f) ==
    \/ /\ Goto(<<f, Connector>>, "complete", "done")
       /\ handle' = [handle EXCEPT ![f] = "open"]
       /\ UNCHANGED <<conn, io>>
    \/ /\ Goto(<<f, Connector>>, "reject", "done")
       /\ handle' = [handle EXCEPT ![f] = "failed"]
       /\ UNCHANGED <<conn, io>>

-----------------------------------------------------------------------------
(* BthEchoCliEvtQueueIoRead and BthEchoCliEvtQueueIoWrite.                 *)

IoGoto(q, from, to) ==
    /\ io[q].at = from
    /\ io' = [io EXCEPT ![q] = [at |-> to, marked |-> to # "idle" /\ @.marked]]
    /\ UNCHANGED <<handle, conn, at>>

StartIo(q) == handle[q[1]] = "open" /\ IoGoto(q, "idle", "format")

(* Faulty variant: a transfer that could not be formatted is not completed.*)
FormatIoKept(q) ==
    IoGoto(q, "format", IF conn[q[1]].state = "connected" THEN "send" ELSE "format")

FormatIo(q) == IoGoto(q, "format", IF conn[q[1]].state = "connected" THEN "send" ELSE "idle")

(* The framework may refuse to send a request that was cancelled before.   *)
SendIo(q) == IoGoto(q, "send", "sent")

IoNotSent(q) ==
    /\ io[q].marked \/ "send failure" \in Faults
    /\ IoGoto(q, "send", "idle")

(* BthEchoCliReadWriteCompletion.  The stack answers while the channel is  *)
(* up, and must answer when it is not or when the request was cancelled.   *)
IoCompletes(q) == IoGoto(q, "sent", "idle")

IoMustComplete(q) == io[q].marked \/ conn[q[1]].channel # "open"

(* BthEchoCliEvtQueueIoStop.                                               *)
IoStop(q) ==
    /\ io[q].at # "idle"
    /\ io' = [io EXCEPT ![q].marked = TRUE]
    /\ UNCHANGED <<handle, conn, at>>

-----------------------------------------------------------------------------
(* The ways to BthEchoConnectionObjectRemoteDisconnect.                    *)

PeerDisconnects(f) ==
    /\ "remote disconnect" \in Faults
    /\ conn[f].channel = "open"
    /\ Goto(<<f, Indicator>>, "off", "lock")
    /\ conn' = [conn EXCEPT ![f].channel = "dropped"]
    /\ UNCHANGED <<handle, io>>

(* The I/O manager closes a file when no request of it is outstanding.     *)
CloseFile(f) ==
    /\ handle[f] = "open"
    /\ \A q \in Transfer : q[1] = f => io[q].at = "idle"
    /\ handle' = [handle EXCEPT ![f] = "closing"]
    /\ Goto(<<f, Closer>>, "off", "lock")
    /\ UNCHANGED <<conn, io>>

(* Only the closing of the file waits for the disconnect.                  *)
AfterDisconnect(t) == IF t[2] = Closer THEN "wait" ELSE "done"

DisconnectWhileConnecting(t) ==
    /\ conn[t[1]].state = "connecting"
    /\ Goto(t, "lock", AfterDisconnect(t))
    /\ conn' = [conn EXCEPT ![t[1]].state = "disconnecting", ![t[1]].discEvent = FALSE]
    /\ UNCHANGED <<handle, io>>

DisconnectRefused(t) ==
    /\ conn[t[1]].state \notin {"connecting", "connected"}
    /\ Goto(t, "lock", AfterDisconnect(t))
    /\ UNCHANGED <<handle, conn, io>>

(* Faulty variant: a disconnect under way does not keep others out.        *)
DisconnectBeginsAgain(t) ==
    /\ conn[t[1]].state \in {"connected", "disconnecting"}
    /\ Goto(t, "lock", "clear")
    /\ conn' = [conn EXCEPT ![t[1]].state = "disconnecting"]
    /\ UNCHANGED <<handle, io>>

DisconnectBegins(t) ==
    /\ conn[t[1]].state = "connected"
    /\ Goto(t, "lock", "clear")
    /\ conn' = [conn EXCEPT ![t[1]].state = "disconnecting"]
    /\ UNCHANGED <<handle, io>>

ClearDisconnectEvent(t) ==
    /\ Goto(t, "clear", "close")
    /\ conn' = [conn EXCEPT ![t[1]].discEvent = FALSE]
    /\ UNCHANGED <<handle, io>>

SendClose(t) ==
    /\ at[t] = "close"
    /\ at' = [at EXCEPT ![t] = AfterDisconnect(t), ![<<t[1], Ender>>] = "closing"]
    /\ conn' = [conn EXCEPT ![t[1]].channel = "closing", ![t[1]].closes = @ + 1]
    /\ UNCHANGED <<handle, io>>

(* The result of BthEchoSharedSendBrbAsync is ignored.                     *)
CloseNotSent(t) ==
    /\ "send failure" \in Faults
    /\ Goto(t, "close", AfterDisconnect(t))
    /\ conn' = [conn EXCEPT ![t[1]].unsent = TRUE]
    /\ UNCHANGED <<handle, io>>

CloseCompletes(f) ==
    /\ Goto(<<f, Ender>>, "closing", "wake")
    /\ conn' = [conn EXCEPT ![f].state = "disconnected", ![f].channel = "closed"]
    /\ UNCHANGED <<handle, io>>

(* Faulty variant: KeSetEvent is missing.                                  *)
SetNoDisconnectEvent(f) ==
    /\ Goto(<<f, Ender>>, "wake", "done")
    /\ UNCHANGED <<handle, conn, io>>

SetDisconnectEvent(f) ==
    /\ Goto(<<f, Ender>>, "wake", "done")
    /\ conn' = [conn EXCEPT ![f].discEvent = TRUE]
    /\ UNCHANGED <<handle, io>>

(* Faulty variant: the close does not wait.                                *)
DisconnectNotWaited(f) ==
    /\ Goto(<<f, Closer>>, "wait", "done")
    /\ handle' = [handle EXCEPT ![f] = "closed"]
    /\ UNCHANGED <<conn, io>>

(* BthEchoConnectionObjectRemoteDisconnectSynchronously returns.           *)
DisconnectWaited(f) ==
    /\ conn[f].discEvent
    /\ Goto(<<f, Closer>>, "wait", "done")
    /\ handle' = [handle EXCEPT ![f] = "closed"]
    /\ UNCHANGED <<conn, io>>

(* The connection is a child of the file object and is cleaned up with it. *)
Dispose(f) ==
    /\ handle[f] \in {"failed", "closed"}
    /\ conn[f].object = "live"
    /\ conn[f].discEvent
    /\ conn' = [conn EXCEPT ![f].object = "disposed"]
    /\ UNCHANGED <<handle, at, io>>

-----------------------------------------------------------------------------
ConnectorStep(f) ==
    \/ SendConnect(f)
    \/ ConnectNotSent(f)
    \/ Opened(f)
    \/ Refused(f)
    \/ CompleteCreate(f)

DisconnectStep(t) ==
    \/ DisconnectWhileConnecting(t)
    \/ DisconnectRefused(t)
    \/ DisconnectBegins(t)
    \/ ClearDisconnectEvent(t)
    \/ SendClose(t)
    \/ CloseNotSent(t)

WaitStep(f) == SetDisconnectEvent(f) \/ DisconnectWaited(f) \/ Dispose(f)

StackStep(f) == ChannelOpens(f) \/ ChannelRefused(f) \/ CloseCompletes(f)

IoHandlerStep(q) == FormatIo(q) \/ SendIo(q) \/ IoNotSent(q)

Next ==
    \/ \E f \in File : Create(f) \/ CreateFails(f) \/ PeerDisconnects(f) \/ CloseFile(f)
    \/ \E f \in File : ConnectorStep(f) \/ WaitStep(f) \/ StackStep(f)
    \/ \E t \in Thread : DisconnectStep(t)
    \/ \E q \in Transfer : StartIo(q) \/ IoHandlerStep(q) \/ IoCompletes(q) \/ IoStop(q)

Spec == Init /\ [][Next]_vars

(* Threads run and the stack answers; files need not be opened or closed,  *)
(* and a transfer on an open channel may stay with the stack for ever.     *)
Fairness ==
    /\ \A f \in File : WF_vars(ConnectorStep(f)) /\ WF_vars(WaitStep(f)) /\ WF_vars(StackStep(f))
    /\ \A t \in Thread : WF_vars(DisconnectStep(t))
    /\ \A q \in Transfer : /\ WF_vars(IoHandlerStep(q))
                           /\ WF_vars(IoMustComplete(q) /\ IoCompletes(q))

FairSpec == Spec /\ Fairness

-----------------------------------------------------------------------------
(* The disconnect is sent at most once, whether the peer, the closing of   *)
(* the file or both ask for it.                                            *)
DisconnectSentOnce == \A f \in File : conn[f].closes <= 1

(* Closing a file disconnects synchronously: when the close has returned   *)
(* the channel is closed, unless the peer was ending the connection, too.  *)
CloseIsSynchronous ==
    \A f \in File : handle[f] = "closed" /\ at[<<f, Indicator>>] = "off"
        => conn[f].channel = "closed"

(* Nothing but the closing of the file disconnects, and so nothing does    *)
(* before the create completes: the comment in RemoteConnectCompletion.    *)
NoDisconnectWhileCreating ==
    \A f \in File : handle[f] = "creating" => conn[f].state # "disconnecting"

(* A close returns, and the connection of a file that failed to open or    *)
(* was closed is cleaned up: neither wait for the disconnect event hangs,  *)
(* unless the disconnect was not sent.                                     *)
CloseReturns ==
    \A f \in File : handle[f] = "closing" ~> handle[f] = "closed" \/ conn[f].unsent

ConnectionIsDisposed ==
    \A f \in File : handle[f] \in {"failed", "closed"}
        ~> conn[f].object \in {"none", "disposed"} \/ conn[f].unsent

(* No transfer is stranded by the end of its channel.                      *)
TransfersEnd ==
    \A q \in Transfer : conn[q[1]].channel \in {"dropped", "closing", "closed"}
        ~> io[q].at = "idle"
=============================================================================
