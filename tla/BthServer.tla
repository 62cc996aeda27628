----------------------------- MODULE BthServer -----------------------------
(***************************************************************************)
(* The connections of the Bluetooth echo server driver, bluetooth/bthecho: *)
(* bthsrv/sys/server.c and device.c over common/lib/connection.c.          *)
(*                                                                         *)
(* A connection is opened by the response to a peer's connect request,     *)
(* served by NumReaders repeat readers, and ended by whoever comes first:  *)
(* the peer, a reader that failed, an echo that failed, the removal of the *)
(* device, or the opening itself.  All of them call RemoteDisconnect and   *)
(* some of them then unlink and delete the connection object, whose        *)
(* cleanup callback waits for the readers and for the disconnect.          *)
(*                                                                         *)
(* Each caller is a thread <<c, k>> working on connection c with a label   *)
(* of its own, so that their steps interleave as the code's do.  A step is *)
(* one locked section or one access to state that no lock protects.        *)
(***************************************************************************)
EXTENDS Integers

CONSTANTS
    Conn,         \* the connections
    NumReaders,   \* BTHECHOSAMPLE_NUM_CONTINUOUS_READERS, 2 in the code
    Faults        \* what may happen to them

FaultKind == {"remote disconnect", "device removal", "send failure", "no resources"}

ASSUME ParametersAssumption == NumReaders \in Nat /\ Faults \subseteq FaultKind

Opener == 0       \* SendConnectResponse and its completion routine
Indicator == -1   \* the connection's indication callback
Remover == -2     \* DisconnectConnectionsOnRemove, on this connection
Closer == -3      \* the completion routine of the disconnect

Reader == Conn \X (1 .. NumReaders)
Thread == Conn \X (Closer .. NumReaders)   \* <<c, i>>, i > 0: callbacks of reader i

VARIABLES
    rpc, caller, status, request, marked, stopping, stopEvent, cancelling, handle,
    thread,    \* [Thread -> the frame it executes]
    conn,      \* [Conn -> the connection object]
    removal,   \* how far the removal of the device is
    halt       \* what brought the machine to a stop, or "no"

RR == INSTANCE RepeatReader

readers == <<rpc, caller, status, request, marked, stopping, stopEvent, cancelling, handle>>
vars == <<readers, thread, conn, removal, halt>>

ConnState == {"initialized", "connecting", "connected", "connectFailed",
              "disconnecting", "disconnected"}

(* for: the caller that RemoteDisconnect returns to; i: its reader index.  *)
Frame == [at : {"off", "respond", "opening", "opened", "refused", "init", "submit",
                "submitting", "cancel", "mark", "lock", "clear", "close", "wake",
                "unlink", "delete", "closing", "done"},
          i : 1 .. NumReaders + 1,
          for : {"none", "submit", "giveup", "late", "drop", "remove"}]

(* object: "deleting" after WdfObjectDelete, while the cleanup callback    *)
(* runs, "disposed" after it; entry: ConnectionListEntry; waited: the      *)
(* readers the cleanup callback has waited for and uninitialised; unsent:  *)
(* the disconnect could not be sent, which the driver does not notice.     *)
Connection == [state : ConnState, discEvent : BOOLEAN, count : 0 .. NumReaders,
               entry : {"self", "linked", "stale"},
               object : {"none", "live", "deleting", "disposed"},
               channel : {"none", "opening", "open", "dropped", "closing", "closed"},
               closes : Nat, unsent : BOOLEAN, waited : 0 .. NumReaders]

TypeOK ==
    /\ RR!TypeOK
    /\ thread \in [Thread -> Frame]
    /\ conn \in [Conn -> Connection]
    /\ removal \in {"no", "draining", "drained"}
    /\ halt \in {"no", "list", "reader"}

Init ==
    /\ RR!Init
    /\ thread = [t \in Thread |-> [at |-> "off", i |-> 1, for |-> "none"]]
    /\ conn = [c \in Conn |-> [state |-> "initialized", discEvent |-> TRUE, count |-> 0,
                               entry |-> "self", object |-> "none",
                               channel |-> "none", closes |-> 0, unsent |-> FALSE,
                               waited |-> 0]]
    /\ removal = "no"
    /\ halt = "no"

Goto(t, from, to) ==
    /\ thread[t].at = from
    /\ thread' = [thread EXCEPT ![t].at = to]

(* Thread t enters BthEchoConnectionObjectRemoteDisconnect.                *)
Call(t, path) == thread' = [thread EXCEPT ![t] = [at |-> "cancel", i |-> 1, for |-> path]]

-----------------------------------------------------------------------------
(* BthEchoSrvSendConnectResponse.                                          *)

(* A connect request of a peer: create the object, insert it in the list.  *)
Accept(c) ==
    /\ removal = "no"
    /\ Goto(<<c, Opener>>, "off", "respond")
    /\ conn' = [conn EXCEPT ![c].state = "connecting", ![c].entry = "linked",
                            ![c].object = "live"]
    /\ UNCHANGED <<readers, removal, halt>>

SendResponse(c) ==
    /\ Goto(<<c, Opener>>, "respond", "opening")
    /\ conn' = [conn EXCEPT ![c].channel = "opening"]
    /\ UNCHANGED <<readers, removal, halt>>

ResponseNotSent(c) ==
    /\ "send failure" \in Faults
    /\ Goto(<<c, Opener>>, "respond", "unlink")
    /\ conn' = [conn EXCEPT ![c].state = "connectFailed"]
    /\ UNCHANGED <<readers, removal, halt>>

-----------------------------------------------------------------------------
(* BthEchoSrvRemoteConnectResponseCompletion.                              *)

ChannelOpens(c) ==
    /\ Goto(<<c, Opener>>, "opening", "opened")
    /\ conn' = [conn EXCEPT ![c].channel = "open"]
    /\ UNCHANGED <<readers, removal, halt>>

ChannelRefused(c) ==
    /\ Goto(<<c, Opener>>, "opening", "refused")
    /\ conn' = [conn EXCEPT ![c].channel = "closed"]
    /\ UNCHANGED <<readers, removal, halt>>

(* Faulty variant: a disconnect that came meanwhile is not looked for.     *)
OpenedUnchecked(c) ==
    /\ Goto(<<c, Opener>>, "opened", "init")
    /\ conn' = [conn EXCEPT ![c].state = "connected"]
    /\ UNCHANGED <<readers, removal, halt>>

(* A disconnect that came while the connection was opening is made now.    *)
Opened(c) ==
    LET t == <<c, Opener>> IN
    /\ thread[t].at = "opened"
    /\ IF conn[c].state = "disconnecting" THEN Call(t, "late") ELSE Goto(t, "opened", "init")
    /\ conn' = [conn EXCEPT ![c].state = "connected"]
    /\ UNCHANGED <<readers, removal, halt>>

(* Faulty variant: whoever waits for the disconnect is not woken.          *)
RefusedSilently(c) ==
    /\ Goto(<<c, Opener>>, "refused", "unlink")
    /\ conn' = [conn EXCEPT ![c].state = "connectFailed"]
    /\ UNCHANGED <<readers, removal, halt>>

Refused(c) ==
    /\ Goto(<<c, Opener>>, "refused",
            IF conn[c].state = "disconnecting" THEN "wake" ELSE "unlink")
    /\ conn' = [conn EXCEPT ![c].state = "connectFailed"]
    /\ UNCHANGED <<readers, removal, halt>>

-----------------------------------------------------------------------------
(* BthEchoSrvConnectionStateConnected: initialise the readers, submit them.*)

InitReader(c) ==
    /\ conn[c].count < NumReaders
    /\ Goto(<<c, Opener>>, "init", IF conn[c].count + 1 = NumReaders THEN "submit" ELSE "init")
    /\ conn' = [conn EXCEPT ![c].count = @ + 1]
    /\ UNCHANGED <<readers, removal, halt>>

InitReaderFails(c) ==
    /\ "no resources" \in Faults
    /\ thread[<<c, Opener>>].at = "init"
    /\ Call(<<c, Opener>>, "giveup")
    /\ UNCHANGED <<readers, conn, removal, halt>>

SubmitReader(c) ==
    LET t == <<c, Opener>> IN
    /\ Goto(t, "submit", "submitting")
    /\ RR!Start(<<c, thread[t].i>>)
    /\ UNCHANGED <<conn, removal, halt>>

(* BthEchoRepeatReaderSubmit has returned; a failure cancels all readers.  *)
SubmitReturns(c) ==
    LET t == <<c, Opener>>
        r == <<c, thread[t].i>> IN
    /\ thread[t].at = "submitting"
    /\ caller[r] # "open" \/ rpc[r] \in {"pending", "stopped"}
    /\ IF caller[r] = "open" /\ status[r] = "failed"
       THEN Call(t, "submit")
       ELSE thread' = [thread EXCEPT ![t].i = @ + 1,
                           ![t].at = IF thread[t].i < conn[c].count THEN "submit" ELSE "done"]
    /\ UNCHANGED <<readers, conn, removal, halt>>

-----------------------------------------------------------------------------
(* BthEchoConnectionObjectRemoteDisconnect, run by thread t on its         *)
(* connection t[1].                                                        *)

(* The cleanup callback has uninitialised the reader: it has no request.   *)
Uninitialized(r) == handle[r] = "cleared"

CancelReader(t) ==
    LET r == <<t[1], thread[t].i>> IN
    /\ thread[t].i <= conn[t[1]].count
    /\ Goto(t, "cancel", "mark")
    /\ RR!CancelSetsStopping(t, r)
    /\ UNCHANGED <<conn, removal, halt>>

CancelReaderRequest(t) ==
    LET r == <<t[1], thread[t].i>> IN
    /\ thread[t].at = "mark"
    /\ ~Uninitialized(r)
    /\ thread' = [thread EXCEPT ![t].at = "cancel", ![t].i = @ + 1]
    /\ RR!CancelSentRequest(t, r)
    /\ UNCHANGED <<conn, removal, halt>>

(* SubmitReaders cancels the readers itself before the disconnect does.    *)
CancelsDone(t) ==
    /\ thread[t].at = "cancel"
    /\ thread[t].i > conn[t[1]].count
    /\ IF thread[t].for = "submit" THEN Call(t, "giveup") ELSE Goto(t, "cancel", "lock")
    /\ UNCHANGED <<readers, conn, removal, halt>>

(* Faulty variant: the object is deleted without being unlinked.           *)
AfterDisconnectLinked(t, disconnected) ==
    IF thread[t].for = "giveup" \/ (thread[t].for = "drop" /\ disconnected)
    THEN "delete" ELSE "done"

(* Where the caller goes on: DisconnectConnection unlinks and deletes the  *)
(* object when the disconnect was its own, a failed opening always does.   *)
AfterDisconnect(t, disconnected) ==
    IF thread[t].for = "giveup" \/ (thread[t].for = "drop" /\ disconnected)
    THEN "unlink" ELSE "done"

DisconnectWhileConnecting(t) ==
    /\ conn[t[1]].state = "connecting"
    /\ Goto(t, "lock", AfterDisconnect(t, TRUE))
    /\ conn' = [conn EXCEPT ![t[1]].state = "disconnecting", ![t[1]].discEvent = FALSE]
    /\ UNCHANGED <<readers, removal, halt>>

DisconnectRefused(t) ==
    /\ conn[t[1]].state \notin {"connecting", "connected"}
    /\ Goto(t, "lock", AfterDisconnect(t, FALSE))
    /\ UNCHANGED <<readers, conn, removal, halt>>

(* Faulty variant: a disconnect under way does not keep others out.        *)
DisconnectBeginsAgain(t) ==
    /\ conn[t[1]].state \in {"connected", "disconnecting"}
    /\ Goto(t, "lock", "clear")
    /\ conn' = [conn EXCEPT ![t[1]].state = "disconnecting"]
    /\ UNCHANGED <<readers, removal, halt>>

DisconnectBegins(t) ==
    /\ conn[t[1]].state = "connected"
    /\ Goto(t, "lock", "clear")
    /\ conn' = [conn EXCEPT ![t[1]].state = "disconnecting"]
    /\ UNCHANGED <<readers, removal, halt>>

ClearDisconnectEvent(t) ==
    /\ Goto(t, "clear", "close")
    /\ conn' = [conn EXCEPT ![t[1]].discEvent = FALSE]
    /\ UNCHANGED <<readers, removal, halt>>

SendClose(t) ==
    /\ thread[t].at = "close"
    /\ thread' = [thread EXCEPT ![t].at = AfterDisconnect(t, TRUE),
                                ![<<t[1], Closer>>].at = "closing"]
    /\ conn' = [conn EXCEPT ![t[1]].channel = "closing",
                            ![t[1]].closes = @ + 1]
    /\ UNCHANGED <<readers, removal, halt>>

(* The result of BthEchoSharedSendBrbAsync is ignored.                     *)
CloseNotSent(t) ==
    /\ "send failure" \in Faults
    /\ Goto(t, "close", AfterDisconnect(t, TRUE))
    /\ conn' = [conn EXCEPT ![t[1]].unsent = TRUE]
    /\ UNCHANGED <<readers, removal, halt>>

(* BthEchoConnectionObjectDisconnectCompletion.                            *)
CloseCompletes(c) ==
    /\ Goto(<<c, Closer>>, "closing", "wake")
    /\ conn' = [conn EXCEPT ![c].state = "disconnected", ![c].channel = "closed"]
    /\ UNCHANGED <<readers, removal, halt>>

(* Faulty variant: KeSetEvent is missing.                                  *)
SetNoDisconnectEvent(t) ==
    /\ Goto(t, "wake", IF t[2] = Closer THEN "done" ELSE "unlink")
    /\ UNCHANGED <<readers, conn, removal, halt>>

SetDisconnectEvent(t) ==
    /\ Goto(t, "wake", IF t[2] = Closer THEN "done" ELSE "unlink")
    /\ conn' = [conn EXCEPT ![t[1]].discEvent = TRUE]
    /\ UNCHANGED <<readers, removal, halt>>

-----------------------------------------------------------------------------
(* RemoveConnectionEntryLocked, and WdfObjectDelete after it.              *)

Unlink(t) ==
    /\ conn[t[1]].entry = "linked"
    /\ Goto(t, "unlink", "delete")
    /\ conn' = [conn EXCEPT ![t[1]].entry = "stale"]
    /\ UNCHANGED <<readers, removal, halt>>

(* The entry is out of the list but still points into it: RemoveEntryList  *)
(* finds its neighbours pointing elsewhere and stops the machine.          *)
UnlinkStale(t) ==
    /\ thread[t].at = "unlink"
    /\ conn[t[1]].entry = "stale"
    /\ halt' = "list"
    /\ UNCHANGED <<readers, thread, conn, removal>>

(* The framework ignores a second deletion of an object.                   *)
Deleted(c) == [conn EXCEPT ![c].object = IF @ = "live" THEN "deleting" ELSE @]

Delete(t) ==
    /\ Goto(t, "delete", "done")
    /\ conn' = Deleted(t[1])
    /\ UNCHANGED <<readers, removal, halt>>

(* BthEchoEvtConnectionObjectCleanup, for each reader and at its end.      *)
Awaited(c) == <<c, conn[c].waited + 1>>

WaitReader(c) ==
    /\ conn[c].object = "deleting"
    /\ conn[c].waited < conn[c].count
    /\ RR!WaitForStop(Awaited(c))
    /\ UNCHANGED <<thread, conn, removal, halt>>

UninitializeReader(c) ==
    /\ conn[c].object = "deleting"
    /\ conn[c].waited < conn[c].count
    /\ RR!Uninitialize(Awaited(c))
    /\ conn' = [conn EXCEPT ![c].waited = @ + 1]
    /\ UNCHANGED <<thread, removal, halt>>

Dispose(c) ==
    /\ conn[c].object = "deleting"
    /\ conn[c].waited >= conn[c].count
    /\ conn[c].discEvent
    /\ conn' = [conn EXCEPT ![c].object = "disposed"]
    /\ UNCHANGED <<readers, thread, removal, halt>>

-----------------------------------------------------------------------------
(* BthEchoSrvConnectionIndicationCallback: the peer disconnects once.      *)
PeerDisconnects(c) ==
    /\ "remote disconnect" \in Faults
    /\ conn[c].channel = "open"
    /\ thread[<<c, Indicator>>].at = "off"
    /\ Call(<<c, Indicator>>, "drop")
    /\ conn' = [conn EXCEPT ![c].channel = "dropped"]
    /\ UNCHANGED <<readers, removal, halt>>

-----------------------------------------------------------------------------
(* BthEchoSrvEvtDeviceSelfManagedIoCleanup.                                *)

(* Unregistering the server waits for the connect indications under way.   *)
StartRemoval ==
    /\ "device removal" \in Faults
    /\ removal = "no"
    /\ \A c \in Conn : thread[<<c, Opener>>].at # "respond"
    /\ removal' = "draining"
    /\ UNCHANGED <<readers, thread, conn, halt>>

RemoverIdle == \A c \in Conn : thread[<<c, Remover>>].at \in {"off", "done"}

(* The loop takes the list's head; which one it is makes no difference.    *)
PopConnection(c) ==
    /\ removal = "draining"
    /\ RemoverIdle
    /\ conn[c].entry = "linked"
    /\ Call(<<c, Remover>>, "remove")
    /\ conn' = [conn EXCEPT ![c].entry = "stale"]
    /\ UNCHANGED <<readers, removal, halt>>

ListDrained ==
    /\ removal = "draining"
    /\ RemoverIdle
    /\ \A c \in Conn : conn[c].entry # "linked"
    /\ removal' = "drained"
    /\ UNCHANGED <<readers, thread, conn, halt>>

(* The framework deletes the device object and with it its children.       *)
DeleteChild(c) ==
    /\ removal = "drained"
    /\ conn[c].object = "live"
    /\ conn' = Deleted(c)
    /\ UNCHANGED <<readers, thread, removal, halt>>

-----------------------------------------------------------------------------
(* The readers of the connections.  A request handle that the cleanup      *)
(* callback has cleared stops the machine when it is used, which formatting*)
(* does only on a connected connection.                                    *)

Rest == UNCHANGED <<thread, conn, removal, halt>>

Connected(r) == conn[r[1]].state = "connected"

UsesRequest(r) == rpc[r] \in {"reuse", "send"} \/ (rpc[r] = "format" /\ Connected(r))

ReaderCode(r) ==
    /\ UsesRequest(r) => ~Uninitialized(r)
    /\ \/ RR!ResubmitDpc(r)
       \/ RR!Reuse(r)
       \/ RR!CheckStopping(r)
       \/ Connected(r) /\ RR!Format(r)
       \/ (~Connected(r) \/ "no resources" \in Faults) /\ RR!FormatFails(r)
       \/ RR!ClearStopEvent(r)
       \/ RR!Send(r)
       \/ (marked[r] \/ "send failure" \in Faults) /\ RR!SendFails(r)
       \/ RR!SetStopEvent(r)
    /\ Rest

UseOfClearedRequest ==
    /\ \/ \E r \in Reader : UsesRequest(r) /\ Uninitialized(r)
       \/ \E t \in Thread : thread[t].at = "mark" /\ Uninitialized(<<t[1], thread[t].i>>)
    /\ halt' = "reader"
    /\ UNCHANGED <<readers, thread, conn, removal>>

(* The stack: data arrives while the channel is up, and every read that is *)
(* pending when it is not, or that was cancelled, completes.               *)
ReadData(r) ==
    /\ conn[r[1]].channel \in {"open", "dropped"}
    /\ RR!CompleteRead(r)
    /\ Rest

ReadFails(r) ==
    /\ conn[r[1]].channel # "open"
    /\ RR!CompleteError(r)
    /\ Rest

ReadCancelled(r) == RR!CompleteCancelled(r) /\ Rest

(* BthEchoSrvSendEcho, in the read callback.                               *)
EchoSent(r) ==
    /\ rpc[r] = "echo"
    /\ Connected(r)
    /\ Goto(r, "off", "done")
    /\ UNCHANGED <<readers, conn, removal, halt>>

EchoFails(r) ==
    /\ rpc[r] = "echo"
    /\ thread[r].at = "off"
    /\ ~Connected(r) \/ Faults \cap {"no resources", "send failure"} # {}
    /\ Call(r, "drop")
    /\ UNCHANGED <<readers, conn, removal, halt>>

(* BthEchoSrvConnectionObjectContReaderFailedCallback.                     *)
FailedCallback(r) ==
    /\ rpc[r] = "failed"
    /\ thread[r].at = "off"
    /\ Call(r, "drop")
    /\ UNCHANGED <<readers, conn, removal, halt>>

CallbackReturns(r) ==
    /\ Goto(r, "done", "off")
    /\ RR!QueueDpc(r) \/ RR!FailureHandled(r)
    /\ UNCHANGED <<conn, removal, halt>>

-----------------------------------------------------------------------------
(* What the driver does by itself once it has been called.                 *)
DriverStep(t) ==
    \/ CancelReader(t)
    \/ CancelReaderRequest(t)
    \/ CancelsDone(t)
    \/ DisconnectWhileConnecting(t)
    \/ DisconnectRefused(t)
    \/ DisconnectBegins(t)
    \/ ClearDisconnectEvent(t)
    \/ SendClose(t)
    \/ CloseNotSent(t)
    \/ SetDisconnectEvent(t)
    \/ Unlink(t)
    \/ UnlinkStale(t)
    \/ Delete(t)

OpenerStep(c) ==
    \/ SendResponse(c)
    \/ ResponseNotSent(c)
    \/ Opened(c)
    \/ Refused(c)
    \/ InitReader(c)
    \/ InitReaderFails(c)
    \/ SubmitReader(c)
    \/ SubmitReturns(c)

ReaderStep(r) ==
    \/ ReaderCode(r)
    \/ EchoSent(r)
    \/ EchoFails(r)
    \/ FailedCallback(r)
    \/ CallbackReturns(r)

FrameworkStep(c) ==
    \/ WaitReader(c)
    \/ UninitializeReader(c)
    \/ Dispose(c)
    \/ PopConnection(c)
    \/ DeleteChild(c)

(* What the Bluetooth stack does with what it was sent.                    *)
StackStep(c) == ChannelOpens(c) \/ ChannelRefused(c) \/ CloseCompletes(c)

Running ==
    \/ \E t \in Thread : DriverStep(t)
    \/ \E c \in Conn : OpenerStep(c) \/ FrameworkStep(c) \/ StackStep(c)
    \/ \E r \in Reader : ReaderStep(r) \/ ReadData(r) \/ ReadFails(r) \/ ReadCancelled(r)
    \/ \E c \in Conn : Accept(c) \/ PeerDisconnects(c)
    \/ StartRemoval
    \/ ListDrained
    \/ UseOfClearedRequest

Next == halt = "no" /\ Running

Spec == Init /\ [][Next]_vars

(* Threads run, the stack completes what it was sent and fails the reads   *)
(* of a channel that is down.  Peers need not connect, send or disconnect, *)
(* and nobody need remove the device.                                      *)
Fairness ==
    /\ \A t \in Thread : WF_vars(halt = "no" /\ DriverStep(t))
    /\ \A c \in Conn : WF_vars(halt = "no" /\ OpenerStep(c))
                    /\ WF_vars(halt = "no" /\ FrameworkStep(c))
                    /\ WF_vars(halt = "no" /\ StackStep(c))
    /\ \A r \in Reader : WF_vars(halt = "no" /\ ReaderStep(r))
                      /\ WF_vars(halt = "no" /\ ReadFails(r))
                      /\ WF_vars(halt = "no" /\ ReadCancelled(r))
    /\ WF_vars(halt = "no" /\ ListDrained)

FairSpec == Spec /\ Fairness

-----------------------------------------------------------------------------
(* The disconnect of a connection is sent at most once, however many of    *)
(* the peer, the readers, the opening and the removal ask for it: the      *)
(* second promise of the comment in DisconnectConnectionsOnRemove.         *)
DisconnectSentOnce == \A c \in Conn : conn[c].closes <= 1

(* The connection list holds only objects that nobody has deleted, so the  *)
(* removal never takes a reference on a dead one.                          *)
ListHoldsLiveObjects ==
    \A c \in Conn : conn[c].entry = "linked" => conn[c].object = "live"

(* A disconnect event that is not signalled will be set: by the completion *)
(* of the disconnect, by the completion of the opening, or by a thread     *)
(* that is about to send the disconnect, unless that could not be sent.    *)
(* The cleanup callback relies on it when it waits for the event.          *)
DisconnectEventHasSetter ==
    \A c \in Conn : ~conn[c].discEvent /\ ~conn[c].unsent =>
        \/ thread[<<c, Closer>>].at \in {"closing", "wake"}
        \/ thread[<<c, Opener>>].at \in {"opening", "opened", "refused", "wake"}
        \/ \E t \in Thread : t[1] = c /\ thread[t].at \in {"clear", "close"}
        \/ /\ thread[<<c, Opener>>].for = "late"
           /\ thread[<<c, Opener>>].at \in {"cancel", "mark", "lock"}

(* An entry is unlinked once: whoever disconnects the connection takes it  *)
(* out of the list, and the removal takes out only what nobody else has.   *)
UnlinkedOnce == halt # "list"

(* A disconnect is over before the connection object is cleaned up.        *)
DisposedAfterDisconnect ==
    \A c \in Conn : conn[c].object = "disposed" => conn[c].state # "disconnecting"

(* The end of connection c was asked for: RemoteDisconnect moved it to     *)
(* Disconnecting, or the completion of its opening saw that it had and is  *)
(* about to disconnect it.                                                 *)
Ending(c) ==
    \/ conn[c].state \in {"disconnecting", "disconnected"}
    \/ thread[<<c, Opener>>].for = "late"
    \/ conn[c].channel = "closed"

Phase(c) == CASE conn[c].channel = "none" -> "idle"
              [] conn[c].channel = "dropped" -> "open"
              [] OTHER -> conn[c].channel

Life == INSTANCE ChannelLife WITH
    phase <- [c \in Conn |-> Phase(c)],
    ending <- {c \in Conn : Ending(c)}

(* A connection goes through the life of a channel: the request to end it  *)
(* is never lost, not even when it comes before the channel is open.       *)
KeepsChannelLife == Life!Spec

(* A deleted object is disposed of, and no cleanup callback waits for ever,*)
(* except for a disconnect that could not be sent: its result is ignored.  *)
DeletedIsDisposed ==
    \A c \in Conn : conn[c].object = "deleting"
        ~> conn[c].object = "disposed" \/ conn[c].unsent \/ halt # "no"

(* Removing the device closes every channel the driver has open, with the  *)
(* same exception.                                                         *)
RemovalClosesChannels ==
    \A c \in Conn : removal = "drained" /\ conn[c].channel # "none"
        ~> conn[c].channel = "closed" \/ conn[c].unsent \/ halt # "no"
=============================================================================
