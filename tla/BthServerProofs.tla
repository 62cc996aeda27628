--------------------------- MODULE BthServerProofs ---------------------------
(***************************************************************************)
(* Proofs about BthServer, for any connections, any number of readers and  *)
(* any faults: each connection object has its invariant (Own), every step  *)
(* keeps it and is a step or a stutter of ChannelLife.  What is proved of  *)
(* the repeat reader is used for the readers of the connections.           *)
(***************************************************************************)
EXTENDS BthServer, TLAPS

RRP == INSTANCE RepeatReaderProofs

Role == Closer .. NumReaders

Early == {"off", "respond", "opening", "opened", "refused"}

(* A reader index is used only below the number of readers there are.      *)
Indices ==
    /\ \A t \in Thread : thread[t].at \in {"mark", "submit", "submitting"} =>
           thread[t].i <= conn[t[1]].count
    /\ \A c \in Conn : thread[<<c, Opener>>].at \in Early \cup {"init"} =>
           thread[<<c, Opener>>].i = 1

LEMMA Roles ==
    /\ Opener \in Role /\ Indicator \in Role /\ Remover \in Role /\ Closer \in Role
    /\ 1 .. NumReaders \subseteq Role
    /\ Thread = Conn \X Role
    /\ Reader \subseteq Thread
    /\ \A t \in Thread : t = <<t[1], t[2]>> /\ t[1] \in Conn /\ t[2] \in Role
    /\ \A r \in Reader : r = <<r[1], r[2]>> /\ r[1] \in Conn /\ r[2] \in 1 .. NumReaders
BY ParametersAssumption DEF Role, Opener, Indicator, Remover, Closer, Thread, Reader

Committed == {"clear", "close"}

At(c, k) == thread[<<c, k>>].at

(* Until the response is sent nobody else works on the connection, and no  *)
(* reader is started before the channel is open.                           *)
Opening(c) ==
    /\ At(c, Opener) = "off" => conn[c].state = "initialized" /\ conn[c].channel = "none"
    /\ At(c, Opener) = "respond" =>
           conn[c].state = "connecting" /\ conn[c].channel = "none" /\ removal = "no"
    /\ At(c, Opener) \in {"off", "respond"} => \A k \in Role \ {Opener} : At(c, k) = "off"
    /\ At(c, Opener) \in Early =>
           \A i \in 1 .. NumReaders : rpc[<<c, i>>] = "idle" /\ At(c, i) = "off"
    /\ removal = "no" => At(c, Remover) = "off"

(* The state and the channel follow the opening.  A late disconnect is one *)
(* that was asked for while the connection was opening.                    *)
Answered(c) ==
    /\ At(c, Opener) \in {"opening", "opened", "refused"} =>
           conn[c].state \in {"connecting", "disconnecting"}
    /\ At(c, Opener) = "opening" => conn[c].channel = "opening"
    /\ At(c, Opener) = "opened" => conn[c].channel \in {"open", "dropped"}
    /\ At(c, Opener) = "refused" => conn[c].channel = "closed"
    /\ At(c, Opener) \notin Early => conn[c].state \notin {"initialized", "connecting"}
    /\ conn[c].state = "connected" => conn[c].channel \in {"open", "dropped"}
    /\ thread[<<c, Opener>>].for = "late" =>
           At(c, Opener) \in {"cancel", "mark", "lock", "done"} \cup Committed

(* One thread commits itself to the disconnect and only before it is sent. *)
Commits(c) ==
    \A k \in Role : At(c, k) \in Committed =>
        /\ conn[c].state = "disconnecting" /\ conn[c].channel \in {"open", "dropped"}
        /\ At(c, Opener) \notin Early
        /\ At(c, Closer) = "off" /\ ~conn[c].unsent
        /\ \A j \in Role : At(c, j) \in Committed => j = k

(* The disconnect was sent once when its completion is due or has run.     *)
Closes(c) ==
    /\ At(c, Closer) \in {"off", "closing", "wake", "done"}
    /\ conn[c].closes = IF At(c, Closer) = "off" THEN 0 ELSE 1
    /\ At(c, Closer) = "closing" =>
           conn[c].state = "disconnecting" /\ conn[c].channel = "closing"
    /\ At(c, Closer) \in {"wake", "done"} <=> conn[c].state = "disconnected"
    /\ At(c, Closer) # "off" => At(c, Opener) \notin Early /\ ~conn[c].unsent
    /\ conn[c].unsent => conn[c].state = "disconnecting" /\ At(c, Opener) \notin Early

(* A connection that is disconnecting has somebody who sends the disconnect*)
(* or somebody who completes it.                                           *)
Pursued(c) ==
    conn[c].state = "disconnecting" /\ At(c, Opener) \notin Early =>
        \/ conn[c].unsent
        \/ At(c, Closer) = "closing"
        \/ \E k \in Role : At(c, k) \in Committed

(* Why the disconnect event is clear.                                      *)
Cleared(c) ==
    ~conn[c].discEvent =>
        \/ conn[c].state = "disconnecting"
        \/ conn[c].state = "connectFailed" /\ At(c, Opener) = "wake"
        \/ /\ conn[c].state = "connected" /\ thread[<<c, Opener>>].for = "late"
           /\ At(c, Opener) \in {"cancel", "mark", "lock"}
        \/ At(c, Closer) = "wake"

(* Whoever deletes the object has unlinked it.                             *)
Listed(c) ==
    /\ \A k \in Role : At(c, k) = "delete" => conn[c].entry = "stale"
    /\ conn[c].object \in {"deleting", "disposed"} => conn[c].entry = "stale"
    /\ removal = "drained" => conn[c].entry # "linked"
    /\ conn[c].entry = "self" <=> At(c, Opener) = "off"
    /\ conn[c].object = "none" <=> At(c, Opener) = "off"

Own(c) ==
    /\ Opening(c) /\ Answered(c)
    /\ Commits(c) /\ Closes(c)
    /\ Pursued(c) /\ Cleared(c)
    /\ Listed(c)

IInv == TypeOK /\ Indices /\ \A c \in Conn : Own(c)

(* The connection object of c becomes o, which has no fewer readers, and no *)
(* other changes.                                                          *)
Changes(c, o) ==
    /\ conn' \in [Conn -> Connection]
    /\ conn'[c] = o /\ conn[c].count <= o.count
    /\ \A d \in Conn \ {c} : conn'[d] = conn[d]

(* What each step makes of the connection object.                          *)
LEMMA ConnectionTyped ==
    ASSUME TypeOK, NEW c \in Conn
    PROVE  conn \in [Conn -> Connection] /\ conn[c] \in Connection
BY DEF TypeOK

LEMMA DisconnectWhileConnectingChanges ==
    ASSUME TypeOK, NEW c \in Conn, NEW k \in Role, DisconnectWhileConnecting(<<c, k>>)
    PROVE  Changes(c, [conn[c] EXCEPT !.state = "disconnecting", !.discEvent = FALSE])
<1>1. [conn[c] EXCEPT !.state = "disconnecting", !.discEvent = FALSE] \in Connection
  BY ConnectionTyped DEF Connection, ConnState
<1>2. [conn[c] EXCEPT !.state = "disconnecting", !.discEvent = FALSE].count >= conn[c].count
  BY ConnectionTyped, ParametersAssumption DEF Connection
<1>3. conn' = [conn EXCEPT ![c] = 
                    [conn[c] EXCEPT !.state = "disconnecting", !.discEvent = FALSE]]
  BY ConnectionTyped DEF DisconnectWhileConnecting
<1> QED BY <1>1, <1>2, <1>3, ConnectionTyped DEF Changes

LEMMA DisconnectBeginsChanges ==
    ASSUME TypeOK, NEW c \in Conn, NEW k \in Role, DisconnectBegins(<<c, k>>)
    PROVE  Changes(c, [conn[c] EXCEPT !.state = "disconnecting"])
<1>1. [conn[c] EXCEPT !.state = "disconnecting"] \in Connection
  BY ConnectionTyped DEF Connection, ConnState
<1>2. [conn[c] EXCEPT !.state = "disconnecting"].count >= conn[c].count
  BY ConnectionTyped, ParametersAssumption DEF Connection
<1>3. conn' = [conn EXCEPT ![c] = [conn[c] EXCEPT !.state = "disconnecting"]]
  BY ConnectionTyped DEF DisconnectBegins
<1> QED BY <1>1, <1>2, <1>3, ConnectionTyped DEF Changes

LEMMA ClearDisconnectEventChanges ==
    ASSUME TypeOK, NEW c \in Conn, NEW k \in Role, ClearDisconnectEvent(<<c, k>>)
    PROVE  Changes(c, [conn[c] EXCEPT !.discEvent = FALSE])
<1>1. [conn[c] EXCEPT !.discEvent = FALSE] \in Connection
  BY ConnectionTyped DEF Connection, ConnState
<1>2. [conn[c] EXCEPT !.discEvent = FALSE].count >= conn[c].count
  BY ConnectionTyped, ParametersAssumption DEF Connection
<1>3. conn' = [conn EXCEPT ![c] = [conn[c] EXCEPT !.discEvent = FALSE]]
  BY ConnectionTyped DEF ClearDisconnectEvent
<1> QED BY <1>1, <1>2, <1>3, ConnectionTyped DEF Changes

LEMMA SendCloseChanges ==
    ASSUME TypeOK, NEW c \in Conn, NEW k \in Role, SendClose(<<c, k>>)
    PROVE  Changes(c, [conn[c] EXCEPT !.channel = "closing", !.closes = @ + 1])
<1>1. conn[c].closes + 1 \in Nat
  BY ParametersAssumption, ConnectionTyped DEF SendClose, Connection
<1>2. [conn[c] EXCEPT !.channel = "closing", !.closes = @ + 1] \in Connection
  BY <1>1, ConnectionTyped DEF Connection, ConnState
<1>3. [conn[c] EXCEPT !.channel = "closing", !.closes = @ + 1].count >= conn[c].count
  BY ConnectionTyped, ParametersAssumption DEF Connection
<1>4. conn' = [conn EXCEPT ![c] = [conn[c] EXCEPT !.channel = "closing", !.closes = @ + 1]]
  BY ConnectionTyped DEF SendClose
<1> QED BY <1>2, <1>3, <1>4, ConnectionTyped DEF Changes

LEMMA CloseNotSentChanges ==
    ASSUME TypeOK, NEW c \in Conn, NEW k \in Role, CloseNotSent(<<c, k>>)
    PROVE  Changes(c, [conn[c] EXCEPT !.unsent = TRUE])
<1>1. [conn[c] EXCEPT !.unsent = TRUE] \in Connection
  BY ConnectionTyped DEF Connection, ConnState
<1>2. [conn[c] EXCEPT !.unsent = TRUE].count >= conn[c].count
  BY ConnectionTyped, ParametersAssumption DEF Connection
<1>3. conn' = [conn EXCEPT ![c] = [conn[c] EXCEPT !.unsent = TRUE]]
  BY ConnectionTyped DEF CloseNotSent
<1> QED BY <1>1, <1>2, <1>3, ConnectionTyped DEF Changes

LEMMA SetDisconnectEventChanges ==
    ASSUME TypeOK, NEW c \in Conn, NEW k \in Role, SetDisconnectEvent(<<c, k>>)
    PROVE  Changes(c, [conn[c] EXCEPT !.discEvent = TRUE])
<1>1. [conn[c] EXCEPT !.discEvent = TRUE] \in Connection
  BY ConnectionTyped DEF Connection, ConnState
<1>2. [conn[c] EXCEPT !.discEvent = TRUE].count >= conn[c].count
  BY ConnectionTyped, ParametersAssumption DEF Connection
<1>3. conn' = [conn EXCEPT ![c] = [conn[c] EXCEPT !.discEvent = TRUE]]
  BY ConnectionTyped DEF SetDisconnectEvent
<1> QED BY <1>1, <1>2, <1>3, ConnectionTyped DEF Changes

LEMMA UnlinkChanges ==
    ASSUME TypeOK, NEW c \in Conn, NEW k \in Role, Unlink(<<c, k>>)
    PROVE  Changes(c, [conn[c] EXCEPT !.entry = "stale"])
<1>1. [conn[c] EXCEPT !.entry = "stale"] \in Connection
  BY ConnectionTyped DEF Connection, ConnState
<1>2. [conn[c] EXCEPT !.entry = "stale"].count >= conn[c].count
  BY ConnectionTyped, ParametersAssumption DEF Connection
<1>3. conn' = [conn EXCEPT ![c] = [conn[c] EXCEPT !.entry = "stale"]]
  BY ConnectionTyped DEF Unlink
<1> QED BY <1>1, <1>2, <1>3, ConnectionTyped DEF Changes

LEMMA DeleteChanges ==
    ASSUME TypeOK, NEW c \in Conn, NEW k \in Role, Delete(<<c, k>>)
    PROVE  Changes(c, [conn[c] EXCEPT !.object = IF @ = "live" THEN "deleting" ELSE @])
<1>1. [conn[c] EXCEPT !.object = IF @ = "live" THEN "deleting" ELSE @] \in Connection
  BY ConnectionTyped DEF Connection, ConnState
<1>2. [conn[c] EXCEPT !.object = IF @ = "live" THEN "deleting" ELSE @].count >= conn[c].count
  BY ConnectionTyped, ParametersAssumption DEF Connection
<1>3. conn' = [conn EXCEPT ![c] = 
                    [conn[c] EXCEPT !.object = IF @ = "live" THEN "deleting" ELSE @]]
  BY ConnectionTyped DEF Delete, Deleted
<1> QED BY <1>1, <1>2, <1>3, ConnectionTyped DEF Changes

LEMMA SendResponseChanges ==
    ASSUME TypeOK, NEW c \in Conn, SendResponse(c)
    PROVE  Changes(c, [conn[c] EXCEPT !.channel = "opening"])
<1>1. [conn[c] EXCEPT !.channel = "opening"] \in Connection
  BY ConnectionTyped DEF Connection, ConnState
<1>2. [conn[c] EXCEPT !.channel = "opening"].count >= conn[c].count
  BY ConnectionTyped, ParametersAssumption DEF Connection
<1>3. conn' = [conn EXCEPT ![c] = [conn[c] EXCEPT !.channel = "opening"]]
  BY ConnectionTyped DEF SendResponse
<1> QED BY <1>1, <1>2, <1>3, ConnectionTyped DEF Changes

LEMMA ResponseNotSentChanges ==
    ASSUME TypeOK, NEW c \in Conn, ResponseNotSent(c)
    PROVE  Changes(c, [conn[c] EXCEPT !.state = "connectFailed"])
<1>1. [conn[c] EXCEPT !.state = "connectFailed"] \in Connection
  BY ConnectionTyped DEF Connection, ConnState
<1>2. [conn[c] EXCEPT !.state = "connectFailed"].count >= conn[c].count
  BY ConnectionTyped, ParametersAssumption DEF Connection
<1>3. conn' = [conn EXCEPT ![c] = [conn[c] EXCEPT !.state = "connectFailed"]]
  BY ConnectionTyped DEF ResponseNotSent
<1> QED BY <1>1, <1>2, <1>3, ConnectionTyped DEF Changes

LEMMA OpenedChanges ==
    ASSUME TypeOK, NEW c \in Conn, Opened(c)
    PROVE  Changes(c, [conn[c] EXCEPT !.state = "connected"])
<1>1. [conn[c] EXCEPT !.state = "connected"] \in Connection
  BY ConnectionTyped DEF Connection, ConnState
<1>2. [conn[c] EXCEPT !.state = "connected"].count >= conn[c].count
  BY ConnectionTyped, ParametersAssumption DEF Connection
<1>3. conn' = [conn EXCEPT ![c] = [conn[c] EXCEPT !.state = "connected"]]
  BY ConnectionTyped DEF Opened
<1> QED BY <1>1, <1>2, <1>3, ConnectionTyped DEF Changes

LEMMA RefusedChanges ==
    ASSUME TypeOK, NEW c \in Conn, Refused(c)
    PROVE  Changes(c, [conn[c] EXCEPT !.state = "connectFailed"])
<1>1. [conn[c] EXCEPT !.state = "connectFailed"] \in Connection
  BY ConnectionTyped DEF Connection, ConnState
<1>2. [conn[c] EXCEPT !.state = "connectFailed"].count >= conn[c].count
  BY ConnectionTyped, ParametersAssumption DEF Connection
<1>3. conn' = [conn EXCEPT ![c] = [conn[c] EXCEPT !.state = "connectFailed"]]
  BY ConnectionTyped DEF Refused
<1> QED BY <1>1, <1>2, <1>3, ConnectionTyped DEF Changes

LEMMA InitReaderChanges ==
    ASSUME TypeOK, NEW c \in Conn, InitReader(c)
    PROVE  Changes(c, [conn[c] EXCEPT !.count = @ + 1])
<1>1. conn[c].count + 1 \in 0 .. NumReaders
  BY ParametersAssumption, ConnectionTyped DEF InitReader, Connection
<1>2. [conn[c] EXCEPT !.count = @ + 1] \in Connection
  BY <1>1, ConnectionTyped DEF Connection, ConnState
<1>3. [conn[c] EXCEPT !.count = @ + 1].count >= conn[c].count
  BY ConnectionTyped, ParametersAssumption DEF Connection
<1>4. conn' = [conn EXCEPT ![c] = [conn[c] EXCEPT !.count = @ + 1]]
  BY ConnectionTyped DEF InitReader
<1> QED BY <1>2, <1>3, <1>4, ConnectionTyped DEF Changes

LEMMA UninitializeReaderChanges ==
    ASSUME TypeOK, NEW c \in Conn, UninitializeReader(c)
    PROVE  Changes(c, [conn[c] EXCEPT !.waited = @ + 1])
<1>1. conn[c].waited + 1 \in 0 .. NumReaders
  BY ParametersAssumption, ConnectionTyped DEF UninitializeReader, Connection
<1>2. [conn[c] EXCEPT !.waited = @ + 1] \in Connection
  BY <1>1, ConnectionTyped DEF Connection, ConnState
<1>3. [conn[c] EXCEPT !.waited = @ + 1].count >= conn[c].count
  BY ConnectionTyped, ParametersAssumption DEF Connection
<1>4. conn' = [conn EXCEPT ![c] = [conn[c] EXCEPT !.waited = @ + 1]]
  BY ConnectionTyped DEF UninitializeReader
<1> QED BY <1>2, <1>3, <1>4, ConnectionTyped DEF Changes

LEMMA DisposeChanges ==
    ASSUME TypeOK, NEW c \in Conn, Dispose(c)
    PROVE  Changes(c, [conn[c] EXCEPT !.object = "disposed"])
<1>1. [conn[c] EXCEPT !.object = "disposed"] \in Connection
  BY ConnectionTyped DEF Connection, ConnState
<1>2. [conn[c] EXCEPT !.object = "disposed"].count >= conn[c].count
  BY ConnectionTyped, ParametersAssumption DEF Connection
<1>3. conn' = [conn EXCEPT ![c] = [conn[c] EXCEPT !.object = "disposed"]]
  BY ConnectionTyped DEF Dispose
<1> QED BY <1>1, <1>2, <1>3, ConnectionTyped DEF Changes

LEMMA PopConnectionChanges ==
    ASSUME TypeOK, NEW c \in Conn, PopConnection(c)
    PROVE  Changes(c, [conn[c] EXCEPT !.entry = "stale"])
<1>1. [conn[c] EXCEPT !.entry = "stale"] \in Connection
  BY ConnectionTyped DEF Connection, ConnState
<1>2. [conn[c] EXCEPT !.entry = "stale"].count >= conn[c].count
  BY ConnectionTyped, ParametersAssumption DEF Connection
<1>3. conn' = [conn EXCEPT ![c] = [conn[c] EXCEPT !.entry = "stale"]]
  BY ConnectionTyped DEF PopConnection
<1> QED BY <1>1, <1>2, <1>3, ConnectionTyped DEF Changes

LEMMA DeleteChildChanges ==
    ASSUME TypeOK, NEW c \in Conn, DeleteChild(c)
    PROVE  Changes(c, [conn[c] EXCEPT !.object = IF @ = "live" THEN "deleting" ELSE @])
<1>1. [conn[c] EXCEPT !.object = IF @ = "live" THEN "deleting" ELSE @] \in Connection
  BY ConnectionTyped DEF Connection, ConnState
<1>2. [conn[c] EXCEPT !.object = IF @ = "live" THEN "deleting" ELSE @].count >= conn[c].count
  BY ConnectionTyped, ParametersAssumption DEF Connection
<1>3. conn' = [conn EXCEPT ![c] = 
                    [conn[c] EXCEPT !.object = IF @ = "live" THEN "deleting" ELSE @]]
  BY ConnectionTyped DEF DeleteChild, Deleted
<1> QED BY <1>1, <1>2, <1>3, ConnectionTyped DEF Changes

LEMMA ChannelOpensChanges ==
    ASSUME TypeOK, NEW c \in Conn, ChannelOpens(c)
    PROVE  Changes(c, [conn[c] EXCEPT !.channel = "open"])
<1>1. [conn[c] EXCEPT !.channel = "open"] \in Connection
  BY ConnectionTyped DEF Connection, ConnState
<1>2. [conn[c] EXCEPT !.channel = "open"].count >= conn[c].count
  BY ConnectionTyped, ParametersAssumption DEF Connection
<1>3. conn' = [conn EXCEPT ![c] = [conn[c] EXCEPT !.channel = "open"]]
  BY ConnectionTyped DEF ChannelOpens
<1> QED BY <1>1, <1>2, <1>3, ConnectionTyped DEF Changes

LEMMA ChannelRefusedChanges ==
    ASSUME TypeOK, NEW c \in Conn, ChannelRefused(c)
    PROVE  Changes(c, [conn[c] EXCEPT !.channel = "closed"])
<1>1. [conn[c] EXCEPT !.channel = "closed"] \in Connection
  BY ConnectionTyped DEF Connection, ConnState
<1>2. [conn[c] EXCEPT !.channel = "closed"].count >= conn[c].count
  BY ConnectionTyped, ParametersAssumption DEF Connection
<1>3. conn' = [conn EXCEPT ![c] = [conn[c] EXCEPT !.channel = "closed"]]
  BY ConnectionTyped DEF ChannelRefused
<1> QED BY <1>1, <1>2, <1>3, ConnectionTyped DEF Changes

LEMMA CloseCompletesChanges ==
    ASSUME TypeOK, NEW c \in Conn, CloseCompletes(c)
    PROVE  Changes(c, [conn[c] EXCEPT !.state = "disconnected", !.channel = "closed"])
<1>1. [conn[c] EXCEPT !.state = "disconnected", !.channel = "closed"] \in Connection
  BY ConnectionTyped DEF Connection, ConnState
<1>2. [conn[c] EXCEPT !.state = "disconnected", !.channel = "closed"].count >= conn[c].count
  BY ConnectionTyped, ParametersAssumption DEF Connection
<1>3. conn' = [conn EXCEPT ![c] = 
                    [conn[c] EXCEPT !.state = "disconnected", !.channel = "closed"]]
  BY ConnectionTyped DEF CloseCompletes
<1> QED BY <1>1, <1>2, <1>3, ConnectionTyped DEF Changes

LEMMA AcceptChanges ==
    ASSUME TypeOK, NEW c \in Conn, Accept(c)
    PROVE  Changes(c, [conn[c] EXCEPT !.state = "connecting", !.entry = "linked",
                                      !.object = "live"])
<1>1. [conn[c] EXCEPT !.state = "connecting", !.entry = "linked", !.object = "live"]
          \in Connection
  BY ConnectionTyped DEF Connection, ConnState
<1>2. [conn[c] EXCEPT !.state = "connecting", !.entry = "linked", !.object = "live"].count
          >= conn[c].count
  BY ConnectionTyped, ParametersAssumption DEF Connection
<1>3. conn' = [conn EXCEPT ![c] = 
                    [conn[c] EXCEPT !.state = "connecting", !.entry = "linked",
                                    !.object = "live"]]
  BY ConnectionTyped DEF Accept
<1> QED BY <1>1, <1>2, <1>3, ConnectionTyped DEF Changes

LEMMA PeerDisconnectsChanges ==
    ASSUME TypeOK, NEW c \in Conn, PeerDisconnects(c)
    PROVE  Changes(c, [conn[c] EXCEPT !.channel = "dropped"])
<1>1. [conn[c] EXCEPT !.channel = "dropped"] \in Connection
  BY ConnectionTyped DEF Connection, ConnState
<1>2. [conn[c] EXCEPT !.channel = "dropped"].count >= conn[c].count
  BY ConnectionTyped, ParametersAssumption DEF Connection
<1>3. conn' = [conn EXCEPT ![c] = [conn[c] EXCEPT !.channel = "dropped"]]
  BY ConnectionTyped DEF PeerDisconnects
<1> QED BY <1>1, <1>2, <1>3, ConnectionTyped DEF Changes

-----------------------------------------------------------------------------
(* Thread k of connection c goes from one label to another, and no other   *)
(* thread moves.                                                           *)
Moves(c, k, from, to) ==
    /\ At(c, k) = from /\ At(c, k)' = to
    /\ \A d \in Conn, j \in Role :
           <<d, j>> # <<c, k>> => thread'[<<d, j>>] = thread[<<d, j>>]

LEMMA GotoMoves ==
    ASSUME TypeOK, NEW c \in Conn, NEW k \in Role, NEW from, NEW to, Goto(<<c, k>>, from, to)
    PROVE  /\ Moves(c, k, from, to)
           /\ thread'[<<c, k>>].i = thread[<<c, k>>].i
           /\ thread'[<<c, k>>].for = thread[<<c, k>>].for
BY Roles DEF Goto, TypeOK, Frame, Moves, At

LEMMA CallMoves ==
    ASSUME TypeOK, NEW c \in Conn, NEW k \in Role, NEW path, Call(<<c, k>>, path)
    PROVE  /\ Moves(c, k, At(c, k), "cancel")
           /\ thread'[<<c, k>>].i = 1
           /\ thread'[<<c, k>>].for = path
BY Roles DEF Call, TypeOK, Frame, Moves, At

(* What a step does to the life of the channels.                           *)
LifeRests == \A d \in Conn : Phase(d)' = Phase(d) /\ (Ending(d)' <=> Ending(d))

LifeMoves(c, from, to, ends) ==
    /\ Phase(c) = from /\ Phase(c)' = to /\ (Ending(c)' <=> ends)
    /\ \A d \in Conn \ {c} : Phase(d)' = Phase(d) /\ (Ending(d)' <=> Ending(d))

(* A step on connection c leaves the others as they are.                   *)
LEMMA OthersKeep ==
    ASSUME IInv, NEW c \in Conn,
           \A d \in Conn \ {c} : conn'[d] = conn[d],
           \A d \in Conn \ {c}, k \in Role : thread'[<<d, k>>] = thread[<<d, k>>],
           \A d \in Conn \ {c}, i \in 1 .. NumReaders :
               rpc[<<d, i>>] = "idle" => rpc'[<<d, i>>] = "idle",
           removal' = removal
    PROVE  \A d \in Conn \ {c} : Own(d)'
<1> SUFFICES ASSUME NEW d \in Conn \ {c} PROVE Own(d)'
  OBVIOUS
<1>1. Own(d)
  BY DEF IInv
<1>2. /\ conn'[d] = conn[d]
      /\ \A k \in Role : thread'[<<d, k>>] = thread[<<d, k>>]
      /\ \A i \in 1 .. NumReaders : rpc[<<d, i>>] = "idle" => rpc'[<<d, i>>] = "idle"
  OBVIOUS
<1>3. /\ \A k \in Role : At(d, k)' = At(d, k)
      /\ thread'[<<d, Opener>>].for = thread[<<d, Opener>>].for
  BY <1>2, Roles DEF At
<1> HIDE DEF At
<1>4. Opening(d)'
  BY <1>1, <1>2, <1>3, Roles DEF Own, Opening
<1>5. Answered(d)'
  BY <1>1, <1>2, <1>3, Roles DEF Own, Answered
<1>6. Commits(d)' /\ Closes(d)'
  BY <1>1, <1>2, <1>3, Roles DEF Own, Commits, Closes
<1>7. Pursued(d)' /\ Cleared(d)'
  BY <1>1, <1>2, <1>3, Roles DEF Own, Pursued, Cleared
<1>8. Listed(d)'
  BY <1>1, <1>2, <1>3, Roles DEF Own, Listed
<1> QED BY <1>4, <1>5, <1>6, <1>7, <1>8 DEF Own

(* What the invariant sees of the connection object of c.                  *)
SameObject(c) ==
    /\ conn'[c].state = conn[c].state /\ conn'[c].channel = conn[c].channel
    /\ conn'[c].discEvent = conn[c].discEvent /\ conn'[c].closes = conn[c].closes
    /\ conn'[c].unsent = conn[c].unsent /\ conn'[c].entry = conn[c].entry
    /\ conn'[c].object = conn[c].object

(* A thread moves between places that the invariant does not tell apart.   *)
Plain == {"init", "submit", "submitting", "cancel", "mark", "lock", "unlink", "done"}

PlainMove(c, k, from, to) ==
    /\ \/ from \in Plain
       \/ from = "off" /\ k \in 1 .. NumReaders /\ rpc[<<c, k>>] # "idle"
    /\ \/ to \in Plain
       \/ to = "off" /\ k \in 1 .. NumReaders

(* A late disconnect is not given up before the connection is gone.        *)
LateStays(c, k, from, to) ==
    k = Opener =>
        /\ thread'[<<c, k>>].for = "late" <=> thread[<<c, k>>].for = "late"
        /\ thread[<<c, k>>].for = "late" =>
               \/ from \in {"cancel", "mark"} /\ to \in {"cancel", "mark", "lock"}
               \/ from = "lock" /\ to = "done" /\ conn[c].state # "connected"

(* What else such a step leaves alone.                                     *)
RestStays(c, k) ==
    /\ SameObject(c)
    /\ \A d \in Conn \ {c} : conn'[d] = conn[d]
    /\ \A d \in Conn, i \in 1 .. NumReaders :
           rpc[<<d, i>>] = "idle" /\ ~(d = c /\ k = Opener) => rpc'[<<d, i>>] = "idle"
    /\ removal' = removal

(* Most steps of the threads are such moves.                               *)
LEMMA PlainStep ==
    ASSUME IInv, NEW c \in Conn, NEW k \in Role \ {Closer}, NEW from, NEW to,
           Moves(c, k, from, to), PlainMove(c, k, from, to), LateStays(c, k, from, to),
           RestStays(c, k)
    PROVE  (\A d \in Conn : Own(d)') /\ LifeRests
<1>1. Own(c)
  BY DEF IInv
<1>2. /\ At(c, k) = from /\ At(c, k)' = to
      /\ \A j \in Role \ {k} : At(c, j)' = At(c, j)
      /\ k # Opener => thread'[<<c, Opener>>].for = thread[<<c, Opener>>].for
  BY Roles DEF Moves, At
<1>3. Opener # Closer /\ Opener # Indicator /\ Opener # Remover /\ Remover # Closer
      /\ Opener \notin 1 .. NumReaders /\ Remover \notin 1 .. NumReaders
      /\ Remover # Indicator
  BY DEF Opener, Closer, Indicator, Remover
<1>4. At(c, Opener) \in Early <=> At(c, Opener)' \in Early
  <2>1. CASE k = Opener
    BY <1>2, <1>3, <2>1 DEF Plain, Early, PlainMove, At
  <2>2. CASE k # Opener
    BY <1>2, <2>2, Roles DEF At
  <2> QED BY <2>1, <2>2
<1> USE DEF SameObject, PlainMove, LateStays, RestStays
<1> HIDE DEF At
<1>5. Opening(c)'
  BY <1>1, <1>2, <1>3, <1>4, Roles DEF Own, Opening, Plain, Early
<1>6. Answered(c)'
  BY <1>1, <1>2, <1>3, <1>4, Roles DEF Own, Answered, Plain, Early
<1>7. Commits(c)' /\ Closes(c)'
  BY <1>1, <1>2, <1>3, <1>4, Roles DEF Own, Commits, Closes, Plain, Committed
<1>8. Pursued(c)'
  BY <1>1, <1>2, <1>3, <1>4, Roles DEF Own, Pursued, Plain, Committed
<1>9. Cleared(c)'
  BY <1>1, <1>2, <1>3, <1>4, Roles DEF Own, Cleared, Plain
<1>10. Listed(c)'
  BY <1>1, <1>2, <1>3, <1>4, Roles DEF Own, Listed, Plain
<1>11. \A d \in Conn \ {c} : Own(d)'
  BY Roles, OthersKeep DEF Moves, RestStays
<1>12. LifeRests
  <2>1. \A d \in Conn :
            /\ conn'[d].state = conn[d].state /\ conn'[d].channel = conn[d].channel
            /\ thread'[<<d, Opener>>].for = "late" <=> thread[<<d, Opener>>].for = "late"
    BY <1>2, Roles DEF Moves
  <2> QED BY <2>1 DEF LifeRests, Phase, Ending
<1> QED BY <1>5, <1>6, <1>7, <1>8, <1>9, <1>10, <1>11, <1>12 DEF Own

-----------------------------------------------------------------------------
(* The other steps, one lemma each: what is said of the connection holds   *)
(* afterwards, of all connections, and the life of the channel has made one*)
(* of its steps or rested.                                                 *)
LEMMA AcceptKeeps ==
    ASSUME IInv, NEW c \in Conn, Accept(c)
    PROVE  /\ \A d \in Conn : Own(d)'
           /\ LifeRests
<1> TypeOK /\ Own(c)
  BY DEF IInv
<1>1. removal = "no" /\ Moves(c, Opener, "off", "respond")
  BY Roles, GotoMoves DEF Accept
<1>2. thread'[<<c, Opener>>].for = thread[<<c, Opener>>].for
  BY Roles, GotoMoves DEF Accept
<1>3. /\ conn'[c].state = "connecting" /\ conn'[c].entry = "linked"
      /\ conn'[c].object = "live"
      /\ conn'[c].channel = conn[c].channel /\ conn'[c].discEvent = conn[c].discEvent
      /\ conn'[c].closes = conn[c].closes /\ conn'[c].unsent = conn[c].unsent
      /\ \A d \in Conn \ {c} : conn'[d] = conn[d]
  <2>1. /\ conn'[c] = [conn[c] EXCEPT !.state = "connecting", !.entry = "linked",
                                     !.object = "live"]
        /\ \A d \in Conn \ {c} : conn'[d] = conn[d]
    BY AcceptChanges DEF Changes
  <2> QED BY <2>1, ConnectionTyped DEF Connection
<1>4. rpc' = rpc /\ removal' = removal
  BY DEF Accept, readers
<1>5. /\ At(c, Opener) = "off"
      /\ At(c, Opener)' = "respond"
      /\ \A j \in Role \ {Opener} : At(c, j)' = At(c, j)
  BY <1>1, <1>2, Roles DEF Moves, At, Own, Closes, Opener, Indicator, Remover, Closer
<1> HIDE DEF At
<1>6. Opening(c)'
  BY <1>1, <1>2, <1>3, <1>4, <1>5, Roles
     DEF Own, Opening, Early, Opener, Indicator, Remover, Closer
<1>7. Answered(c)'
  BY <1>1, <1>2, <1>3, <1>4, <1>5, Roles DEF Own, Answered, Early, Committed
<1>8. Commits(c)'
  BY <1>1, <1>2, <1>3, <1>4, <1>5, Roles DEF Own, Commits, Early, Committed
<1>9. Closes(c)'
  BY <1>1, <1>2, <1>3, <1>4, <1>5, Roles
     DEF Own, Closes, Early, Opener, Indicator, Remover, Closer
<1>10. Pursued(c)'
  BY <1>1, <1>2, <1>3, <1>4, <1>5, Roles DEF Own, Pursued
<1>11. Cleared(c)'
  BY <1>1, <1>2, <1>3, <1>4, <1>5, Roles DEF Own, Cleared, Opening, Early, Committed
<1>12. Listed(c)'
  BY <1>1, <1>2, <1>3, <1>4, <1>5, Roles DEF Own, Listed
<1>13. \A d \in Conn \ {c} : Own(d)'
  BY <1>1, <1>2, <1>3, <1>4, Roles, OthersKeep DEF Moves
<1>14. LifeRests
  BY <1>1, <1>2, <1>3, <1>4, <1>5, Roles
     DEF Own, Opening, Answered, Commits, Closes, Early, Committed, Opener, Indicator,
         Remover, Closer, Phase, Ending, At, Moves, LifeRests, LifeMoves
<1> QED BY <1>6, <1>7, <1>8, <1>9, <1>10, <1>11, <1>12, <1>13, <1>14 DEF Own

LEMMA SendResponseKeeps ==
    ASSUME IInv, NEW c \in Conn, SendResponse(c)
    PROVE  /\ \A d \in Conn : Own(d)'
           /\ LifeMoves(c, "idle", "opening", Ending(c))
<1> TypeOK /\ Own(c)
  BY DEF IInv
<1>1. Moves(c, Opener, "respond", "opening")
  BY Roles, GotoMoves DEF SendResponse
<1>2. thread'[<<c, Opener>>].for = thread[<<c, Opener>>].for
  BY Roles, GotoMoves DEF SendResponse
<1>3. /\ conn'[c].channel = "opening"
      /\ conn'[c].state = conn[c].state /\ conn'[c].discEvent = conn[c].discEvent
      /\ conn'[c].closes = conn[c].closes /\ conn'[c].unsent = conn[c].unsent
      /\ conn'[c].entry = conn[c].entry /\ conn'[c].object = conn[c].object
      /\ \A d \in Conn \ {c} : conn'[d] = conn[d]
  <2>1. /\ conn'[c] = [conn[c] EXCEPT !.channel = "opening"]
        /\ \A d \in Conn \ {c} : conn'[d] = conn[d]
    BY SendResponseChanges DEF Changes
  <2> QED BY <2>1, ConnectionTyped DEF Connection
<1>4. rpc' = rpc /\ removal' = removal
  BY DEF SendResponse, readers
<1>5. /\ At(c, Opener) = "respond"
      /\ At(c, Opener)' = ("opening")
      /\ \A j \in Role \ {Opener} : At(c, j)' = At(c, j)
  BY <1>1, <1>2, Roles DEF Moves, At, Own, Closes, Opener, Indicator, Remover, Closer
<1> HIDE DEF At
<1>6. Opening(c)'
  BY <1>1, <1>2, <1>3, <1>4, <1>5, Roles DEF Own, Opening, Early
<1>7. Answered(c)'
  BY <1>1, <1>2, <1>3, <1>4, <1>5, Roles DEF Own, Answered, Opening, Early, Committed
<1>8. Commits(c)'
  BY <1>1, <1>2, <1>3, <1>4, <1>5, Roles DEF Own, Commits, Early, Committed
<1>9. Closes(c)'
  BY <1>1, <1>2, <1>3, <1>4, <1>5, Roles DEF Own, Closes, Early
<1>10. Pursued(c)'
  BY <1>1, <1>2, <1>3, <1>4, <1>5, Roles DEF Own, Pursued, Early
<1>11. Cleared(c)'
  BY <1>1, <1>2, <1>3, <1>4, <1>5, Roles DEF Own, Cleared
<1>12. Listed(c)'
  BY <1>1, <1>2, <1>3, <1>4, <1>5, Roles DEF Own, Listed
<1>13. \A d \in Conn \ {c} : Own(d)'
  BY <1>1, <1>2, <1>3, <1>4, Roles, OthersKeep DEF Moves
<1>14. LifeMoves(c, "idle", "opening", Ending(c))
  BY <1>1, <1>2, <1>3, <1>4, <1>5, Roles
     DEF Own, Opening, Answered, Commits, Closes, Early, Committed, Opener, Indicator,
         Remover, Closer, Phase, Ending, At, Moves, LifeRests, LifeMoves
<1> QED BY <1>6, <1>7, <1>8, <1>9, <1>10, <1>11, <1>12, <1>13, <1>14 DEF Own

LEMMA ResponseNotSentKeeps ==
    ASSUME IInv, NEW c \in Conn, ResponseNotSent(c)
    PROVE  /\ \A d \in Conn : Own(d)'
           /\ LifeRests
<1> TypeOK /\ Own(c)
  BY DEF IInv
<1>1. Moves(c, Opener, "respond", "unlink")
  BY Roles, GotoMoves DEF ResponseNotSent
<1>2. thread'[<<c, Opener>>].for = thread[<<c, Opener>>].for
  BY Roles, GotoMoves DEF ResponseNotSent
<1>3. /\ conn'[c].state = "connectFailed"
      /\ conn'[c].channel = conn[c].channel /\ conn'[c].discEvent = conn[c].discEvent
      /\ conn'[c].closes = conn[c].closes /\ conn'[c].unsent = conn[c].unsent
      /\ conn'[c].entry = conn[c].entry /\ conn'[c].object = conn[c].object
      /\ \A d \in Conn \ {c} : conn'[d] = conn[d]
  <2>1. /\ conn'[c] = [conn[c] EXCEPT !.state = "connectFailed"]
        /\ \A d \in Conn \ {c} : conn'[d] = conn[d]
    BY ResponseNotSentChanges DEF Changes
  <2> QED BY <2>1, ConnectionTyped DEF Connection
<1>4. rpc' = rpc /\ removal' = removal
  BY DEF ResponseNotSent, readers
<1>5. /\ At(c, Opener) = "respond"
      /\ At(c, Opener)' = ("unlink")
      /\ \A j \in Role \ {Opener} : At(c, j)' = At(c, j)
  BY <1>1, <1>2, Roles DEF Moves, At, Own, Closes, Opener, Indicator, Remover, Closer
<1> HIDE DEF At
<1>6. Opening(c)'
  BY <1>1, <1>2, <1>3, <1>4, <1>5, Roles DEF Own, Opening, Early
<1>7. Answered(c)'
  BY <1>1, <1>2, <1>3, <1>4, <1>5, Roles DEF Own, Answered, Committed
<1>8. Commits(c)'
  BY <1>1, <1>2, <1>3, <1>4, <1>5, Roles DEF Own, Commits, Early, Committed
<1>9. Closes(c)'
  BY <1>1, <1>2, <1>3, <1>4, <1>5, Roles DEF Own, Closes, Early
<1>10. Pursued(c)'
  BY <1>1, <1>2, <1>3, <1>4, <1>5, Roles DEF Own, Pursued
<1>11. Cleared(c)'
  BY <1>1, <1>2, <1>3, <1>4, <1>5, Roles DEF Own, Cleared, Opening, Early, Committed
<1>12. Listed(c)'
  BY <1>1, <1>2, <1>3, <1>4, <1>5, Roles DEF Own, Listed
<1>13. \A d \in Conn \ {c} : Own(d)'
  BY <1>1, <1>2, <1>3, <1>4, Roles, OthersKeep DEF Moves
<1>14. LifeRests
  BY <1>1, <1>2, <1>3, <1>4, <1>5, Roles
     DEF Own, Opening, Answered, Commits, Closes, Early, Committed, Opener, Indicator,
         Remover, Closer, Phase, Ending, At, Moves, LifeRests, LifeMoves
<1> QED BY <1>6, <1>7, <1>8, <1>9, <1>10, <1>11, <1>12, <1>13, <1>14 DEF Own

LEMMA ChannelOpensKeeps ==
    ASSUME IInv, NEW c \in Conn, ChannelOpens(c)
    PROVE  /\ \A d \in Conn : Own(d)'
           /\ LifeMoves(c, "opening", "open", Ending(c))
<1> TypeOK /\ Own(c)
  BY DEF IInv
<1>1. Moves(c, Opener, "opening", "opened")
  BY Roles, GotoMoves DEF ChannelOpens
<1>2. thread'[<<c, Opener>>].for = thread[<<c, Opener>>].for
  BY Roles, GotoMoves DEF ChannelOpens
<1>3. /\ conn'[c].channel = "open"
      /\ conn'[c].state = conn[c].state /\ conn'[c].discEvent = conn[c].discEvent
      /\ conn'[c].closes = conn[c].closes /\ conn'[c].unsent = conn[c].unsent
      /\ conn'[c].entry = conn[c].entry /\ conn'[c].object = conn[c].object
      /\ \A d \in Conn \ {c} : conn'[d] = conn[d]
  <2>1. /\ conn'[c] = [conn[c] EXCEPT !.channel = "open"]
        /\ \A d \in Conn \ {c} : conn'[d] = conn[d]
    BY ChannelOpensChanges DEF Changes
  <2> QED BY <2>1, ConnectionTyped DEF Connection
<1>4. rpc' = rpc /\ removal' = removal
  BY DEF ChannelOpens, readers
<1>5. /\ At(c, Opener) = "opening"
      /\ At(c, Opener)' = ("opened")
      /\ \A j \in Role \ {Opener} : At(c, j)' = At(c, j)
  BY <1>1, <1>2, Roles DEF Moves, At, Own, Closes, Opener, Indicator, Remover, Closer
<1> HIDE DEF At
<1>6. Opening(c)'
  BY <1>1, <1>2, <1>3, <1>4, <1>5, Roles DEF Own, Opening, Early
<1>7. Answered(c)'
  BY <1>1, <1>2, <1>3, <1>4, <1>5, Roles DEF Own, Answered, Early, Committed
<1>8. Commits(c)'
  BY <1>1, <1>2, <1>3, <1>4, <1>5, Roles DEF Own, Commits, Early, Committed
<1>9. Closes(c)'
  BY <1>1, <1>2, <1>3, <1>4, <1>5, Roles DEF Own, Closes, Early
<1>10. Pursued(c)'
  BY <1>1, <1>2, <1>3, <1>4, <1>5, Roles DEF Own, Pursued, Early
<1>11. Cleared(c)'
  BY <1>1, <1>2, <1>3, <1>4, <1>5, Roles DEF Own, Cleared
<1>12. Listed(c)'
  BY <1>1, <1>2, <1>3, <1>4, <1>5, Roles DEF Own, Listed
<1>13. \A d \in Conn \ {c} : Own(d)'
  BY <1>1, <1>2, <1>3, <1>4, Roles, OthersKeep DEF Moves
<1>14. LifeMoves(c, "opening", "open", Ending(c))
  BY <1>1, <1>2, <1>3, <1>4, <1>5, Roles
     DEF Own, Opening, Answered, Commits, Closes, Early, Committed, Opener, Indicator,
         Remover, Closer, Phase, Ending, At, Moves, LifeRests, LifeMoves
<1> QED BY <1>6, <1>7, <1>8, <1>9, <1>10, <1>11, <1>12, <1>13, <1>14 DEF Own

LEMMA ChannelRefusedKeeps ==
    ASSUME IInv, NEW c \in Conn, ChannelRefused(c)
    PROVE  /\ \A d \in Conn : Own(d)'
           /\ LifeMoves(c, "opening", "closed", TRUE)
<1> TypeOK /\ Own(c)
  BY DEF IInv
<1>1. Moves(c, Opener, "opening", "refused")
  BY Roles, GotoMoves DEF ChannelRefused
<1>2. thread'[<<c, Opener>>].for = thread[<<c, Opener>>].for
  BY Roles, GotoMoves DEF ChannelRefused
<1>3. /\ conn'[c].channel = "closed"
      /\ conn'[c].state = conn[c].state /\ conn'[c].discEvent = conn[c].discEvent
      /\ conn'[c].closes = conn[c].closes /\ conn'[c].unsent = conn[c].unsent
      /\ conn'[c].entry = conn[c].entry /\ conn'[c].object = conn[c].object
      /\ \A d \in Conn \ {c} : conn'[d] = conn[d]
  <2>1. /\ conn'[c] = [conn[c] EXCEPT !.channel = "closed"]
        /\ \A d \in Conn \ {c} : conn'[d] = conn[d]
    BY ChannelRefusedChanges DEF Changes
  <2> QED BY <2>1, ConnectionTyped DEF Connection
<1>4. rpc' = rpc /\ removal' = removal
  BY DEF ChannelRefused, readers
<1>5. /\ At(c, Opener) = "opening"
      /\ At(c, Opener)' = ("refused")
      /\ \A j \in Role \ {Opener} : At(c, j)' = At(c, j)
  BY <1>1, <1>2, Roles DEF Moves, At, Own, Closes, Opener, Indicator, Remover, Closer
<1> HIDE DEF At
<1>6. Opening(c)'
  BY <1>1, <1>2, <1>3, <1>4, <1>5, Roles DEF Own, Opening, Early
<1>7. Answered(c)'
  BY <1>1, <1>2, <1>3, <1>4, <1>5, Roles DEF Own, Answered, Early, Committed
<1>8. Commits(c)'
  BY <1>1, <1>2, <1>3, <1>4, <1>5, Roles DEF Own, Commits, Early, Committed
<1>9. Closes(c)'
  BY <1>1, <1>2, <1>3, <1>4, <1>5, Roles DEF Own, Closes, Early
<1>10. Pursued(c)'
  BY <1>1, <1>2, <1>3, <1>4, <1>5, Roles DEF Own, Pursued, Early
<1>11. Cleared(c)'
  BY <1>1, <1>2, <1>3, <1>4, <1>5, Roles DEF Own, Cleared
<1>12. Listed(c)'
  BY <1>1, <1>2, <1>3, <1>4, <1>5, Roles DEF Own, Listed
<1>13. \A d \in Conn \ {c} : Own(d)'
  BY <1>1, <1>2, <1>3, <1>4, Roles, OthersKeep DEF Moves
<1>14. LifeMoves(c, "opening", "closed", TRUE)
  BY <1>1, <1>2, <1>3, <1>4, <1>5, Roles
     DEF Own, Opening, Answered, Commits, Closes, Early, Committed, Opener, Indicator,
         Remover, Closer, Phase, Ending, At, Moves, LifeRests, LifeMoves
<1> QED BY <1>6, <1>7, <1>8, <1>9, <1>10, <1>11, <1>12, <1>13, <1>14 DEF Own

LEMMA OpenedKeeps ==
    ASSUME IInv, NEW c \in Conn, Opened(c)
    PROVE  /\ \A d \in Conn : Own(d)'
           /\ LifeRests
<1> TypeOK /\ Own(c)
  BY DEF IInv
<1>1. /\ Moves(c, Opener, "opened",
               IF conn[c].state = "disconnecting" THEN "cancel" ELSE "init")
      /\ IF conn[c].state = "disconnecting"
         THEN thread'[<<c, Opener>>].for = "late"
         ELSE thread'[<<c, Opener>>].for = thread[<<c, Opener>>].for
  BY Roles, GotoMoves, CallMoves DEF Opened, At
<1>2. /\ conn'[c].state = "connected"
      /\ conn'[c].channel = conn[c].channel /\ conn'[c].discEvent = conn[c].discEvent
      /\ conn'[c].closes = conn[c].closes /\ conn'[c].unsent = conn[c].unsent
      /\ conn'[c].entry = conn[c].entry /\ conn'[c].object = conn[c].object
      /\ \A d \in Conn \ {c} : conn'[d] = conn[d]
  <2>1. /\ conn'[c] = [conn[c] EXCEPT !.state = "connected"]
        /\ \A d \in Conn \ {c} : conn'[d] = conn[d]
    BY OpenedChanges DEF Changes
  <2> QED BY <2>1, ConnectionTyped DEF Connection
<1>3. rpc' = rpc /\ removal' = removal
  BY DEF Opened, readers
<1>4. /\ At(c, Opener) = "opened"
      /\ At(c, Opener)' = (IF conn[c].state = "disconnecting" THEN "cancel" ELSE "init")
      /\ \A j \in Role \ {Opener} : At(c, j)' = At(c, j)
  BY <1>1, Roles DEF Moves, At, Own, Closes, Opener, Indicator, Remover, Closer
<1> HIDE DEF At
<1>5. Opening(c)'
  BY <1>1, <1>2, <1>3, <1>4, Roles DEF Own, Opening, Early
<1>6. Answered(c)'
  BY <1>1, <1>2, <1>3, <1>4, Roles DEF Own, Answered, Committed
<1>7. Commits(c)'
  BY <1>1, <1>2, <1>3, <1>4, Roles DEF Own, Commits, Early, Committed
<1>8. Closes(c)'
  BY <1>1, <1>2, <1>3, <1>4, Roles DEF Own, Closes, Early
<1>9. Pursued(c)'
  BY <1>1, <1>2, <1>3, <1>4, Roles DEF Own, Pursued
<1>10. Cleared(c)'
  BY <1>1, <1>2, <1>3, <1>4, Roles DEF Own, Cleared
<1>11. Listed(c)'
  BY <1>1, <1>2, <1>3, <1>4, Roles DEF Own, Listed
<1>12. \A d \in Conn \ {c} : Own(d)'
  BY <1>1, <1>2, <1>3, Roles, OthersKeep DEF Moves
<1>13. LifeRests
  BY <1>1, <1>2, <1>3, <1>4, Roles
     DEF Own, Opening, Answered, Commits, Closes, Early, Committed, Opener, Indicator,
         Remover, Closer, Phase, Ending, At, Moves, LifeRests, LifeMoves
<1> QED BY <1>5, <1>6, <1>7, <1>8, <1>9, <1>10, <1>11, <1>12, <1>13 DEF Own

LEMMA RefusedKeeps ==
    ASSUME IInv, NEW c \in Conn, Refused(c)
    PROVE  /\ \A d \in Conn : Own(d)'
           /\ LifeRests
<1> TypeOK /\ Own(c)
  BY DEF IInv
<1>1. Moves(c, Opener, "refused", IF conn[c].state = "disconnecting" THEN "wake" ELSE
       "unlink")
  BY Roles, GotoMoves DEF Refused
<1>2. thread'[<<c, Opener>>].for = thread[<<c, Opener>>].for
  BY Roles, GotoMoves DEF Refused
<1>3. /\ conn'[c].state = "connectFailed"
      /\ conn'[c].channel = conn[c].channel /\ conn'[c].discEvent = conn[c].discEvent
      /\ conn'[c].closes = conn[c].closes /\ conn'[c].unsent = conn[c].unsent
      /\ conn'[c].entry = conn[c].entry /\ conn'[c].object = conn[c].object
      /\ \A d \in Conn \ {c} : conn'[d] = conn[d]
  <2>1. /\ conn'[c] = [conn[c] EXCEPT !.state = "connectFailed"]
        /\ \A d \in Conn \ {c} : conn'[d] = conn[d]
    BY RefusedChanges DEF Changes
  <2> QED BY <2>1, ConnectionTyped DEF Connection
<1>4. rpc' = rpc /\ removal' = removal
  BY DEF Refused, readers
<1>5. /\ At(c, Opener) = "refused"
      /\ At(c, Opener)' = (IF conn[c].state = "disconnecting" THEN "wake" ELSE "unlink")
      /\ \A j \in Role \ {Opener} : At(c, j)' = At(c, j)
  BY <1>1, <1>2, Roles DEF Moves, At, Own, Closes, Opener, Indicator, Remover, Closer
<1> HIDE DEF At
<1>6. Opening(c)'
  BY <1>1, <1>2, <1>3, <1>4, <1>5, Roles DEF Own, Opening, Early
<1>7. Answered(c)'
  BY <1>1, <1>2, <1>3, <1>4, <1>5, Roles DEF Own, Answered, Committed
<1>8. Commits(c)'
  BY <1>1, <1>2, <1>3, <1>4, <1>5, Roles DEF Own, Commits, Early, Committed
<1>9. Closes(c)'
  BY <1>1, <1>2, <1>3, <1>4, <1>5, Roles DEF Own, Closes, Early
<1>10. Pursued(c)'
  BY <1>1, <1>2, <1>3, <1>4, <1>5, Roles DEF Own, Pursued
<1>11. Cleared(c)'
  BY <1>1, <1>2, <1>3, <1>4, <1>5, Roles DEF Own, Cleared
<1>12. Listed(c)'
  BY <1>1, <1>2, <1>3, <1>4, <1>5, Roles DEF Own, Listed
<1>13. \A d \in Conn \ {c} : Own(d)'
  BY <1>1, <1>2, <1>3, <1>4, Roles, OthersKeep DEF Moves
<1>14. LifeRests
  BY <1>1, <1>2, <1>3, <1>4, <1>5, Roles
     DEF Own, Opening, Answered, Commits, Closes, Early, Committed, Opener, Indicator,
         Remover, Closer, Phase, Ending, At, Moves, LifeRests, LifeMoves
<1> QED BY <1>6, <1>7, <1>8, <1>9, <1>10, <1>11, <1>12, <1>13, <1>14 DEF Own

LEMMA DisconnectWhileConnectingKeeps ==
    ASSUME IInv, NEW c \in Conn, NEW k \in Role, DisconnectWhileConnecting(<<c, k>>)
    PROVE  /\ \A d \in Conn : Own(d)'
           /\ LifeMoves(c, Phase(c), Phase(c), TRUE) /\ (Phase(c) = "closed" => Ending(c))
<1> TypeOK /\ Own(c)
  BY DEF IInv
<1>1. conn[c].state = "connecting" /\ Moves(c, k, "lock", AfterDisconnect(<<c, k>>, TRUE))
  BY Roles, GotoMoves DEF DisconnectWhileConnecting
<1>2. thread'[<<c, k>>].for = thread[<<c, k>>].for
  BY Roles, GotoMoves DEF DisconnectWhileConnecting
<1>3. /\ conn'[c].state = "disconnecting" /\ conn'[c].discEvent = FALSE
      /\ conn'[c].channel = conn[c].channel /\ conn'[c].closes = conn[c].closes
      /\ conn'[c].unsent = conn[c].unsent /\ conn'[c].entry = conn[c].entry
      /\ conn'[c].object = conn[c].object
      /\ \A d \in Conn \ {c} : conn'[d] = conn[d]
  <2>1. /\ conn'[c] = [conn[c] EXCEPT !.state = "disconnecting", !.discEvent = FALSE]
        /\ \A d \in Conn \ {c} : conn'[d] = conn[d]
    BY DisconnectWhileConnectingChanges DEF Changes
  <2> QED BY <2>1, ConnectionTyped DEF Connection
<1>4. rpc' = rpc /\ removal' = removal
  BY DEF DisconnectWhileConnecting, readers
<1>5. /\ At(c, k) = "lock" /\ At(c, k)' = (AfterDisconnect(<<c, k>>, TRUE))
      /\ \A j \in Role \ {k} : At(c, j)' = At(c, j)
      /\ k # Closer
      /\ thread'[<<c, Opener>>].for = thread[<<c, Opener>>].for
  BY <1>1, <1>2, Roles DEF Moves, At, Own, Closes, Opener, Indicator, Remover, Closer
<1> HIDE DEF At
<1>6. Opening(c)'
  BY <1>1, <1>2, <1>3, <1>4, <1>5, Roles DEF Own, Opening, Early, AfterDisconnect
<1>7. Answered(c)'
  BY <1>1, <1>2, <1>3, <1>4, <1>5, Roles DEF Own, Answered, AfterDisconnect
<1>8. Commits(c)'
  BY <1>1, <1>2, <1>3, <1>4, <1>5, Roles DEF Own, Commits, Committed, AfterDisconnect
<1>9. Closes(c)'
  BY <1>1, <1>2, <1>3, <1>4, <1>5, Roles DEF Own, Closes, AfterDisconnect
<1>10. Pursued(c)'
  BY <1>1, <1>2, <1>3, <1>4, <1>5, Roles
     DEF Own, Pursued, Answered, Early, Committed, AfterDisconnect
<1>11. Cleared(c)'
  BY <1>1, <1>2, <1>3, <1>4, <1>5, Roles DEF Own, Cleared, AfterDisconnect
<1>12. Listed(c)'
  BY <1>1, <1>2, <1>3, <1>4, <1>5, Roles DEF Own, Listed, AfterDisconnect
<1>13. \A d \in Conn \ {c} : Own(d)'
  BY <1>1, <1>2, <1>3, <1>4, Roles, OthersKeep DEF Moves
<1>14. LifeMoves(c, Phase(c), Phase(c), TRUE) /\ (Phase(c) = "closed" => Ending(c))
  BY <1>1, <1>2, <1>3, <1>4, <1>5, Roles
     DEF Own, Opening, Answered, Commits, Closes, Early, Committed, Opener, Indicator,
         Remover, Closer, Phase, Ending, At, Moves, LifeRests, LifeMoves
<1> QED BY <1>6, <1>7, <1>8, <1>9, <1>10, <1>11, <1>12, <1>13, <1>14 DEF Own

LEMMA DisconnectBeginsKeeps ==
    ASSUME IInv, NEW c \in Conn, NEW k \in Role, DisconnectBegins(<<c, k>>)
    PROVE  /\ \A d \in Conn : Own(d)'
           /\ LifeMoves(c, Phase(c), Phase(c), TRUE) /\ (Phase(c) = "closed" => Ending(c))
<1> TypeOK /\ Own(c)
  BY DEF IInv
<1>1. conn[c].state = "connected" /\ Moves(c, k, "lock", "clear")
  BY Roles, GotoMoves DEF DisconnectBegins
<1>2. thread'[<<c, k>>].for = thread[<<c, k>>].for
  BY Roles, GotoMoves DEF DisconnectBegins
<1>3. /\ conn'[c].state = "disconnecting"
      /\ conn'[c].channel = conn[c].channel /\ conn'[c].discEvent = conn[c].discEvent
      /\ conn'[c].closes = conn[c].closes /\ conn'[c].unsent = conn[c].unsent
      /\ conn'[c].entry = conn[c].entry /\ conn'[c].object = conn[c].object
      /\ \A d \in Conn \ {c} : conn'[d] = conn[d]
  <2>1. /\ conn'[c] = [conn[c] EXCEPT !.state = "disconnecting"]
        /\ \A d \in Conn \ {c} : conn'[d] = conn[d]
    BY DisconnectBeginsChanges DEF Changes
  <2> QED BY <2>1, ConnectionTyped DEF Connection
<1>4. rpc' = rpc /\ removal' = removal
  BY DEF DisconnectBegins, readers
<1>5. /\ At(c, k) = "lock" /\ At(c, k)' = ("clear")
      /\ \A j \in Role \ {k} : At(c, j)' = At(c, j)
      /\ k # Closer
      /\ thread'[<<c, Opener>>].for = thread[<<c, Opener>>].for
  BY <1>1, <1>2, Roles DEF Moves, At, Own, Closes, Opener, Indicator, Remover, Closer
<1> HIDE DEF At
<1>6. Opening(c)'
  BY <1>1, <1>2, <1>3, <1>4, <1>5, Roles DEF Own, Opening, Early
<1>7. Answered(c)'
  BY <1>1, <1>2, <1>3, <1>4, <1>5, Roles DEF Own, Answered, Committed
<1>8. Commits(c)'
  BY <1>1, <1>2, <1>3, <1>4, <1>5, Roles
     DEF Own, Opening, Answered, Commits, Closes, Pursued, Cleared, Listed, Early,
         Committed, Opener, Indicator, Remover, Closer
<1>9. Closes(c)'
  BY <1>1, <1>2, <1>3, <1>4, <1>5, Roles DEF Own, Closes
<1>10. Pursued(c)'
  BY <1>1, <1>2, <1>3, <1>4, <1>5, Roles DEF Own, Pursued, Committed
<1>11. Cleared(c)'
  BY <1>1, <1>2, <1>3, <1>4, <1>5, Roles DEF Own, Cleared
<1>12. Listed(c)'
  BY <1>1, <1>2, <1>3, <1>4, <1>5, Roles DEF Own, Listed
<1>13. \A d \in Conn \ {c} : Own(d)'
  BY <1>1, <1>2, <1>3, <1>4, Roles, OthersKeep DEF Moves
<1>14. LifeMoves(c, Phase(c), Phase(c), TRUE) /\ (Phase(c) = "closed" => Ending(c))
  BY <1>1, <1>2, <1>3, <1>4, <1>5, Roles
     DEF Own, Opening, Answered, Commits, Closes, Early, Committed, Opener, Indicator,
         Remover, Closer, Phase, Ending, At, Moves, LifeRests, LifeMoves
<1> QED BY <1>6, <1>7, <1>8, <1>9, <1>10, <1>11, <1>12, <1>13, <1>14 DEF Own

LEMMA ClearDisconnectEventKeeps ==
    ASSUME IInv, NEW c \in Conn, NEW k \in Role, ClearDisconnectEvent(<<c, k>>)
    PROVE  /\ \A d \in Conn : Own(d)'
           /\ LifeRests
<1> TypeOK /\ Own(c)
  BY DEF IInv
<1>1. Moves(c, k, "clear", "close")
  BY Roles, GotoMoves DEF ClearDisconnectEvent
<1>2. thread'[<<c, k>>].for = thread[<<c, k>>].for
  BY Roles, GotoMoves DEF ClearDisconnectEvent
<1>3. /\ conn'[c].discEvent = FALSE
      /\ conn'[c].state = conn[c].state /\ conn'[c].channel = conn[c].channel
      /\ conn'[c].closes = conn[c].closes /\ conn'[c].unsent = conn[c].unsent
      /\ conn'[c].entry = conn[c].entry /\ conn'[c].object = conn[c].object
      /\ \A d \in Conn \ {c} : conn'[d] = conn[d]
  <2>1. /\ conn'[c] = [conn[c] EXCEPT !.discEvent = FALSE]
        /\ \A d \in Conn \ {c} : conn'[d] = conn[d]
    BY ClearDisconnectEventChanges DEF Changes
  <2> QED BY <2>1, ConnectionTyped DEF Connection
<1>4. rpc' = rpc /\ removal' = removal
  BY DEF ClearDisconnectEvent, readers
<1>5. /\ At(c, k) = "clear" /\ At(c, k)' = ("close")
      /\ \A j \in Role \ {k} : At(c, j)' = At(c, j)
      /\ k # Closer
      /\ thread'[<<c, Opener>>].for = thread[<<c, Opener>>].for
  BY <1>1, <1>2, Roles DEF Moves, At, Own, Closes, Opener, Indicator, Remover, Closer
<1> HIDE DEF At
<1>6. Opening(c)'
  BY <1>1, <1>2, <1>3, <1>4, <1>5, Roles DEF Own, Opening, Early
<1>7. Answered(c)'
  BY <1>1, <1>2, <1>3, <1>4, <1>5, Roles DEF Own, Answered, Early, Committed
<1>8. Commits(c)'
  BY <1>1, <1>2, <1>3, <1>4, <1>5, Roles DEF Own, Commits, Early, Committed
<1>9. Closes(c)'
  BY <1>1, <1>2, <1>3, <1>4, <1>5, Roles DEF Own, Closes, Early
<1>10. Pursued(c)'
  BY <1>1, <1>2, <1>3, <1>4, <1>5, Roles DEF Own, Pursued, Committed
<1>11. Cleared(c)'
  BY <1>1, <1>2, <1>3, <1>4, <1>5, Roles DEF Own, Cleared, Commits, Early, Committed
<1>12. Listed(c)'
  BY <1>1, <1>2, <1>3, <1>4, <1>5, Roles DEF Own, Listed
<1>13. \A d \in Conn \ {c} : Own(d)'
  BY <1>1, <1>2, <1>3, <1>4, Roles, OthersKeep DEF Moves
<1>14. LifeRests
  BY <1>1, <1>2, <1>3, <1>4, <1>5, Roles
     DEF Own, Opening, Answered, Commits, Closes, Early, Committed, Opener, Indicator,
         Remover, Closer, Phase, Ending, At, Moves, LifeRests, LifeMoves
<1> QED BY <1>6, <1>7, <1>8, <1>9, <1>10, <1>11, <1>12, <1>13, <1>14 DEF Own

LEMMA CloseNotSentKeeps ==
    ASSUME IInv, NEW c \in Conn, NEW k \in Role, CloseNotSent(<<c, k>>)
    PROVE  /\ \A d \in Conn : Own(d)'
           /\ LifeRests
<1> TypeOK /\ Own(c)
  BY DEF IInv
<1>1. Moves(c, k, "close", AfterDisconnect(<<c, k>>, TRUE))
  BY Roles, GotoMoves DEF CloseNotSent
<1>2. thread'[<<c, k>>].for = thread[<<c, k>>].for
  BY Roles, GotoMoves DEF CloseNotSent
<1>3. /\ conn'[c].unsent = TRUE
      /\ conn'[c].state = conn[c].state /\ conn'[c].channel = conn[c].channel
      /\ conn'[c].discEvent = conn[c].discEvent /\ conn'[c].closes = conn[c].closes
      /\ conn'[c].entry = conn[c].entry /\ conn'[c].object = conn[c].object
      /\ \A d \in Conn \ {c} : conn'[d] = conn[d]
  <2>1. /\ conn'[c] = [conn[c] EXCEPT !.unsent = TRUE]
        /\ \A d \in Conn \ {c} : conn'[d] = conn[d]
    BY CloseNotSentChanges DEF Changes
  <2> QED BY <2>1, ConnectionTyped DEF Connection
<1>4. rpc' = rpc /\ removal' = removal
  BY DEF CloseNotSent, readers
<1>5. /\ At(c, k) = "close" /\ At(c, k)' = (AfterDisconnect(<<c, k>>, TRUE))
      /\ \A j \in Role \ {k} : At(c, j)' = At(c, j)
      /\ k # Closer
      /\ thread'[<<c, Opener>>].for = thread[<<c, Opener>>].for
  BY <1>1, <1>2, Roles DEF Moves, At, Own, Closes, Opener, Indicator, Remover, Closer
<1> HIDE DEF At
<1>6. Opening(c)'
  BY <1>1, <1>2, <1>3, <1>4, <1>5, Roles DEF Own, Opening, Early, AfterDisconnect
<1>7. Answered(c)'
  BY <1>1, <1>2, <1>3, <1>4, <1>5, Roles DEF Own, Answered, Early, AfterDisconnect
<1>8. Commits(c)'
  BY <1>1, <1>2, <1>3, <1>4, <1>5, Roles DEF Own, Commits, Committed, AfterDisconnect
<1>9. Closes(c)'
  BY <1>1, <1>2, <1>3, <1>4, <1>5, Roles
     DEF Own, Closes, Commits, Early, Committed, AfterDisconnect
<1>10. Pursued(c)'
  BY <1>1, <1>2, <1>3, <1>4, <1>5, Roles DEF Own, Pursued, AfterDisconnect
<1>11. Cleared(c)'
  BY <1>1, <1>2, <1>3, <1>4, <1>5, Roles DEF Own, Cleared, AfterDisconnect
<1>12. Listed(c)'
  BY <1>1, <1>2, <1>3, <1>4, <1>5, Roles DEF Own, Listed, AfterDisconnect
<1>13. \A d \in Conn \ {c} : Own(d)'
  BY <1>1, <1>2, <1>3, <1>4, Roles, OthersKeep DEF Moves
<1>14. LifeRests
  BY <1>1, <1>2, <1>3, <1>4, <1>5, Roles
     DEF Own, Opening, Answered, Commits, Closes, Early, Committed, Opener, Indicator,
         Remover, Closer, Phase, Ending, At, Moves, LifeRests, LifeMoves
<1> QED BY <1>6, <1>7, <1>8, <1>9, <1>10, <1>11, <1>12, <1>13, <1>14 DEF Own

LEMMA CloseCompletesKeeps ==
    ASSUME IInv, NEW c \in Conn, CloseCompletes(c)
    PROVE  /\ \A d \in Conn : Own(d)'
           /\ LifeMoves(c, "closing", "closed", Ending(c))
<1> TypeOK /\ Own(c)
  BY DEF IInv
<1>1. Moves(c, Closer, "closing", "wake")
  BY Roles, GotoMoves DEF CloseCompletes
<1>2. /\ conn'[c].state = "disconnected" /\ conn'[c].channel = "closed"
      /\ conn'[c].discEvent = conn[c].discEvent /\ conn'[c].closes = conn[c].closes
      /\ conn'[c].unsent = conn[c].unsent /\ conn'[c].entry = conn[c].entry
      /\ conn'[c].object = conn[c].object
      /\ \A d \in Conn \ {c} : conn'[d] = conn[d]
  <2>1. /\ conn'[c] = [conn[c] EXCEPT !.state = "disconnected", !.channel = "closed"]
        /\ \A d \in Conn \ {c} : conn'[d] = conn[d]
    BY CloseCompletesChanges DEF Changes
  <2> QED BY <2>1, ConnectionTyped DEF Connection
<1>3. rpc' = rpc /\ removal' = removal
  BY DEF CloseCompletes, readers
<1>4. /\ At(c, Closer) = "closing" /\ At(c, Closer)' = ("wake")
      /\ \A j \in Role \ {Closer} : At(c, j)' = At(c, j)
      /\ thread'[<<c, Opener>>].for = thread[<<c, Opener>>].for
  BY <1>1, Roles DEF Moves, At, Own, Closes, Opener, Indicator, Remover, Closer
<1> HIDE DEF At
<1>5. Opening(c)'
  BY <1>1, <1>2, <1>3, <1>4, Roles DEF Own, Opening, Opener, Indicator, Remover, Closer
<1>6. Answered(c)'
  BY <1>1, <1>2, <1>3, <1>4, Roles DEF Own, Answered, Closes, Early, Committed
<1>7. Commits(c)'
  BY <1>1, <1>2, <1>3, <1>4, Roles DEF Own, Commits, Committed
<1>8. Closes(c)'
  BY <1>1, <1>2, <1>3, <1>4, Roles DEF Own, Closes, Opener, Indicator, Remover, Closer
<1>9. Pursued(c)'
  BY <1>1, <1>2, <1>3, <1>4, Roles DEF Own, Pursued
<1>10. Cleared(c)'
  BY <1>1, <1>2, <1>3, <1>4, Roles DEF Own, Cleared
<1>11. Listed(c)'
  BY <1>1, <1>2, <1>3, <1>4, Roles DEF Own, Listed
<1>12. \A d \in Conn \ {c} : Own(d)'
  BY <1>1, <1>2, <1>3, Roles, OthersKeep DEF Moves
<1>13. LifeMoves(c, "closing", "closed", Ending(c))
  BY <1>1, <1>2, <1>3, <1>4, Roles
     DEF Own, Opening, Answered, Commits, Closes, Early, Committed, Opener, Indicator,
         Remover, Closer, Phase, Ending, At, Moves, LifeRests, LifeMoves
<1> QED BY <1>5, <1>6, <1>7, <1>8, <1>9, <1>10, <1>11, <1>12, <1>13 DEF Own

LEMMA SetDisconnectEventKeeps ==
    ASSUME IInv, NEW c \in Conn, NEW k \in Role, SetDisconnectEvent(<<c, k>>)
    PROVE  /\ \A d \in Conn : Own(d)'
           /\ LifeRests
<1> TypeOK /\ Own(c)
  BY DEF IInv
<1>1. Moves(c, k, "wake", IF k = Closer THEN "done" ELSE "unlink")
  BY Roles, GotoMoves DEF SetDisconnectEvent
<1>2. thread'[<<c, k>>].for = thread[<<c, k>>].for
  BY Roles, GotoMoves DEF SetDisconnectEvent
<1>3. /\ conn'[c].discEvent = TRUE
      /\ conn'[c].state = conn[c].state /\ conn'[c].channel = conn[c].channel
      /\ conn'[c].closes = conn[c].closes /\ conn'[c].unsent = conn[c].unsent
      /\ conn'[c].entry = conn[c].entry /\ conn'[c].object = conn[c].object
      /\ \A d \in Conn \ {c} : conn'[d] = conn[d]
  <2>1. /\ conn'[c] = [conn[c] EXCEPT !.discEvent = TRUE]
        /\ \A d \in Conn \ {c} : conn'[d] = conn[d]
    BY SetDisconnectEventChanges DEF Changes
  <2> QED BY <2>1, ConnectionTyped DEF Connection
<1>4. rpc' = rpc /\ removal' = removal
  BY DEF SetDisconnectEvent, readers
<1>5. /\ At(c, k) = "wake" /\ At(c, k)' = (IF k = Closer THEN "done" ELSE "unlink")
      /\ \A j \in Role \ {k} : At(c, j)' = At(c, j)
      /\ k # Closer \/ At(c, k) = "wake"
      /\ thread'[<<c, Opener>>].for = thread[<<c, Opener>>].for
  BY <1>1, <1>2, Roles DEF Moves, At, Own, Closes, Opener, Indicator, Remover, Closer
<1> HIDE DEF At
<1>6. Opening(c)'
  BY <1>1, <1>2, <1>3, <1>4, <1>5, Roles DEF Own, Opening, Early
<1>7. Answered(c)'
  BY <1>1, <1>2, <1>3, <1>4, <1>5, Roles DEF Own, Answered, Early, Committed
<1>8. Commits(c)'
  BY <1>1, <1>2, <1>3, <1>4, <1>5, Roles DEF Own, Commits, Early, Committed
<1>9. Closes(c)'
  BY <1>1, <1>2, <1>3, <1>4, <1>5, Roles DEF Own, Closes, Early
<1>10. Pursued(c)'
  BY <1>1, <1>2, <1>3, <1>4, <1>5, Roles DEF Own, Pursued, Early, Committed
<1>11. Cleared(c)'
  BY <1>1, <1>2, <1>3, <1>4, <1>5, Roles DEF Own, Cleared
<1>12. Listed(c)'
  BY <1>1, <1>2, <1>3, <1>4, <1>5, Roles DEF Own, Listed
<1>13. \A d \in Conn \ {c} : Own(d)'
  BY <1>1, <1>2, <1>3, <1>4, Roles, OthersKeep DEF Moves
<1>14. LifeRests
  BY <1>1, <1>2, <1>3, <1>4, <1>5, Roles
     DEF Own, Opening, Answered, Commits, Closes, Early, Committed, Opener, Indicator,
         Remover, Closer, Phase, Ending, At, Moves, LifeRests, LifeMoves
<1> QED BY <1>6, <1>7, <1>8, <1>9, <1>10, <1>11, <1>12, <1>13, <1>14 DEF Own

LEMMA UnlinkKeeps ==
    ASSUME IInv, NEW c \in Conn, NEW k \in Role, Unlink(<<c, k>>)
    PROVE  /\ \A d \in Conn : Own(d)'
           /\ LifeRests
<1> TypeOK /\ Own(c)
  BY DEF IInv
<1>1. conn[c].entry = "linked" /\ Moves(c, k, "unlink", "delete")
  BY Roles, GotoMoves DEF Unlink
<1>2. thread'[<<c, k>>].for = thread[<<c, k>>].for
  BY Roles, GotoMoves DEF Unlink
<1>3. /\ conn'[c].entry = "stale"
      /\ conn'[c].state = conn[c].state /\ conn'[c].channel = conn[c].channel
      /\ conn'[c].discEvent = conn[c].discEvent /\ conn'[c].closes = conn[c].closes
      /\ conn'[c].unsent = conn[c].unsent /\ conn'[c].object = conn[c].object
      /\ \A d \in Conn \ {c} : conn'[d] = conn[d]
  <2>1. /\ conn'[c] = [conn[c] EXCEPT !.entry = "stale"]
        /\ \A d \in Conn \ {c} : conn'[d] = conn[d]
    BY UnlinkChanges DEF Changes
  <2> QED BY <2>1, ConnectionTyped DEF Connection
<1>4. rpc' = rpc /\ removal' = removal
  BY DEF Unlink, readers
<1>5. /\ At(c, k) = "unlink" /\ At(c, k)' = ("delete")
      /\ \A j \in Role \ {k} : At(c, j)' = At(c, j)
      /\ k # Closer
      /\ thread'[<<c, Opener>>].for = thread[<<c, Opener>>].for
  BY <1>1, <1>2, Roles DEF Moves, At, Own, Closes, Opener, Indicator, Remover, Closer
<1> HIDE DEF At
<1>6. Opening(c)'
  BY <1>1, <1>2, <1>3, <1>4, <1>5, Roles DEF Own, Opening, Early
<1>7. Answered(c)'
  BY <1>1, <1>2, <1>3, <1>4, <1>5, Roles DEF Own, Answered, Early, Committed
<1>8. Commits(c)'
  BY <1>1, <1>2, <1>3, <1>4, <1>5, Roles DEF Own, Commits, Early, Committed
<1>9. Closes(c)'
  BY <1>1, <1>2, <1>3, <1>4, <1>5, Roles DEF Own, Closes, Early
<1>10. Pursued(c)'
  BY <1>1, <1>2, <1>3, <1>4, <1>5, Roles DEF Own, Pursued, Early, Committed
<1>11. Cleared(c)'
  BY <1>1, <1>2, <1>3, <1>4, <1>5, Roles DEF Own, Cleared
<1>12. Listed(c)'
  BY <1>1, <1>2, <1>3, <1>4, <1>5, Roles DEF Own, Listed
<1>13. \A d \in Conn \ {c} : Own(d)'
  BY <1>1, <1>2, <1>3, <1>4, Roles, OthersKeep DEF Moves
<1>14. LifeRests
  BY <1>1, <1>2, <1>3, <1>4, <1>5, Roles
     DEF Own, Opening, Answered, Commits, Closes, Early, Committed, Opener, Indicator,
         Remover, Closer, Phase, Ending, At, Moves, LifeRests, LifeMoves
<1> QED BY <1>6, <1>7, <1>8, <1>9, <1>10, <1>11, <1>12, <1>13, <1>14 DEF Own

LEMMA DeleteKeeps ==
    ASSUME IInv, NEW c \in Conn, NEW k \in Role, Delete(<<c, k>>)
    PROVE  /\ \A d \in Conn : Own(d)'
           /\ LifeRests
<1> TypeOK /\ Own(c)
  BY DEF IInv
<1>1. Moves(c, k, "delete", "done")
  BY Roles, GotoMoves DEF Delete
<1>2. thread'[<<c, k>>].for = thread[<<c, k>>].for
  BY Roles, GotoMoves DEF Delete
<1>3. /\ conn'[c].object = (IF conn[c].object = "live" THEN "deleting" ELSE conn[c].object)
      /\ conn'[c].state = conn[c].state /\ conn'[c].channel = conn[c].channel
      /\ conn'[c].discEvent = conn[c].discEvent /\ conn'[c].closes = conn[c].closes
      /\ conn'[c].unsent = conn[c].unsent /\ conn'[c].entry = conn[c].entry
      /\ \A d \in Conn \ {c} : conn'[d] = conn[d]
  <2>1. /\ conn'[c] = [conn[c] EXCEPT !.object = IF @ = "live" THEN "deleting" ELSE @]
        /\ \A d \in Conn \ {c} : conn'[d] = conn[d]
    BY DeleteChanges DEF Changes
  <2> QED BY <2>1, ConnectionTyped DEF Connection
<1>4. rpc' = rpc /\ removal' = removal
  BY DEF Delete, readers
<1>5. /\ At(c, k) = "delete" /\ At(c, k)' = ("done")
      /\ \A j \in Role \ {k} : At(c, j)' = At(c, j)
      /\ k # Closer
      /\ thread'[<<c, Opener>>].for = thread[<<c, Opener>>].for
  BY <1>1, <1>2, Roles DEF Moves, At, Own, Closes, Opener, Indicator, Remover, Closer
<1> HIDE DEF At
<1>6. Opening(c)'
  BY <1>1, <1>2, <1>3, <1>4, <1>5, Roles DEF Own, Opening, Early
<1>7. Answered(c)'
  BY <1>1, <1>2, <1>3, <1>4, <1>5, Roles DEF Own, Answered, Early
<1>8. Commits(c)'
  BY <1>1, <1>2, <1>3, <1>4, <1>5, Roles DEF Own, Commits, Early, Committed
<1>9. Closes(c)'
  BY <1>1, <1>2, <1>3, <1>4, <1>5, Roles DEF Own, Closes, Early
<1>10. Pursued(c)'
  BY <1>1, <1>2, <1>3, <1>4, <1>5, Roles DEF Own, Pursued, Early, Committed
<1>11. Cleared(c)'
  BY <1>1, <1>2, <1>3, <1>4, <1>5, Roles DEF Own, Cleared
<1>12. Listed(c)'
  BY <1>1, <1>2, <1>3, <1>4, <1>5, Roles DEF Own, Listed
<1>13. \A d \in Conn \ {c} : Own(d)'
  BY <1>1, <1>2, <1>3, <1>4, Roles, OthersKeep DEF Moves
<1>14. LifeRests
  BY <1>1, <1>2, <1>3, <1>4, <1>5, Roles
     DEF Own, Opening, Answered, Commits, Closes, Early, Committed, Opener, Indicator,
         Remover, Closer, Phase, Ending, At, Moves, LifeRests, LifeMoves
<1> QED BY <1>6, <1>7, <1>8, <1>9, <1>10, <1>11, <1>12, <1>13, <1>14 DEF Own

LEMMA PeerDisconnectsKeeps ==
    ASSUME IInv, NEW c \in Conn, PeerDisconnects(c)
    PROVE  /\ \A d \in Conn : Own(d)'
           /\ LifeRests
<1> TypeOK /\ Own(c)
  BY DEF IInv
<1>1. At(c, Indicator) = "off" /\ conn[c].channel = "open"
  BY DEF PeerDisconnects, At, RemoverIdle
<1>2. Moves(c, Indicator, "off", "cancel")
  BY <1>1, Roles, CallMoves DEF PeerDisconnects
<1>3. /\ conn'[c].channel = "dropped"
      /\ conn'[c].state = conn[c].state /\ conn'[c].discEvent = conn[c].discEvent
      /\ conn'[c].closes = conn[c].closes /\ conn'[c].unsent = conn[c].unsent
      /\ conn'[c].entry = conn[c].entry /\ conn'[c].object = conn[c].object
      /\ \A d \in Conn \ {c} : conn'[d] = conn[d]
  <2>1. /\ conn'[c] = [conn[c] EXCEPT !.channel = "dropped"]
        /\ \A d \in Conn \ {c} : conn'[d] = conn[d]
    BY PeerDisconnectsChanges DEF Changes
  <2> QED BY <2>1, ConnectionTyped DEF Connection
<1>4. rpc' = rpc /\ removal' = removal
  BY DEF PeerDisconnects, readers
<1>5. /\ At(c, Indicator) = "off" /\ At(c, Indicator)' = ("cancel")
      /\ \A j \in Role \ {Indicator} : At(c, j)' = At(c, j)
      /\ thread'[<<c, Opener>>].for = thread[<<c, Opener>>].for
  BY <1>1, <1>2, Roles DEF Moves, At, Own, Closes, Opener, Indicator, Remover, Closer
<1> HIDE DEF At
<1>6. Opening(c)'
  BY <1>1, <1>2, <1>3, <1>4, <1>5, Roles
     DEF Own, Opening, Opener, Indicator, Remover, Closer
<1>7. Answered(c)'
  BY <1>1, <1>2, <1>3, <1>4, <1>5, Roles
     DEF Own, Answered, Opener, Indicator, Remover, Closer
<1>8. Commits(c)'
  BY <1>1, <1>2, <1>3, <1>4, <1>5, Roles
     DEF Own, Commits, Committed, Opener, Indicator, Remover, Closer
<1>9. Closes(c)'
  BY <1>1, <1>2, <1>3, <1>4, <1>5, Roles DEF Own, Closes, Opener, Indicator, Remover, Closer
<1>10. Pursued(c)'
  BY <1>1, <1>2, <1>3, <1>4, <1>5, Roles
     DEF Own, Pursued, Committed, Opener, Indicator, Remover, Closer
<1>11. Cleared(c)'
  BY <1>1, <1>2, <1>3, <1>4, <1>5, Roles DEF Own, Cleared
<1>12. Listed(c)'
  BY <1>1, <1>2, <1>3, <1>4, <1>5, Roles DEF Own, Listed, Opener, Indicator, Remover, Closer
<1>13. \A d \in Conn \ {c} : Own(d)'
  BY <1>1, <1>2, <1>3, <1>4, Roles, OthersKeep DEF Moves
<1>14. LifeRests
  BY <1>1, <1>2, <1>3, <1>4, <1>5, Roles
     DEF Own, Opening, Answered, Commits, Closes, Early, Committed, Opener, Indicator,
         Remover, Closer, Phase, Ending, At, Moves, LifeRests, LifeMoves
<1> QED BY <1>6, <1>7, <1>8, <1>9, <1>10, <1>11, <1>12, <1>13, <1>14 DEF Own

LEMMA PopConnectionKeeps ==
    ASSUME IInv, NEW c \in Conn, PopConnection(c)
    PROVE  /\ \A d \in Conn : Own(d)'
           /\ LifeRests
<1> TypeOK /\ Own(c)
  BY DEF IInv
<1>1. removal = "draining" /\ conn[c].entry = "linked"
      /\ At(c, Remover) \in {"off", "done"}
  BY DEF PopConnection, At, RemoverIdle
<1>2. Moves(c, Remover, At(c, Remover), "cancel")
  BY Roles, CallMoves DEF PopConnection
<1>3. /\ conn'[c].entry = "stale"
      /\ conn'[c].state = conn[c].state /\ conn'[c].channel = conn[c].channel
      /\ conn'[c].discEvent = conn[c].discEvent /\ conn'[c].closes = conn[c].closes
      /\ conn'[c].unsent = conn[c].unsent /\ conn'[c].object = conn[c].object
      /\ \A d \in Conn \ {c} : conn'[d] = conn[d]
  <2>1. /\ conn'[c] = [conn[c] EXCEPT !.entry = "stale"]
        /\ \A d \in Conn \ {c} : conn'[d] = conn[d]
    BY PopConnectionChanges DEF Changes
  <2> QED BY <2>1, ConnectionTyped DEF Connection
<1>4. rpc' = rpc /\ removal' = removal
  BY DEF PopConnection, readers
<1>5. /\ At(c, Remover) = At(c, Remover) /\ At(c, Remover)' = ("cancel")
      /\ \A j \in Role \ {Remover} : At(c, j)' = At(c, j)
      /\ thread'[<<c, Opener>>].for = thread[<<c, Opener>>].for
  BY <1>1, <1>2, Roles DEF Moves, At, Own, Closes, Opener, Indicator, Remover, Closer
<1> HIDE DEF At
<1>6. Opening(c)'
  BY <1>1, <1>2, <1>3, <1>4, <1>5, Roles
     DEF Own, Opening, Answered, Commits, Closes, Pursued, Cleared, Listed, Early,
         Committed, Opener, Indicator, Remover, Closer
<1>7. Answered(c)'
  BY <1>1, <1>2, <1>3, <1>4, <1>5, Roles
     DEF Own, Answered, Opener, Indicator, Remover, Closer
<1>8. Commits(c)'
  BY <1>1, <1>2, <1>3, <1>4, <1>5, Roles
     DEF Own, Commits, Committed, Opener, Indicator, Remover, Closer
<1>9. Closes(c)'
  BY <1>1, <1>2, <1>3, <1>4, <1>5, Roles DEF Own, Closes, Opener, Indicator, Remover, Closer
<1>10. Pursued(c)'
  BY <1>1, <1>2, <1>3, <1>4, <1>5, Roles
     DEF Own, Pursued, Committed, Opener, Indicator, Remover, Closer
<1>11. Cleared(c)'
  BY <1>1, <1>2, <1>3, <1>4, <1>5, Roles DEF Own, Cleared
<1>12. Listed(c)'
  BY <1>1, <1>2, <1>3, <1>4, <1>5, Roles DEF Own, Listed
<1>13. \A d \in Conn \ {c} : Own(d)'
  BY <1>1, <1>2, <1>3, <1>4, Roles, OthersKeep DEF Moves
<1>14. LifeRests
  BY <1>1, <1>2, <1>3, <1>4, <1>5, Roles
     DEF Own, Opening, Answered, Commits, Closes, Early, Committed, Opener, Indicator,
         Remover, Closer, Phase, Ending, At, Moves, LifeRests, LifeMoves
<1> QED BY <1>6, <1>7, <1>8, <1>9, <1>10, <1>11, <1>12, <1>13, <1>14 DEF Own

LEMMA SendCloseKeeps ==
    ASSUME IInv, NEW c \in Conn, NEW k \in Role, SendClose(<<c, k>>)
    PROVE  /\ \A d \in Conn : Own(d)'
           /\ LifeMoves(c, "open", "closing", Ending(c)) /\ Ending(c)
<1> TypeOK /\ Own(c)
  BY DEF IInv
<1>1. At(c, k) = "close" /\ k # Closer /\ At(c, Closer) = "off"
  BY DEF SendClose, At, Own, Closes, Commits, Committed
<1>2. /\ \A d \in Conn, j \in Role : <<d, j>> \notin {<<c, k>>, <<c, Closer>>} =>
             thread'[<<d, j>>] = thread[<<d, j>>]
      /\ \A j \in Role \ {k, Closer} : At(c, j)' = At(c, j)
      /\ At(c, k)' = AfterDisconnect(<<c, k>>, TRUE)
      /\ At(c, Closer)' = "closing"
      /\ thread'[<<c, Opener>>].for = thread[<<c, Opener>>].for
  <2> DEFINE left == [thread EXCEPT ![<<c, k>>].at = AfterDisconnect(<<c, k>>, TRUE)]
  <2>1. thread' = [left EXCEPT ![<<c, Closer>>].at = "closing"]
    BY DEF SendClose
  <2>2. /\ \A t \in Thread : thread[t] \in Frame
        /\ DOMAIN left = Thread
        /\ left[<<c, k>>] = [thread[<<c, k>>] EXCEPT !.at = AfterDisconnect(<<c, k>>, TRUE)]
        /\ \A t \in Thread \ {<<c, k>>} : left[t] = thread[t]
    BY Roles DEF TypeOK
  <2> HIDE DEF left
  <2>3. /\ thread'[<<c, k>>] = left[<<c, k>>]
        /\ thread'[<<c, Closer>>] = [left[<<c, Closer>>] EXCEPT !.at = "closing"]
        /\ \A t \in Thread \ {<<c, Closer>>} : thread'[t] = left[t]
    BY <1>1, <2>1, <2>2, Roles
  <2> QED BY <1>1, <2>2, <2>3, Roles DEF Frame, At, Opener, Closer
<1>3. /\ conn'[c].channel = "closing" /\ conn'[c].closes = conn[c].closes + 1
      /\ conn'[c].state = conn[c].state /\ conn'[c].discEvent = conn[c].discEvent
      /\ conn'[c].unsent = conn[c].unsent /\ conn'[c].entry = conn[c].entry
      /\ conn'[c].object = conn[c].object
      /\ \A d \in Conn \ {c} : conn'[d] = conn[d]
  <2>1. /\ conn'[c] = [conn[c] EXCEPT !.channel = "closing", !.closes = @ + 1]
        /\ \A d \in Conn \ {c} : conn'[d] = conn[d]
    BY SendCloseChanges DEF Changes
  <2> QED BY <2>1, ConnectionTyped DEF Connection
<1>4. rpc' = rpc /\ removal' = removal
  BY DEF SendClose, readers
<1> HIDE DEF At
<1>5. Opening(c)'
  BY <1>1, <1>2, <1>3, <1>4, Roles
     DEF Own, Opening, Early, Opener, Indicator, Remover, Closer, AfterDisconnect
<1>6. Answered(c)'
  BY <1>1, <1>2, <1>3, <1>4, Roles
     DEF Own, Answered, Commits, Early, Committed, AfterDisconnect
<1>7. Commits(c)'
  BY <1>1, <1>2, <1>3, <1>4, Roles DEF Own, Commits, Committed, AfterDisconnect
<1>8. Closes(c)'
  BY <1>1, <1>2, <1>3, <1>4, Roles
     DEF Own, Closes, Commits, Early, Committed, AfterDisconnect
<1>9. Pursued(c)' /\ Cleared(c)'
  BY <1>1, <1>2, <1>3, <1>4, Roles DEF Own, Pursued, Cleared, AfterDisconnect
<1>10. Listed(c)'
  BY <1>1, <1>2, <1>3, <1>4, Roles
     DEF Own, Listed, Opener, Indicator, Remover, Closer, AfterDisconnect
<1>11. \A d \in Conn \ {c} : Own(d)'
  BY <1>2, <1>3, <1>4, Roles, OthersKeep
<1>12. LifeMoves(c, "open", "closing", Ending(c)) /\ Ending(c)
  BY <1>1, <1>2, <1>3, Roles
     DEF Own, Commits, Committed, Phase, Ending, LifeMoves, Opener, Closer
<1> QED BY <1>5, <1>6, <1>7, <1>8, <1>9, <1>10, <1>11, <1>12 DEF Own

-----------------------------------------------------------------------------
(* The steps that many threads make: the cancels before a disconnect.      *)
LEMMA CancellingKeeps ==
    ASSUME IInv, NEW c \in Conn, NEW k \in Role,
           \/ CancelReader(<<c, k>>) \/ CancelReaderRequest(<<c, k>>)
           \/ CancelsDone(<<c, k>>) \/ DisconnectRefused(<<c, k>>)
    PROVE  (\A d \in Conn : Own(d)') /\ LifeRests
<1> TypeOK /\ Own(c)
  BY DEF IInv
<1>1. k # Closer
  BY DEF CancelReader, CancelReaderRequest, CancelsDone, DisconnectRefused, Goto, Own,
         Closes, At
<1>2. conn' = conn /\ removal' = removal /\ rpc' = rpc
  BY DEF CancelReader, CancelReaderRequest, CancelsDone, DisconnectRefused, readers,
         RR!CancelSetsStopping, RR!CancelSentRequest
<1>3. RestStays(c, k)
  BY <1>2 DEF RestStays, SameObject
<1>4. CASE CancelReader(<<c, k>>)
  <2>1. /\ Moves(c, k, "cancel", "mark")
        /\ thread'[<<c, k>>].for = thread[<<c, k>>].for
    BY <1>4, GotoMoves DEF CancelReader
  <2>9. PlainMove(c, k, "cancel", "mark") /\ LateStays(c, k, "cancel", "mark")
    BY <1>1, <1>3, <2>1 DEF PlainMove, Plain, LateStays
  <2> QED BY <1>1, <1>3, <2>1, <2>9, PlainStep
<1>5. CASE CancelReaderRequest(<<c, k>>)
  <2>1. /\ Moves(c, k, "mark", "cancel")
        /\ thread'[<<c, k>>].for = thread[<<c, k>>].for
    BY <1>5, Roles DEF CancelReaderRequest, TypeOK, Frame, Moves, At
  <2>9. PlainMove(c, k, "mark", "cancel") /\ LateStays(c, k, "mark", "cancel")
    BY <1>1, <1>3, <2>1 DEF PlainMove, Plain, LateStays
  <2> QED BY <1>1, <1>3, <2>1, <2>9, PlainStep
<1>6. CASE CancelsDone(<<c, k>>)
  <2>1. CASE thread[<<c, k>>].for = "submit"
    <3>1. At(c, k) = "cancel" /\ Call(<<c, k>>, "giveup")
      BY <1>6, <2>1 DEF CancelsDone, At
    <3>2. /\ Moves(c, k, "cancel", "cancel")
          /\ thread'[<<c, k>>].for = "giveup"
      BY <3>1, CallMoves
    <3>9. PlainMove(c, k, "cancel", "cancel") /\ LateStays(c, k, "cancel", "cancel")
      BY <1>1, <1>3, <2>1, <3>2 DEF PlainMove, Plain, LateStays
    <3> QED BY <1>1, <1>3, <2>1, <3>2, <3>9, PlainStep
  <2>2. CASE thread[<<c, k>>].for # "submit"
    <3>1. /\ Moves(c, k, "cancel", "lock")
          /\ thread'[<<c, k>>].for = thread[<<c, k>>].for
      BY <1>6, <2>2, GotoMoves DEF CancelsDone
    <3>9. PlainMove(c, k, "cancel", "lock") /\ LateStays(c, k, "cancel", "lock")
      BY <1>1, <1>3, <3>1 DEF PlainMove, Plain, LateStays
    <3> QED BY <1>1, <1>3, <3>1, <3>9, PlainStep
  <2> QED BY <2>1, <2>2
<1>7. CASE DisconnectRefused(<<c, k>>)
  <2> DEFINE to == AfterDisconnect(<<c, k>>, FALSE)
  <2>1. /\ Moves(c, k, "lock", to)
        /\ thread'[<<c, k>>].for = thread[<<c, k>>].for
        /\ conn[c].state # "connected"
    BY <1>7, GotoMoves DEF DisconnectRefused
  <2>2. to \in {"unlink", "done"} /\ (thread[<<c, k>>].for = "late" => to = "done")
    BY DEF AfterDisconnect
  <2> HIDE DEF to
  <2>9. PlainMove(c, k, "lock", to) /\ LateStays(c, k, "lock", to)
    BY <1>1, <1>3, <2>1, <2>2 DEF PlainMove, Plain, LateStays
  <2> QED BY <1>1, <1>3, <2>1, <2>2, <2>9, PlainStep
<1> QED BY <1>4, <1>5, <1>6, <1>7

(* The thread that opens the connection, from the open channel on.         *)
LEMMA OpenerRuns ==
    ASSUME IInv, NEW c \in Conn,
           \/ InitReader(c) \/ InitReaderFails(c) \/ SubmitReader(c) \/ SubmitReturns(c)
    PROVE  (\A d \in Conn : Own(d)') /\ LifeRests
<1> DEFINE t == <<c, Opener>>
<1> TypeOK /\ Own(c) /\ Opener \in Role \ {Closer}
  BY Roles DEF IInv, Opener, Closer
<1>1. At(c, Opener) \in {"init", "submit", "submitting"}
  BY DEF InitReader, InitReaderFails, SubmitReader, SubmitReturns, Goto, At
<1>2. thread[t].for # "late"
  BY <1>1 DEF Own, Answered, Committed
<1>3. removal' = removal
  BY DEF InitReader, InitReaderFails, SubmitReader, SubmitReturns
<1>4. SameObject(c) /\ \A d \in Conn \ {c} : conn'[d] = conn[d]
  <2>1. CASE InitReader(c)
    <3>1. /\ conn'[c] = [conn[c] EXCEPT !.count = @ + 1]
          /\ \A d \in Conn \ {c} : conn'[d] = conn[d]
      BY <2>1, InitReaderChanges DEF Changes
    <3> QED BY <3>1, ConnectionTyped DEF Connection, SameObject
  <2>2. CASE conn' = conn
    BY <2>2 DEF SameObject
  <2> QED BY <2>1, <2>2 DEF InitReaderFails, SubmitReader, SubmitReturns
<1>5. \A d \in Conn, i \in 1 .. NumReaders :
          rpc[<<d, i>>] = "idle" /\ d # c => rpc'[<<d, i>>] = "idle"
  <2>1. CASE SubmitReader(c)
    BY <2>1 DEF SubmitReader, RR!Start, RR!Go, TypeOK, RR!TypeOK, Reader
  <2>2. CASE rpc' = rpc
    BY <2>2
  <2> QED BY <2>1, <2>2 DEF InitReader, InitReaderFails, SubmitReturns, readers
<1>6. /\ Moves(c, Opener, At(c, Opener), At(c, Opener)')
      /\ At(c, Opener)' \in Plain
      /\ thread'[t].for # "late"
  <2>1. CASE InitReader(c)
    BY <1>2, <2>1, GotoMoves DEF InitReader, Moves, Plain
  <2>2. CASE InitReaderFails(c)
    <3>1. Call(t, "giveup")
      BY <2>2 DEF InitReaderFails
    <3> QED BY <3>1, CallMoves DEF Moves, Plain
  <2>3. CASE SubmitReader(c)
    BY <1>2, <2>3, GotoMoves DEF SubmitReader, Moves, Plain
  <2>4. CASE SubmitReturns(c)
    <3>1. CASE Call(t, "submit")
      BY <3>1, CallMoves DEF Moves, Plain
    <3>2. CASE thread' = [thread EXCEPT ![t].i = @ + 1,
                  ![t].at = IF thread[t].i < conn[c].count THEN "submit" ELSE "done"]
      BY <1>2, <3>2, Roles DEF TypeOK, Frame, Moves, At, Plain
    <3> QED BY <2>4, <3>1, <3>2 DEF SubmitReturns
  <2> QED BY <2>1, <2>2, <2>3, <2>4
<1>7. RestStays(c, Opener)
  BY <1>3, <1>4, <1>5 DEF RestStays
<1>9. PlainMove(c, Opener, At(c, Opener), At(c, Opener)')
      /\ LateStays(c, Opener, At(c, Opener), At(c, Opener)')
  BY <1>1, <1>2, <1>6, <1>7 DEF PlainMove, Plain, LateStays
<1> QED BY <1>1, <1>2, <1>6, <1>7, <1>9, PlainStep

(* A reader that fails indicates it to the connection.                     *)
LEMMA CallbackKeeps ==
    ASSUME IInv, NEW c \in Conn, NEW k \in 1 .. NumReaders,
           \/ EchoSent(<<c, k>>) \/ EchoFails(<<c, k>>)
           \/ FailedCallback(<<c, k>>) \/ CallbackReturns(<<c, k>>)
    PROVE  (\A d \in Conn : Own(d)') /\ LifeRests
<1> TypeOK /\ Own(c) /\ k \in Role \ {Closer} /\ k # Opener
  BY Roles DEF IInv, Closer, Opener
<1>1. conn' = conn /\ removal' = removal
  BY DEF EchoSent, EchoFails, FailedCallback, CallbackReturns
<1>2. \A d \in Conn, i \in 1 .. NumReaders :
          rpc[<<d, i>>] = "idle" => rpc'[<<d, i>>] = "idle"
  BY DEF EchoSent, EchoFails, FailedCallback, CallbackReturns, readers, RR!QueueDpc,
         RR!FailureHandled, RR!Go, TypeOK, RR!TypeOK, Reader
<1>3. RestStays(c, k)
  BY <1>1, <1>2 DEF RestStays, SameObject
<1>4. CASE EchoSent(<<c, k>>)
  <2>1. Moves(c, k, "off", "done") /\ rpc[<<c, k>>] # "idle"
    BY <1>4, GotoMoves DEF EchoSent
  <2>9. PlainMove(c, k, "off", "done") /\ LateStays(c, k, "off", "done")
    BY <1>3, <2>1 DEF PlainMove, Plain, LateStays
  <2> QED BY <1>3, <2>1, <2>9, PlainStep
<1>5. CASE EchoFails(<<c, k>>) \/ FailedCallback(<<c, k>>)
  <2>1. At(c, k) = "off" /\ Call(<<c, k>>, "drop") /\ rpc[<<c, k>>] # "idle"
    BY <1>5 DEF EchoFails, FailedCallback, At
  <2>2. Moves(c, k, "off", "cancel")
    BY <2>1, CallMoves
  <2>9. PlainMove(c, k, "off", "cancel") /\ LateStays(c, k, "off", "cancel")
    BY <1>3, <2>1, <2>2 DEF PlainMove, Plain, LateStays
  <2> QED BY <1>3, <2>1, <2>2, <2>9, PlainStep
<1>6. CASE CallbackReturns(<<c, k>>)
  <2>1. Moves(c, k, "done", "off")
    BY <1>6, GotoMoves DEF CallbackReturns
  <2>9. PlainMove(c, k, "done", "off") /\ LateStays(c, k, "done", "off")
    BY <1>3, <2>1 DEF PlainMove, Plain, LateStays
  <2> QED BY <1>3, <2>1, <2>9, PlainStep
<1> QED BY <1>4, <1>5, <1>6

(* The readers' own code and the steps of the framework leave the threads. *)
LEMMA ThreadsRest ==
    ASSUME IInv, thread' = thread, removal' = removal,
           \A d \in Conn :
               /\ conn'[d].state = conn[d].state /\ conn'[d].channel = conn[d].channel
               /\ conn'[d].discEvent = conn[d].discEvent /\ conn'[d].closes = conn[d].closes
               /\ conn'[d].unsent = conn[d].unsent /\ conn'[d].entry = conn[d].entry
               /\ \/ conn'[d].object = conn[d].object
                  \/ conn[d].entry = "stale" /\ conn'[d].object \in {"deleting", "disposed"}
                     /\ conn[d].object # "none",
           \A d \in Conn, i \in 1 .. NumReaders :
               rpc[<<d, i>>] = "idle" => rpc'[<<d, i>>] = "idle"
    PROVE  (\A d \in Conn : Own(d)') /\ LifeRests
<1>0. LifeRests
  BY Roles DEF LifeRests, Phase, Ending
<1> SUFFICES ASSUME NEW d \in Conn PROVE Own(d)'
  BY <1>0
<1> Own(d) /\ \A k \in Role : At(d, k)' = At(d, k)
  BY DEF IInv, At
<1> HIDE DEF At
<1>1. Opening(d)' /\ Answered(d)'
  BY Roles DEF Own, Opening, Answered
<1>2. Commits(d)' /\ Closes(d)'
  BY Roles DEF Own, Commits, Closes
<1>3. Pursued(d)' /\ Cleared(d)'
  BY Roles DEF Own, Pursued, Cleared
<1>4. Listed(d)'
  BY Roles DEF Own, Listed
<1> QED BY <1>1, <1>2, <1>3, <1>4 DEF Own

(* Echo writes and the callbacks of the readers.                           *)
LEMMA ReaderRuns ==
    ASSUME IInv, NEW r \in Reader,
           ReaderCode(r) \/ ReadData(r) \/ ReadFails(r) \/ ReadCancelled(r)
    PROVE  (\A d \in Conn : Own(d)') /\ LifeRests
<1>1. thread' = thread /\ removal' = removal /\ conn' = conn
  BY DEF ReaderCode, ReadData, ReadFails, ReadCancelled, Rest
<1>2. \A s \in Reader : rpc[s] = "idle" => rpc'[s] = "idle"
  BY DEF ReaderCode, ReadData, ReadFails, ReadCancelled, IInv, TypeOK, RR!TypeOK,
         RR!ResubmitDpc, RR!Reuse, RR!CheckStopping, RR!Format, RR!FormatFails,
         RR!ClearStopEvent, RR!Send, RR!SendFails, RR!SetStopEvent, RR!CompleteRead,
         RR!CompleteError, RR!CompleteCancelled, RR!Complete, RR!Go
<1>3. \A d \in Conn, i \in 1 .. NumReaders :
          rpc[<<d, i>>] = "idle" => rpc'[<<d, i>>] = "idle"
  BY <1>2 DEF Reader
<1> QED BY <1>1, <1>3, ThreadsRest

(* The framework waits for the readers and disposes of the object.         *)
LEMMA FrameworkKeeps ==
    ASSUME IInv, NEW c \in Conn,
           WaitReader(c) \/ UninitializeReader(c) \/ Dispose(c) \/ DeleteChild(c)
    PROVE  (\A d \in Conn : Own(d)') /\ LifeRests
<1> TypeOK /\ Own(c)
  BY DEF IInv
<1>1. thread' = thread /\ removal' = removal /\ rpc' = rpc
  BY DEF WaitReader, UninitializeReader, Dispose, DeleteChild, readers, RR!WaitForStop,
         RR!Uninitialize
<1>2. \/ SameObject(c)
      \/ /\ conn'[c].state = conn[c].state /\ conn'[c].channel = conn[c].channel
         /\ conn'[c].discEvent = conn[c].discEvent /\ conn'[c].closes = conn[c].closes
         /\ conn'[c].unsent = conn[c].unsent /\ conn'[c].entry = conn[c].entry
         /\ conn[c].entry = "stale" /\ conn'[c].object \in {"deleting", "disposed"}
         /\ conn[c].object # "none"
  <2>4. CASE WaitReader(c)
    BY <2>4 DEF WaitReader, SameObject
  <2>1. CASE UninitializeReader(c)
    <3>1. conn'[c] = [conn[c] EXCEPT !.waited = @ + 1]
      BY <2>1, UninitializeReaderChanges DEF Changes
    <3> QED BY <3>1, ConnectionTyped DEF Connection, SameObject
  <2>2. CASE Dispose(c)
    <3>1. conn'[c] = [conn[c] EXCEPT !.object = "disposed"]
      BY <2>2, DisposeChanges DEF Changes
    <3>2. conn[c].entry = "stale" /\ conn[c].object = "deleting"
      BY <2>2 DEF Dispose, Own, Listed
    <3> QED BY <3>1, <3>2, ConnectionTyped DEF Connection
  <2>3. CASE DeleteChild(c)
    <3>1. conn[c].entry = "stale" /\ conn[c].object = "live"
      BY <2>3, ConnectionTyped DEF DeleteChild, Own, Listed, Connection
    <3>2. conn'[c] = [conn[c] EXCEPT !.object = "deleting"]
      BY <2>3, <3>1, DeleteChildChanges DEF Changes
    <3> QED BY <3>1, <3>2, ConnectionTyped DEF Connection
  <2> QED BY <2>1, <2>2, <2>3, <2>4
<1>3. \A d \in Conn \ {c} : conn'[d] = conn[d]
  BY UninitializeReaderChanges, DisposeChanges, DeleteChildChanges DEF Changes, WaitReader
<1> QED BY <1>1, <1>2, <1>3, ThreadsRest DEF SameObject

(* The removal of the device empties the list.                             *)
LEMMA RemovalKeeps ==
    ASSUME IInv, StartRemoval \/ ListDrained
    PROVE  (\A d \in Conn : Own(d)') /\ LifeRests
<1>5. LifeRests
  BY DEF LifeRests, Phase, Ending, StartRemoval, ListDrained
<1> SUFFICES ASSUME NEW d \in Conn PROVE Own(d)'
  BY <1>5
<1> Own(d) /\ \A k \in Role : At(d, k)' = At(d, k)
  BY DEF IInv, At, StartRemoval, ListDrained
<1>0. /\ conn' = conn /\ rpc' = rpc /\ thread' = thread /\ removal' # "no"
      /\ removal = "no" => At(d, Opener) # "respond"
      /\ removal' = "drained" => conn[d].entry # "linked"
  BY DEF StartRemoval, ListDrained, readers, At
<1> HIDE DEF At
<1>1. Opening(d)' /\ Answered(d)'
  BY <1>0, Roles DEF Own, Opening, Answered, StartRemoval, ListDrained
<1>2. Commits(d)' /\ Closes(d)'
  BY <1>0, Roles DEF Own, Commits, Closes
<1>3. Pursued(d)' /\ Cleared(d)'
  BY <1>0, Roles DEF Own, Pursued, Cleared
<1>4. Listed(d)'
  BY <1>0, Roles DEF Own, Listed
<1> QED BY <1>1, <1>2, <1>3, <1>4 DEF Own

-----------------------------------------------------------------------------
(* Nothing happens to the variables of this module but by these steps.     *)
LEMMA NextIsStep ==
    ASSUME [Next]_vars
    PROVE  \/ \E t \in Thread : DriverStep(t)
           \/ \E c \in Conn : OpenerStep(c) \/ FrameworkStep(c) \/ StackStep(c)
           \/ \E r \in Reader :
                 EchoSent(r) \/ EchoFails(r) \/ FailedCallback(r) \/ CallbackReturns(r)
           \/ \E c \in Conn : Accept(c) \/ PeerDisconnects(c)
           \/ StartRemoval
           \/ ListDrained
           \/ UNCHANGED <<thread, conn, removal>>
BY DEF Next, Running, vars, ReaderStep, ReaderCode, ReadData, ReadFails, ReadCancelled,
       Rest, UseOfClearedRequest

-----------------------------------------------------------------------------
(* Types.  The readers keep theirs by the proofs of the repeat reader.     *)
LEMMA GotoType ==
    ASSUME TypeOK, NEW t \in Thread, NEW from, NEW to, Goto(t, from, to),
           to \in {"off", "respond", "opening", "opened", "refused", "init", "submit",
                   "submitting", "cancel", "mark", "lock", "clear", "close", "wake",
                   "unlink", "delete", "closing", "done"}
    PROVE  thread' \in [Thread -> Frame]
BY DEF Goto, TypeOK, Frame

LEMMA CallType ==
    ASSUME TypeOK, NEW t \in Thread, Call(t, "submit") \/ Call(t, "giveup") \/ Call(t, "late")
           \/ Call(t, "drop") \/ Call(t, "remove")
    PROVE  thread' \in [Thread -> Frame]
BY ParametersAssumption DEF Call, TypeOK, Frame

LEMMA ThreadType ==
    ASSUME TypeOK, Indices, [Next]_vars
    PROVE  thread' \in [Thread -> Frame]
<1>1. ASSUME NEW t \in Thread, DriverStep(t) PROVE thread' \in [Thread -> Frame]
  <2>1. CASE CancelReader(t) \/ DisconnectBegins(t) \/ ClearDisconnectEvent(t) \/ Unlink(t)
             \/ Delete(t)
    BY <2>1, GotoType
       DEF CancelReader, DisconnectBegins, ClearDisconnectEvent, Unlink, Delete
  <2>2. CASE DisconnectWhileConnecting(t) \/ DisconnectRefused(t) \/ CloseNotSent(t)
    BY <2>2, GotoType
       DEF DisconnectWhileConnecting, DisconnectRefused, CloseNotSent, AfterDisconnect
  <2>3. CASE SetDisconnectEvent(t)
    BY <2>3, GotoType DEF SetDisconnectEvent
  <2>4. CASE CancelsDone(t)
    BY <2>4, GotoType, CallType DEF CancelsDone
  <2>5. CASE UnlinkStale(t)
    BY <2>5 DEF UnlinkStale, TypeOK
  <2>6. CASE SendClose(t)
    <3>1. AfterDisconnect(t, TRUE) \in {"unlink", "done"}
      BY DEF AfterDisconnect
    <3>2. <<t[1], Closer>> \in Thread
      BY Roles
    <3> DEFINE left == [thread EXCEPT ![t].at = AfterDisconnect(t, TRUE)]
    <3>3. left \in [Thread -> Frame]
      BY <3>1 DEF TypeOK, Frame
    <3>4. thread' = [left EXCEPT ![<<t[1], Closer>>].at = "closing"]
      BY <2>6 DEF SendClose
    <3> HIDE DEF left
    <3>5. [left[<<t[1], Closer>>] EXCEPT !.at = "closing"] \in Frame
      BY <3>2, <3>3 DEF Frame
    <3> QED BY <3>2, <3>3, <3>4, <3>5
  <2>7. CASE CancelReaderRequest(t)
    <3>1. thread[t].i <= conn[t[1]].count
      BY <2>7 DEF CancelReaderRequest, Indices
    <3>2. thread[t].i + 1 \in 1 .. NumReaders + 1
      BY <3>1, Roles, ParametersAssumption DEF TypeOK, Frame, Connection
    <3> QED BY <2>7, <3>2 DEF CancelReaderRequest, TypeOK, Frame
  <2> QED BY <1>1, <2>1, <2>2, <2>3, <2>4, <2>5, <2>6, <2>7 DEF DriverStep
<1>2. ASSUME NEW c \in Conn, OpenerStep(c) PROVE thread' \in [Thread -> Frame]
  <2> DEFINE t == <<c, Opener>>
  <2> t \in Thread
    BY Roles
  <2>1. CASE SendResponse(c) \/ ResponseNotSent(c) \/ Refused(c)
    BY <2>1, GotoType DEF SendResponse, ResponseNotSent, Refused
  <2>2. CASE InitReader(c) \/ SubmitReader(c)
    BY <2>2, GotoType DEF InitReader, SubmitReader
  <2>3. CASE Opened(c) \/ InitReaderFails(c)
    BY <2>3, GotoType, CallType DEF Opened, InitReaderFails
  <2>4. CASE SubmitReturns(c)
    <3>1. thread[t].i <= conn[t[1]].count
      BY <2>4 DEF SubmitReturns, Indices
    <3>2. thread[t].i + 1 \in 1 .. NumReaders + 1
      BY <3>1, Roles, ParametersAssumption DEF TypeOK, Frame, Connection
    <3>3. CASE Call(t, "submit")
      BY <3>3, CallType
    <3>4. CASE thread' = [thread EXCEPT ![t].i = @ + 1,
                      ![t].at = IF thread[t].i < conn[c].count THEN "submit" ELSE "done"]
      <4> DEFINE next == [thread EXCEPT ![t].i = @ + 1]
      <4>1. next \in [Thread -> Frame]
        BY <3>2 DEF TypeOK, Frame
      <4> QED BY <3>4, <4>1 DEF Frame
    <3> QED BY <2>4, <3>3, <3>4 DEF SubmitReturns
  <2> QED BY <1>2, <2>1, <2>2, <2>3, <2>4 DEF OpenerStep
<1>3. ASSUME NEW c \in Conn,
             FrameworkStep(c) \/ StackStep(c) \/ Accept(c) \/ PeerDisconnects(c)
      PROVE  thread' \in [Thread -> Frame]
  <2>1. /\ <<c, Opener>> \in Thread /\ <<c, Closer>> \in Thread
        /\ <<c, Remover>> \in Thread /\ <<c, Indicator>> \in Thread
    BY Roles
  <2>2. CASE StackStep(c) \/ Accept(c)
    BY <2>1, <2>2, GotoType
       DEF StackStep, ChannelOpens, ChannelRefused, CloseCompletes, Accept
  <2>3. CASE FrameworkStep(c) \/ PeerDisconnects(c)
    BY <2>1, <2>3, CallType
       DEF FrameworkStep, WaitReader, UninitializeReader, Dispose, PopConnection, DeleteChild,
           PeerDisconnects, TypeOK
  <2> QED BY <1>3, <2>2, <2>3
<1>4. ASSUME NEW r \in Reader,
             EchoSent(r) \/ EchoFails(r) \/ FailedCallback(r) \/ CallbackReturns(r)
      PROVE  thread' \in [Thread -> Frame]
  BY <1>4, Roles, GotoType, CallType
     DEF EchoSent, EchoFails, FailedCallback, CallbackReturns
<1>5. CASE StartRemoval \/ ListDrained \/ UNCHANGED <<thread, conn, removal>>
  BY <1>5 DEF StartRemoval, ListDrained, TypeOK
<1> QED BY <1>1, <1>2, <1>3, <1>4, <1>5, NextIsStep

LEMMA ConnType ==
    ASSUME TypeOK, [Next]_vars
    PROVE  conn' \in [Conn -> Connection]
<1>1. ASSUME NEW t \in Thread, DriverStep(t) PROVE conn' \in [Conn -> Connection]
  <2>1. CASE UNCHANGED conn
    BY <2>1 DEF TypeOK
  <2>2. PICK c \in Conn, k \in Role : t = <<c, k>>
    BY Roles
  <2> QED
    BY <1>1, <2>1, <2>2, DisconnectWhileConnectingChanges, DisconnectBeginsChanges,
       ClearDisconnectEventChanges, SendCloseChanges, CloseNotSentChanges,
       SetDisconnectEventChanges, UnlinkChanges, DeleteChanges
       DEF DriverStep, CancelReader, CancelReaderRequest, CancelsDone, DisconnectRefused,
           UnlinkStale, Changes
<1>2. ASSUME NEW c \in Conn, OpenerStep(c) \/ StackStep(c)
      PROVE  conn' \in [Conn -> Connection]
  BY <1>2, SendResponseChanges, ResponseNotSentChanges, OpenedChanges, RefusedChanges,
     InitReaderChanges, ChannelOpensChanges, ChannelRefusedChanges, CloseCompletesChanges
     DEF OpenerStep, StackStep, InitReaderFails, SubmitReader, SubmitReturns, Changes,
         TypeOK
<1>3. ASSUME NEW c \in Conn,
             FrameworkStep(c) \/ Accept(c) \/ PeerDisconnects(c)
      PROVE  conn' \in [Conn -> Connection]
  BY <1>3, UninitializeReaderChanges, DisposeChanges, PopConnectionChanges, DeleteChildChanges,
     AcceptChanges, PeerDisconnectsChanges DEF FrameworkStep, WaitReader, Changes, TypeOK
<1>4. ASSUME UNCHANGED conn PROVE conn' \in [Conn -> Connection]
  BY <1>4 DEF TypeOK
<1> QED BY <1>1, <1>2, <1>3, <1>4, NextIsStep
           DEF EchoSent, EchoFails, FailedCallback, CallbackReturns, StartRemoval,
               ListDrained

(* An index below the number of readers names one.                         *)
LEMMA ReaderOf ==
    ASSUME TypeOK, Indices, NEW t \in Thread, thread[t].i <= conn[t[1]].count
    PROVE  <<t[1], thread[t].i>> \in Reader
<1>1. t[1] \in Conn
  BY Roles
<1>2. conn[t[1]].count \in 0 .. NumReaders /\ thread[t].i \in 1 .. NumReaders + 1
  BY <1>1 DEF TypeOK, Connection, Frame
<1>3. thread[t].i \in 1 .. NumReaders
  BY <1>2, ParametersAssumption
<1> QED BY <1>1, <1>3 DEF Reader

(* Every step of the server is a step of its readers or leaves them alone. *)
LEMMA ReadersStep ==
    ASSUME TypeOK, Indices, [Next]_vars
    PROVE  [RR!Next]_(RR!rvars)
<1>1. CASE UNCHANGED readers
  BY <1>1 DEF readers, RR!rvars
<1>2. ASSUME NEW t \in Thread, CancelReader(t) \/ CancelReaderRequest(t)
      PROVE  RR!Next
  <2>1. thread[t].i <= conn[t[1]].count
    BY <1>2 DEF CancelReader, CancelReaderRequest, Indices
  <2>2. <<t[1], thread[t].i>> \in Reader
    BY <2>1, ReaderOf
  <2> QED BY <1>2, <2>2 DEF CancelReader, CancelReaderRequest, RR!Next
<1>3. ASSUME NEW c \in Conn, SubmitReader(c) PROVE RR!Next
  <2>1. <<c, Opener>> \in Thread
    BY Roles
  <2>2. thread[<<c, Opener>>].i <= conn[c].count
    BY <1>3, <2>1 DEF SubmitReader, Goto, Indices
  <2>3. <<c, thread[<<c, Opener>>].i>> \in Reader
    BY <2>1, <2>2, ReaderOf
  <2> QED BY <1>3, <2>3 DEF SubmitReader, RR!Next
<1>4. ASSUME NEW r \in Reader, ReaderCode(r) \/ CallbackReturns(r) PROVE RR!Next
  BY <1>4 DEF ReaderCode, CallbackReturns, RR!Next, RR!ReaderStep
<1>5. ASSUME NEW r \in Reader, ReadData(r) \/ ReadFails(r) \/ ReadCancelled(r)
      PROVE  RR!Next
  BY <1>5 DEF ReadData, ReadFails, ReadCancelled, RR!Next
<1>6. ASSUME NEW t \in Thread, DriverStep(t)
      PROVE  UNCHANGED readers \/ CancelReader(t) \/ CancelReaderRequest(t)
  BY <1>6
     DEF DriverStep, CancelsDone, DisconnectWhileConnecting, DisconnectRefused,
         DisconnectBegins, ClearDisconnectEvent, SendClose, CloseNotSent,
         SetDisconnectEvent, Unlink, UnlinkStale, Delete
<1>7. ASSUME NEW c \in Conn, OpenerStep(c)
      PROVE  UNCHANGED readers \/ SubmitReader(c)
  BY <1>7
     DEF OpenerStep, SendResponse, ResponseNotSent, Opened, Refused, InitReader,
         InitReaderFails, SubmitReturns
<1>8. ASSUME NEW c \in Conn,
             FrameworkStep(c) \/ StackStep(c) \/ Accept(c) \/ PeerDisconnects(c)
      PROVE  UNCHANGED readers \/ WaitReader(c) \/ UninitializeReader(c)
  BY <1>8
     DEF FrameworkStep, Dispose, PopConnection, DeleteChild, StackStep,
         ChannelOpens, ChannelRefused, CloseCompletes, Accept, PeerDisconnects
<1>9. ASSUME NEW r \in Reader, ReaderStep(r)
      PROVE  UNCHANGED readers \/ ReaderCode(r) \/ CallbackReturns(r)
  BY <1>9 DEF ReaderStep, EchoSent, EchoFails, FailedCallback
<1>10. CASE StartRemoval \/ ListDrained \/ UseOfClearedRequest \/ UNCHANGED vars
  BY <1>1, <1>10 DEF StartRemoval, ListDrained, UseOfClearedRequest, vars
<1>11. ASSUME NEW c \in Conn, WaitReader(c) \/ UninitializeReader(c) PROVE RR!Next
  <2>1. /\ conn[c].waited < conn[c].count /\ conn[c].waited \in 0 .. NumReaders
        /\ conn[c].count \in 0 .. NumReaders
    BY <1>11 DEF WaitReader, UninitializeReader, TypeOK, Connection
  <2>2. Awaited(c) \in Reader
    BY <2>1, ParametersAssumption DEF Awaited, Reader
  <2> QED BY <1>11, <2>2 DEF WaitReader, UninitializeReader, RR!Next
<1> QED BY <1>1, <1>2, <1>3, <1>4, <1>5, <1>6, <1>7, <1>8, <1>9, <1>10, <1>11
        DEF Next, Running

(* The proofs of the repeat reader are about the module that the server    *)
(* uses: their definitions are the same formulas.                          *)
LEMMA SameReader ==
    /\ RRP!TypeOK <=> RR!TypeOK
    /\ RRP!Init <=> RR!Init
    /\ [RRP!Next]_(RRP!rvars) <=> [RR!Next]_(RR!rvars)
<1>1. RRP!TypeOK <=> RR!TypeOK
  BY DEF RR!TypeOK, RRP!TypeOK, RR!Label, RRP!Label, RR!Submitting, RRP!Submitting,
         RR!Caller, RRP!Caller, RR!RequestState, RRP!RequestState, RR!HandleState,
         RRP!HandleState
<1>2. RRP!Init <=> RR!Init
  BY DEF RR!Init, RRP!Init
<1>3. [RRP!Next]_(RRP!rvars) <=> [RR!Next]_(RR!rvars)
  BY DEF RR!Next, RRP!Next, RR!ReaderStep, RRP!ReaderStep, RR!Go, RRP!Go, RR!Start,
         RRP!Start, RR!ResubmitDpc, RRP!ResubmitDpc, RR!Reuse, RRP!Reuse, RR!CheckStopping,
         RRP!CheckStopping, RR!Format, RRP!Format, RR!FormatFails, RRP!FormatFails,
         RR!ClearStopEvent, RRP!ClearStopEvent, RR!Send, RRP!Send, RR!SendFails,
         RRP!SendFails, RR!QueueDpc, RRP!QueueDpc, RR!FailureHandled, RRP!FailureHandled,
         RR!SetStopEvent, RRP!SetStopEvent, RR!Complete, RRP!Complete, RR!CompleteRead,
         RRP!CompleteRead, RR!CompleteError, RRP!CompleteError, RR!CompleteCancelled,
         RRP!CompleteCancelled, RR!CancelSetsStopping, RRP!CancelSetsStopping,
         RR!CancelSentRequest, RRP!CancelSentRequest, RR!WaitForStop, RRP!WaitForStop,
         RR!Uninitialize, RRP!Uninitialize, RR!rvars, RRP!rvars
<1> QED BY <1>1, <1>2, <1>3

LEMMA ReadersTypeStep ==
    ASSUME TypeOK, Indices, [Next]_vars
    PROVE  (RR!TypeOK)'
<1>1. RRP!TypeOK /\ [RRP!Next]_(RRP!rvars) => (RRP!TypeOK)'
  BY RRP!TypeStep
<1>2. (RRP!TypeOK <=> RR!TypeOK)'
  BY DEF RR!TypeOK, RRP!TypeOK, RR!Label, RRP!Label, RR!Submitting, RRP!Submitting,
         RR!Caller, RRP!Caller, RR!RequestState, RRP!RequestState, RR!HandleState,
         RRP!HandleState
<1> QED BY <1>1, <1>2, SameReader, ReadersStep DEF TypeOK

LEMMA FlagsType ==
    ASSUME TypeOK, [Next]_vars
    PROVE  removal' \in {"no", "draining", "drained"} /\ halt' \in {"no", "list", "reader"}
<1>1. ASSUME NEW t \in Thread, DriverStep(t)
      PROVE  removal' = removal /\ (halt' = halt \/ halt' = "list")
  BY <1>1
     DEF DriverStep, CancelReader, CancelReaderRequest, CancelsDone,
         DisconnectWhileConnecting, DisconnectRefused, DisconnectBegins,
         ClearDisconnectEvent, SendClose, CloseNotSent, SetDisconnectEvent, Unlink,
         UnlinkStale, Delete
<1>2. ASSUME NEW c \in Conn, OpenerStep(c) \/ Accept(c) \/ PeerDisconnects(c)
      PROVE  removal' = removal /\ halt' = halt
  BY <1>2
     DEF OpenerStep, SendResponse, ResponseNotSent, Opened, Refused, InitReader,
         InitReaderFails, SubmitReader, SubmitReturns, Accept, PeerDisconnects
<1>3. ASSUME NEW c \in Conn, FrameworkStep(c) \/ StackStep(c)
      PROVE  removal' = removal /\ halt' = halt
  BY <1>3
     DEF FrameworkStep, WaitReader, UninitializeReader, Dispose, PopConnection, DeleteChild,
         StackStep, ChannelOpens, ChannelRefused, CloseCompletes
<1>4. ASSUME NEW r \in Reader,
             ReaderStep(r) \/ ReadData(r) \/ ReadFails(r) \/ ReadCancelled(r)
      PROVE  removal' = removal /\ halt' = halt
  BY <1>4
     DEF ReaderStep, ReaderCode, EchoSent, EchoFails, FailedCallback, CallbackReturns,
         ReadData, ReadFails, ReadCancelled, Rest
<1>5. CASE StartRemoval \/ ListDrained \/ UseOfClearedRequest \/ UNCHANGED vars
  BY <1>5 DEF StartRemoval, ListDrained, UseOfClearedRequest, vars, TypeOK
<1> QED BY <1>1, <1>2, <1>3, <1>4, <1>5 DEF Next, Running, TypeOK

LEMMA TypeStep ==
    ASSUME TypeOK, Indices, [Next]_vars
    PROVE  TypeOK'
BY FlagsType, ReadersTypeStep, ThreadType, ConnType DEF TypeOK

-----------------------------------------------------------------------------
(* The number of readers only grows.                                       *)
CountsKept == \A d \in Conn : conn'[d].count \in Nat /\ conn[d].count <= conn'[d].count

-----------------------------------------------------------------------------
(* Indices stay below the number of readers, which only grows.             *)
LEMMA CountsGrow ==
    ASSUME TypeOK, [Next]_vars
    PROVE  CountsKept
<1> USE ParametersAssumption
<1>1. \A d \in Conn : conn[d].count \in Nat
  BY DEF TypeOK, Connection
<1>2. ASSUME NEW c \in Conn, NEW o, Changes(c, o) PROVE CountsKept
  BY <1>1, <1>2 DEF CountsKept, Changes, Connection
<1>3. ASSUME UNCHANGED conn PROVE CountsKept
  BY <1>1, <1>3 DEF CountsKept
<1>4. ASSUME NEW t \in Thread, DriverStep(t) PROVE CountsKept
  <2>1. PICK c \in Conn, k \in Role : t = <<c, k>>
    BY Roles
  <2> QED
    BY <1>2, <1>3, <1>4, <2>1, DisconnectWhileConnectingChanges, DisconnectBeginsChanges,
       ClearDisconnectEventChanges, SendCloseChanges, CloseNotSentChanges,
       SetDisconnectEventChanges, UnlinkChanges, DeleteChanges
       DEF DriverStep, CancelReader, CancelReaderRequest, CancelsDone, DisconnectRefused,
           UnlinkStale
<1>5. ASSUME NEW c \in Conn, OpenerStep(c) \/ StackStep(c) PROVE CountsKept
  BY <1>2, <1>3, <1>5, SendResponseChanges, ResponseNotSentChanges, OpenedChanges,
     RefusedChanges, InitReaderChanges, ChannelOpensChanges, ChannelRefusedChanges,
     CloseCompletesChanges
     DEF OpenerStep, StackStep, InitReaderFails, SubmitReader, SubmitReturns
<1>6. ASSUME NEW c \in Conn, FrameworkStep(c) \/ Accept(c) \/ PeerDisconnects(c)
      PROVE  CountsKept
  BY <1>2, <1>3, <1>6, UninitializeReaderChanges, DisposeChanges, PopConnectionChanges,
     DeleteChildChanges, AcceptChanges, PeerDisconnectsChanges DEF FrameworkStep, WaitReader
<1> QED BY <1>3, <1>4, <1>5, <1>6, NextIsStep
           DEF EchoSent, EchoFails, FailedCallback, CallbackReturns, StartRemoval,
               ListDrained

LEMMA OneIndex ==
    ASSUME TypeOK, Indices, CountsKept, NEW c \in Conn, NEW k \in Role, NEW from, NEW to,
           Moves(c, k, from, to),
           to \in {"mark", "submit", "submitting"} =>
               thread'[<<c, k>>].i <= conn'[c].count,
           k = Opener /\ to \in Early \cup {"init"} => thread'[<<c, k>>].i = 1
    PROVE  Indices'
<1>1. ASSUME NEW d \in Conn, NEW j \in Role,
             thread'[<<d, j>>].at \in {"mark", "submit", "submitting"}
      PROVE  thread'[<<d, j>>].i <= conn'[d].count
  <2>1. CASE <<d, j>> = <<c, k>>
    BY <1>1, <2>1 DEF Moves, At
  <2>2. CASE <<d, j>> # <<c, k>>
    <3>1. thread'[<<d, j>>] = thread[<<d, j>>]
      BY <2>2 DEF Moves
    <3>2. thread[<<d, j>>].i <= conn[d].count
      BY <1>1, <3>1, Roles DEF Indices
    <3>3. thread[<<d, j>>].i \in Nat /\ conn[d].count \in Nat
      BY Roles, ParametersAssumption DEF TypeOK, Frame, Connection
    <3> QED BY <3>1, <3>2, <3>3 DEF CountsKept
  <2> QED BY <2>1, <2>2
<1>2. ASSUME NEW d \in Conn, thread'[<<d, Opener>>].at \in Early \cup {"init"}
      PROVE  thread'[<<d, Opener>>].i = 1
  BY <1>2, Roles DEF Moves, At, Indices
<1> QED BY <1>1, <1>2, Roles DEF Indices

LEMMA NoIndex ==
    ASSUME TypeOK, Indices, CountsKept, thread' = thread
    PROVE  Indices'
<1>1. \A t \in Thread : thread[t].i \in Nat /\ conn[t[1]].count \in Nat
  BY Roles, ParametersAssumption DEF TypeOK, Frame, Connection
<1> QED BY <1>1, Roles DEF Indices, CountsKept

LEMMA IndicesGoto ==
    ASSUME TypeOK, Indices, CountsKept, NEW c \in Conn, NEW k \in Role, NEW from, NEW to,
           Goto(<<c, k>>, from, to), to \notin {"mark", "submit", "submitting"},
           k = Opener /\ to \in Early \cup {"init"} => from \in Early \cup {"init"}
    PROVE  Indices'
<1>1. Moves(c, k, from, to) /\ thread'[<<c, k>>].i = thread[<<c, k>>].i /\ At(c, k) = from
  BY GotoMoves DEF Moves
<1>2. k = Opener /\ to \in Early \cup {"init"} => thread'[<<c, k>>].i = 1
  BY <1>1 DEF Indices, At
<1> QED BY <1>1, <1>2, OneIndex

LEMMA IndicesCall ==
    ASSUME TypeOK, Indices, CountsKept, NEW c \in Conn, NEW k \in Role, NEW path,
           Call(<<c, k>>, path)
    PROVE  Indices'
<1>1. Moves(c, k, At(c, k), "cancel")
  BY CallMoves
<1> QED BY <1>1, OneIndex DEF Early

LEMMA IndicesStep ==
    ASSUME TypeOK, Indices, [Next]_vars
    PROVE  Indices'
<1> CountsKept
  BY CountsGrow
<1>1. ASSUME NEW c \in Conn, NEW k \in Role, DriverStep(<<c, k>>) PROVE Indices'
  <2>1. CASE CancelReader(<<c, k>>)
    <3>1. /\ Moves(c, k, "cancel", "mark") /\ thread'[<<c, k>>].i = thread[<<c, k>>].i
          /\ thread[<<c, k>>].i <= conn[c].count /\ conn' = conn
      BY <2>1, GotoMoves DEF CancelReader
    <3> QED BY <3>1, OneIndex DEF Early
  <2>2. CASE CancelReaderRequest(<<c, k>>)
    <3>1. Moves(c, k, "mark", "cancel")
      BY <2>2, Roles DEF CancelReaderRequest, TypeOK, Frame, Moves, At
    <3> QED BY <3>1, OneIndex DEF Early
  <2>3. CASE CancelsDone(<<c, k>>)
    <3>1. CASE Call(<<c, k>>, "giveup")
      BY <3>1, IndicesCall
    <3>2. CASE Goto(<<c, k>>, "cancel", "lock")
      BY <3>2, IndicesGoto DEF Early
    <3> QED BY <2>3, <3>1, <3>2 DEF CancelsDone
  <2>4. CASE DisconnectWhileConnecting(<<c, k>>) \/ DisconnectRefused(<<c, k>>)
             \/ CloseNotSent(<<c, k>>)
    <3>1. \A b \in BOOLEAN : AfterDisconnect(<<c, k>>, b) \in {"unlink", "done"}
      BY DEF AfterDisconnect
    <3> QED BY <2>4, <3>1, IndicesGoto
               DEF DisconnectWhileConnecting, DisconnectRefused, CloseNotSent, Early
  <2>5. CASE DisconnectBegins(<<c, k>>) \/ ClearDisconnectEvent(<<c, k>>)
             \/ Unlink(<<c, k>>) \/ Delete(<<c, k>>)
    BY <2>5, IndicesGoto DEF DisconnectBegins, ClearDisconnectEvent, Unlink, Delete, Early
  <2>6. CASE SetDisconnectEvent(<<c, k>>)
    BY <2>6, IndicesGoto DEF SetDisconnectEvent, Early
  <2>7. CASE SendClose(<<c, k>>)
    <3>1. \A u \in Thread :
              /\ thread'[u].i = thread[u].i
              /\ \/ thread'[u].at = thread[u].at
                 \/ thread'[u].at \in {"unlink", "done", "closing"}
      <4> DEFINE left == [thread EXCEPT ![<<c, k>>].at = AfterDisconnect(<<c, k>>, TRUE)]
      <4>1. /\ AfterDisconnect(<<c, k>>, TRUE) \in {"unlink", "done"}
            /\ <<c, k>> \in Thread /\ <<c, Closer>> \in Thread
        BY Roles DEF AfterDisconnect
      <4>2. /\ left \in [Thread -> Frame]
            /\ \A u \in Thread :
                  /\ left[u].i = thread[u].i
                  /\ left[u].at = thread[u].at \/ left[u].at \in {"unlink", "done"}
        BY <4>1 DEF TypeOK, Frame
      <4>3. thread' = [left EXCEPT ![<<c, Closer>>].at = "closing"]
        BY <2>7 DEF SendClose
      <4> HIDE DEF left
      <4> QED BY <4>1, <4>2, <4>3 DEF Frame
    <3>2. \A u \in Thread : thread[u].i \in Nat /\ conn[u[1]].count \in Nat
      BY Roles, ParametersAssumption DEF TypeOK, Frame, Connection
    <3>3. \A d \in Conn : <<d, Opener>> \in Thread
      BY Roles
    <3> QED BY <3>1, <3>2, <3>3, Roles DEF Indices, CountsKept, Early
  <2>8. CASE UnlinkStale(<<c, k>>)
    BY <2>8, NoIndex DEF UnlinkStale
  <2> QED BY <1>1, <2>1, <2>2, <2>3, <2>4, <2>5, <2>6, <2>7, <2>8 DEF DriverStep
<1>2. ASSUME NEW c \in Conn, OpenerStep(c) PROVE Indices'
  <2> DEFINE t == <<c, Opener>>
  <2> Opener \in Role
    BY Roles
  <2>1. CASE SendResponse(c) \/ ResponseNotSent(c)
    BY <2>1, IndicesGoto DEF SendResponse, ResponseNotSent, Early
  <2>2. CASE Opened(c)
    <3>1. CASE Call(t, "late")
      BY <3>1, IndicesCall
    <3>2. CASE Goto(t, "opened", "init")
      BY <3>2, IndicesGoto DEF Early
    <3> QED BY <2>2, <3>1, <3>2 DEF Opened
  <2>3. CASE Refused(c)
    BY <2>3, IndicesGoto DEF Refused, Early
  <2>4. CASE InitReader(c)
    <3>1. /\ Moves(c, Opener, "init",
                   IF conn[c].count + 1 = NumReaders THEN "submit" ELSE "init")
          /\ thread'[t].i = thread[t].i /\ At(c, Opener) = "init"
      BY <2>4, GotoMoves DEF InitReader, Moves
    <3>2. thread[t].i = 1
      BY <3>1 DEF At, Indices
    <3>3. conn'[c].count = conn[c].count + 1 /\ conn[c].count \in Nat
      <4>1. conn'[c] = [conn[c] EXCEPT !.count = @ + 1]
        BY <2>4, InitReaderChanges DEF Changes
      <4> QED BY <4>1, ConnectionTyped, ParametersAssumption DEF Connection
    <3> QED BY <3>1, <3>2, <3>3, OneIndex
  <2>5. CASE InitReaderFails(c)
    BY <2>5, IndicesCall DEF InitReaderFails
  <2>6. CASE SubmitReader(c)
    <3>1. /\ Moves(c, Opener, "submit", "submitting") /\ At(c, Opener) = "submit"
          /\ thread'[t].i = thread[t].i /\ conn' = conn
      BY <2>6, GotoMoves DEF SubmitReader, Moves
    <3>2. thread[t].i <= conn[c].count
      BY <3>1, Roles DEF At, Indices
    <3> QED BY <3>1, <3>2, OneIndex DEF Early
  <2>7. CASE SubmitReturns(c)
    <3>1. CASE Call(t, "submit")
      BY <3>1, IndicesCall
    <3>2. CASE thread' = [thread EXCEPT ![t].i = @ + 1,
                   ![t].at = IF thread[t].i < conn[c].count THEN "submit" ELSE "done"]
      <4> DEFINE to == IF thread[t].i < conn[c].count THEN "submit" ELSE "done"
      <4>1. Moves(c, Opener, At(c, Opener), to) /\ thread'[t].i = thread[t].i + 1
        BY <3>2, Roles DEF TypeOK, Frame, Moves, At
      <4>2. to = "submit" => thread'[t].i <= conn'[c].count
        BY <2>7, <4>1, Roles, ConnectionTyped, ParametersAssumption
           DEF SubmitReturns, TypeOK, Frame, Connection
      <4>3. to \in {"submit", "done"}
        OBVIOUS
      <4> HIDE DEF to
      <4> QED BY <4>1, <4>2, <4>3, OneIndex DEF Early
    <3> QED BY <2>7, <3>1, <3>2 DEF SubmitReturns
  <2> QED BY <1>2, <2>1, <2>2, <2>3, <2>4, <2>5, <2>6, <2>7 DEF OpenerStep
<1>3. ASSUME NEW c \in Conn,
             FrameworkStep(c) \/ StackStep(c) \/ Accept(c) \/ PeerDisconnects(c)
      PROVE  Indices'
  <2> Opener \in Role /\ Closer \in Role /\ Remover \in Role /\ Indicator \in Role
    BY Roles
  <2>1. CASE PopConnection(c) \/ PeerDisconnects(c)
    BY <2>1, IndicesCall DEF PopConnection, PeerDisconnects
  <2>2. CASE WaitReader(c) \/ UninitializeReader(c) \/ Dispose(c) \/ DeleteChild(c)
    BY <2>2, NoIndex DEF WaitReader, UninitializeReader, Dispose, DeleteChild
  <2>3. CASE StackStep(c) \/ Accept(c)
    BY <2>3, IndicesGoto
       DEF StackStep, ChannelOpens, ChannelRefused, CloseCompletes, Accept, Early, Opener,
           Closer
  <2> QED BY <1>3, <2>1, <2>2, <2>3 DEF FrameworkStep
<1>4. ASSUME NEW c \in Conn, NEW k \in 1 .. NumReaders,
             \/ EchoSent(<<c, k>>) \/ EchoFails(<<c, k>>)
             \/ FailedCallback(<<c, k>>) \/ CallbackReturns(<<c, k>>)
      PROVE  Indices'
  <2> k \in Role /\ k # Opener
    BY Roles DEF Opener
  <2> QED BY <1>4, IndicesCall, IndicesGoto
             DEF EchoSent, EchoFails, FailedCallback, CallbackReturns
<1>5. CASE StartRemoval \/ ListDrained \/ UNCHANGED <<thread, conn, removal>>
  BY <1>5, NoIndex DEF StartRemoval, ListDrained
<1>6. /\ \A t \in Thread : DriverStep(t) => Indices'
      /\ \A r \in Reader :
             EchoSent(r) \/ EchoFails(r) \/ FailedCallback(r) \/ CallbackReturns(r)
                               => Indices'
  BY <1>1, <1>4, Roles DEF Reader
<1> QED BY <1>2, <1>3, <1>5, <1>6, NextIsStep

-----------------------------------------------------------------------------
LEMMA InvInit == Init => IInv
<1> SUFFICES ASSUME Init PROVE IInv
  OBVIOUS
<1> USE ParametersAssumption
<1>1. TypeOK
  <2>1. RR!TypeOK
    BY DEF Init, RR!Init, RR!TypeOK, RR!Label, RR!Submitting, RR!Caller, RR!RequestState,
           RR!HandleState
  <2>2. thread \in [Thread -> Frame]
    BY DEF Init, Frame
  <2>3. conn \in [Conn -> Connection]
    BY DEF Init, Connection, ConnState
  <2> QED BY <2>1, <2>2, <2>3 DEF Init, TypeOK
<1>2. /\ \A t \in Thread : thread[t].at = "off" /\ thread[t].i = 1 /\ thread[t].for = "none"
      /\ \A c \in Conn, k \in Role : At(c, k) = "off" /\ thread[<<c, k>>].for = "none"
  BY Roles DEF Init, At
<1>3. Indices
  BY <1>2, Roles DEF Indices, Early
<1>4. ASSUME NEW c \in Conn PROVE Own(c)
  <2>1. /\ conn[c].state = "initialized" /\ conn[c].channel = "none" /\ conn[c].discEvent
        /\ conn[c].closes = 0 /\ ~conn[c].unsent /\ conn[c].entry = "self"
        /\ conn[c].object = "none" /\ removal = "no"
        /\ \A i \in 1 .. NumReaders : rpc[<<c, i>>] = "idle"
    BY DEF Init, RR!Init, Reader
  <2> QED BY <1>2, <2>1, Roles
             DEF Own, Opening, Answered, Commits, Closes, Pursued, Cleared, Listed, Early,
                 Committed
<1> QED BY <1>1, <1>3, <1>4 DEF IInv

(* Every step is one of a connection's life or leaves it alone.            *)
LifeGoes ==
    \/ LifeRests
    \/ \E c \in Conn :
        \/ LifeMoves(c, "idle", "opening", Ending(c))
        \/ LifeMoves(c, "opening", "open", Ending(c))
        \/ LifeMoves(c, "opening", "closed", TRUE)
        \/ LifeMoves(c, Phase(c), Phase(c), TRUE) /\ (Phase(c) = "closed" => Ending(c))
        \/ LifeMoves(c, "open", "closing", Ending(c)) /\ Ending(c)
        \/ LifeMoves(c, "closing", "closed", Ending(c))

-----------------------------------------------------------------------------
(* All steps together.                                                     *)
LEMMA OwnStep ==
    ASSUME IInv, [Next]_vars
    PROVE  (\A d \in Conn : Own(d)') /\ LifeGoes
<1> DEFINE Kept == (\A d \in Conn : Own(d)') /\ LifeGoes
<1>1. ASSUME NEW c \in Conn, NEW k \in Role, DriverStep(<<c, k>>) PROVE Kept
  <2>1. CASE UnlinkStale(<<c, k>>)
    BY <2>1, ThreadsRest DEF UnlinkStale, readers, LifeGoes
  <2> QED
    BY <1>1, <2>1, CancellingKeeps, DisconnectWhileConnectingKeeps, DisconnectBeginsKeeps,
       ClearDisconnectEventKeeps, SendCloseKeeps, CloseNotSentKeeps,
       SetDisconnectEventKeeps, UnlinkKeeps, DeleteKeeps DEF DriverStep, LifeGoes
<1>2. ASSUME NEW c \in Conn, OpenerStep(c) PROVE Kept
  BY <1>2, SendResponseKeeps, ResponseNotSentKeeps, OpenedKeeps, RefusedKeeps, OpenerRuns
     DEF OpenerStep, LifeGoes
<1>3. ASSUME NEW c \in Conn, FrameworkStep(c) PROVE Kept
  BY <1>3, FrameworkKeeps, PopConnectionKeeps DEF FrameworkStep, LifeGoes
<1>4. ASSUME NEW c \in Conn, StackStep(c) \/ Accept(c) \/ PeerDisconnects(c) PROVE Kept
  BY <1>4, ChannelOpensKeeps, ChannelRefusedKeeps, CloseCompletesKeeps, AcceptKeeps,
     PeerDisconnectsKeeps DEF StackStep, LifeGoes
<1>5. ASSUME NEW r \in Reader,
             ReaderStep(r) \/ ReadData(r) \/ ReadFails(r) \/ ReadCancelled(r)
      PROVE  Kept
  <2>1. PICK c \in Conn, k \in 1 .. NumReaders : r = <<c, k>>
    BY DEF Reader
  <2> QED BY <1>5, <2>1, CallbackKeeps, ReaderRuns DEF ReaderStep, LifeGoes
<1>6. CASE StartRemoval \/ ListDrained
  BY <1>6, RemovalKeeps DEF LifeGoes
<1>7. CASE UseOfClearedRequest \/ UNCHANGED vars
  BY <1>7, ThreadsRest DEF UseOfClearedRequest, vars, readers, LifeGoes
<1>8. ASSUME NEW t \in Thread, DriverStep(t) PROVE Kept
  BY <1>1, <1>8, Roles
<1> QED BY <1>2, <1>3, <1>4, <1>5, <1>6, <1>7, <1>8 DEF Next, Running

LEMMA InvStep == IInv /\ [Next]_vars => IInv'
BY TypeStep, IndicesStep, OwnStep DEF IInv

LEMMA Invariant == Spec => []IInv
<1>1. Init => IInv
  BY InvInit
<1>2. IInv /\ [Next]_vars => IInv'
  BY InvStep
<1> QED BY <1>1, <1>2, PTL DEF Spec

-----------------------------------------------------------------------------
(* Connections, readers, threads and the list keep their types.            *)
THEOREM TypeCorrect == Spec => []TypeOK
<1>1. IInv => TypeOK
  BY DEF IInv
<1> QED BY <1>1, Invariant, PTL

(* However the peer's disconnect, the failures of the readers, a late      *)
(* disconnect of the open completion and the removal of the device         *)
(* interleave, BthEchoConnectionObjectRemoteDisconnect sends one L2CA close*)
(* for a connection at most.                                               *)
THEOREM DisconnectIsSentOnce == Spec => []DisconnectSentOnce
<1>1. IInv => DisconnectSentOnce
  <2> SUFFICES ASSUME IInv, NEW c \in Conn PROVE conn[c].closes <= 1
    BY DEF DisconnectSentOnce
  <2>1. conn[c].closes \in {0, 1}
    BY DEF IInv, Own, Closes
  <2> QED BY <2>1
<1> QED BY <1>1, Invariant, PTL

(* The connection list that the removal walks holds no object that has been*)
(* deleted, or is about to be: whoever deletes one has unlinked it.        *)
THEOREM ListIsLive == Spec => []ListHoldsLiveObjects
<1>1. IInv => ListHoldsLiveObjects
  BY ConnectionTyped DEF IInv, Own, Listed, ListHoldsLiveObjects, Connection
<1> QED BY <1>1, Invariant, PTL

(* A disconnect event that is clear has somebody who still has to set it: the*)
(* completion of the disconnect or of the opening, or a thread that is about*)
(* to send the disconnect; a disconnect that could not be sent is excepted.*)
(* The cleanup callback waits for the event without a timeout.             *)
THEOREM DisconnectEventIsSet == Spec => []DisconnectEventHasSetter
<1>1. IInv => DisconnectEventHasSetter
  <2> SUFFICES ASSUME IInv, NEW c \in Conn, ~conn[c].discEvent, ~conn[c].unsent
               PROVE  \/ At(c, Closer) \in {"closing", "wake"}
                      \/ At(c, Opener) \in {"opening", "opened", "refused", "wake"}
                      \/ \E k \in Role : At(c, k) \in {"clear", "close"}
                      \/ /\ thread[<<c, Opener>>].for = "late"
                         /\ At(c, Opener) \in {"cancel", "mark", "lock"}
    BY Roles DEF DisconnectEventHasSetter, At
  <2> Own(c)
    BY DEF IInv
  <2>1. CASE conn[c].state = "disconnecting" /\ At(c, Opener) \notin Early
    BY <2>1 DEF Own, Pursued, Committed
  <2>2. CASE conn[c].state = "disconnecting" /\ At(c, Opener) \in Early
    BY <2>2 DEF Own, Opening, Early
  <2>3. CASE conn[c].state # "disconnecting"
    BY <2>3 DEF Own, Cleared
  <2> QED BY <2>1, <2>2, <2>3
<1> QED BY <1>1, Invariant, PTL

-----------------------------------------------------------------------------
(* The channels, as ChannelLife sees them.                                 *)
LEMMA LifeInit == Init => Life!Init
<1> SUFFICES ASSUME Init PROVE Life!Init
  OBVIOUS
<1>1. \A c \in Conn : Phase(c) = "idle" /\ ~Ending(c)
  BY Roles DEF Init, Phase, Ending
<1> QED BY <1>1 DEF Life!Init

LEMMA LifeStep ==
    ASSUME LifeGoes
    PROVE  [Life!Next]_(Life!lvars)
<1> DEFINE phase == [c \in Conn |-> Phase(c)]
           ending == {c \in Conn : Ending(c)}
<1>1. CASE LifeRests
  BY <1>1 DEF LifeRests, Life!lvars
<1>2. ASSUME NEW c \in Conn, NEW from, NEW to, NEW ends \in BOOLEAN,
             LifeMoves(c, from, to, ends)
      PROVE  /\ phase[c] = from /\ phase' = [phase EXCEPT ![c] = to]
             /\ ends => ending' = ending \cup {c}
             /\ (ends <=> Ending(c)) => ending' = ending
  <2>1. phase[c] = from /\ phase' = [phase EXCEPT ![c] = to]
    BY <1>2 DEF LifeMoves
  <2>2. \A d \in Conn : d \in ending' <=> IF d = c THEN ends ELSE d \in ending
    BY <1>2 DEF LifeMoves
  <2>3. ending \subseteq Conn /\ ending' \subseteq Conn
    OBVIOUS
  <2>4. ends => ending' = ending \cup {c}
    BY <2>2, <2>3
  <2>5. (ends <=> Ending(c)) => ending' = ending
    BY <2>2, <2>3
  <2> QED BY <2>1, <2>4, <2>5
<1>3. \A c \in Conn : Ending(c) \in BOOLEAN /\ (Ending(c) <=> c \in ending)
  BY DEF Ending
<1> HIDE DEF phase, ending
<1>4. ASSUME NEW c \in Conn, LifeMoves(c, "idle", "opening", Ending(c)) PROVE Life!Open(c)
  BY <1>2, <1>3, <1>4 DEF Life!Open, Life!Move, phase, ending
<1>5. ASSUME NEW c \in Conn, LifeMoves(c, "opening", "open", Ending(c)) PROVE Life!Opened(c)
  BY <1>2, <1>3, <1>5 DEF Life!Opened, Life!Move, phase, ending
<1>6. ASSUME NEW c \in Conn, LifeMoves(c, "opening", "closed", TRUE) PROVE Life!Refused(c)
  BY <1>2, <1>6 DEF Life!Refused, Life!Move, phase, ending
<1>7. ASSUME NEW c \in Conn, LifeMoves(c, Phase(c), Phase(c), TRUE),
             Phase(c) = "closed" => Ending(c)
      PROVE  Life!Ask(c) \/ UNCHANGED Life!lvars
  <2>1. phase' = phase /\ phase[c] = Phase(c) /\ ending' = ending \cup {c}
    <3>1. phase' = phase /\ phase[c] = Phase(c)
      BY <1>7 DEF phase, LifeMoves
    <3>2. ending' = ending \cup {c}
      BY <1>2, <1>7 DEF ending
    <3> QED BY <3>1, <3>2
  <2>2. CASE Phase(c) = "closed"
    BY <1>3, <1>7, <2>1, <2>2 DEF Life!lvars, phase, ending
  <2>3. CASE Phase(c) # "closed"
    BY <2>1, <2>3 DEF Life!Ask, phase, ending
  <2> QED BY <2>2, <2>3
<1>8. ASSUME NEW c \in Conn, LifeMoves(c, "open", "closing", Ending(c)), Ending(c)
      PROVE  Life!Close(c)
  BY <1>2, <1>3, <1>8 DEF Life!Close, Life!Move, phase, ending
<1>9. ASSUME NEW c \in Conn, LifeMoves(c, "closing", "closed", Ending(c)) PROVE Life!Closed(c)
  BY <1>2, <1>3, <1>9 DEF Life!Closed, Life!Move, phase, ending
<1> QED BY <1>1, <1>4, <1>5, <1>6, <1>7, <1>8, <1>9 DEF LifeGoes, Life!Next

(* The server implements ChannelLife: whichever threads open, refuse, drop *)
(* and disconnect a connection, its channel goes through its phases in order*)
(* and is closed only when its end was asked for, which is never forgotten.*)
THEOREM ServerKeepsChannelLife == Spec => KeepsChannelLife
<1>1. Init => Life!Init
  BY LifeInit
<1>2. IInv /\ [Next]_vars => [Life!Next]_(Life!lvars)
  BY OwnStep, LifeStep
<1> QED BY <1>1, <1>2, Invariant, PTL DEF Spec, KeepsChannelLife, Life!Spec

(* The server implements the repeat reader: it starts and cancels readers  *)
(* only as RepeatReader lets its callers, and its cleanup callback waits   *)
(* for each and then clears the reader's request and Stopping.             *)
THEOREM ServerRunsRepeatReaders == Spec => RR!Spec
<1>1. Init => RR!Init
  BY DEF Init
<1>2. IInv /\ [Next]_vars => [RR!Next]_(RR!rvars)
  BY ReadersStep DEF IInv
<1> QED BY <1>1, <1>2, Invariant, PTL DEF Spec, RR!Spec

(* So what is proved of the repeat readers holds of those of every         *)
(* connection: a cancel that ran through leaves no read with the lower     *)
(* driver unmarked, and a reader whose stop event is signalled, which      *)
(* BthEchoConnectionObjectWaitForAndUninitializeContinuousReader waits     *)
(* for, is at rest or in the first submission made by the open completion. *)
THEOREM ServerReadersStop == Spec => [](RR!NoLostCancel /\ RR!StopEventMeansQuiet)
<1>1. Init => RRP!Init
  BY SameReader DEF Init
<1>2. IInv /\ [Next]_vars => [RRP!Next]_(RRP!rvars)
  BY ReadersStep, SameReader DEF IInv
<1>3. Spec => RRP!Spec
  BY <1>1, <1>2, Invariant, PTL DEF Spec, RRP!Spec
<1>4. RRP!NoLostCancel => RR!NoLostCancel
  BY DEF RR!NoLostCancel, RRP!NoLostCancel
<1>5. RRP!StopEventMeansQuiet => RR!StopEventMeansQuiet
  BY DEF RR!StopEventMeansQuiet, RRP!StopEventMeansQuiet, RR!FirstSubmission,
         RRP!FirstSubmission, RR!Submitting, RRP!Submitting
<1> QED BY <1>3, <1>4, <1>5, RRP!CancelNeverLost, RRP!SignalledMeansQuiet, PTL
=============================================================================
