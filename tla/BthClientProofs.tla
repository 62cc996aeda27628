---------------------------- MODULE BthClientProofs ----------------------------
(***************************************************************************)
(* Proofs about BthClient, for any files, any transfers and any faults.    *)
(***************************************************************************)
EXTENDS BthClient, TLAPS

Role == Connector .. Ender

At(f, k) == at[<<f, k>>]

Committed == {"clear", "close"}

(* The thread that opens the connection has it for itself until the        *)
(* channel is open, and nobody closes the file before its create is done.  *)
Creating(f) ==
    /\ At(f, Connector) \in {"off", "send", "opening", "opened", "refused", "complete",
                             "reject", "done"}
    /\ At(f, Connector) = "off" =>
           /\ conn[f].state = "initialized" /\ handle[f] \in {"none", "failed"}
           /\ conn[f].channel = "none"
    /\ At(f, Connector) \in {"send", "opening", "refused"} => conn[f].state = "connecting"
    /\ At(f, Connector) = "opened" =>
           /\ conn[f].state \in {"connecting", "disconnecting"}
           /\ conn[f].channel \in {"open", "dropped"}
    /\ At(f, Connector) = "complete" =>
           conn[f].state \in {"connected", "disconnecting", "disconnected"}
    /\ At(f, Connector) = "reject" => conn[f].state = "connectFailed"
    /\ At(f, Connector) = "done" => handle[f] \in {"open", "failed", "closing", "closed"}
    /\ At(f, Connector) \notin {"off", "done"} => handle[f] = "creating"
    /\ At(f, Connector) \in {"off", "send"} => conn[f].channel = "none"
    /\ At(f, Connector) = "opening" => conn[f].channel = "opening"
    /\ At(f, Connector) \in {"refused", "reject"} => conn[f].channel \in {"none", "closed"}

(* The file and the threads that end its connection.                       *)
Handled(f) ==
    /\ At(f, Indicator) \in {"off", "lock", "done"} \cup Committed
    /\ At(f, Closer) \in {"off", "lock", "wait", "done"} \cup Committed
    /\ handle[f] \in {"open", "closing", "closed"} =>
           conn[f].state \in {"connected", "disconnecting", "disconnected"}
    /\ handle[f] = "failed" =>
           conn[f].channel \in {"none", "closed"} /\ At(f, Indicator) = "off"
    /\ At(f, Closer) = "off" <=> handle[f] \notin {"closing", "closed"}
    /\ At(f, Closer) = "done" <=> handle[f] = "closed"
    /\ At(f, Connector) \notin {"opened", "complete", "done"} => At(f, Indicator) = "off"
    /\ At(f, Connector) = "opened" => At(f, Indicator) \notin Committed

(* One thread commits itself to the disconnect and only before it is sent. *)
Commits(f) ==
    /\ At(f, Indicator) \in Committed => At(f, Closer) \notin Committed
    /\ \A k \in {Indicator, Closer} : At(f, k) \in Committed =>
           conn[f].state = "disconnecting" /\ At(f, Ender) = "off"

(* The disconnect is sent once, and the connection does not come back.     *)
Sent(f) ==
    /\ conn[f].closes = IF At(f, Ender) = "off" THEN 0 ELSE 1
    /\ At(f, Ender) \in {"off", "closing", "wake", "done"}
    /\ At(f, Ender) = "closing" => conn[f].state = "disconnecting"
    /\ At(f, Ender) \in {"wake", "done"} <=> conn[f].state = "disconnected"
    /\ At(f, Ender) # "off" => At(f, Connector) \in {"complete", "done"}

(* While the peer is silent the closing of the file disconnects alone, and *)
(* the event it waits for is signalled by the end of its own disconnect.   *)
Alone(f) == At(f, Indicator) = "off" =>
    /\ At(f, Connector) = "opened" =>
           conn[f].state = "connecting" /\ conn[f].channel = "open"
    /\ At(f, Connector) = "complete" \/ handle[f] = "open" \/ At(f, Closer) = "lock" =>
           conn[f].state = "connected" /\ conn[f].channel = "open"
    /\ At(f, Closer) \in Committed => conn[f].channel = "open"
    /\ At(f, Closer) = "close" => ~conn[f].discEvent
    /\ At(f, Closer) = "wait" => ~conn[f].discEvent \/ At(f, Ender) = "done"
    /\ At(f, Ender) \in {"wake", "done"} => conn[f].channel = "closed"
    /\ At(f, Ender) # "off" => At(f, Closer) \in {"wait", "done"}
    /\ At(f, Closer) = "done" => conn[f].channel = "closed"

Own(f) == Creating(f) /\ Handled(f) /\ Commits(f) /\ Sent(f) /\ Alone(f)

IInv == TypeOK /\ \A f \in File : Own(f)

-----------------------------------------------------------------------------
LEMMA Roles ==
    /\ Role = {Connector, Indicator, Closer, Ender}
    /\ Thread = File \X Role
    /\ \A t \in Thread : t = <<t[1], t[2]>> /\ t[1] \in File /\ t[2] \in Role
BY DEF Role, Connector, Indicator, Closer, Ender, Thread

(* Thread k of file f goes from one label to another, and no other moves.  *)
Moves(f, k, from, to) ==
    /\ At(f, k) = from /\ At(f, k)' = to
    /\ \A g \in File, j \in Role : <<g, j>> # <<f, k>> => At(g, j)' = At(g, j)

LEMMA GotoMoves ==
    ASSUME TypeOK, NEW f \in File, NEW k \in Role, NEW from, NEW to \in Label,
           Goto(<<f, k>>, from, to)
    PROVE  Moves(f, k, from, to) /\ at' \in [Thread -> Label]
BY Roles DEF TypeOK, Goto, Moves, At

(* What a step on one connection makes of it.                              *)
Becomes(f, o) ==
    /\ conn' = [conn EXCEPT ![f] = o] /\ conn'[f] = o
    /\ \A g \in File \ {f} : conn'[g] = conn[g]

LEMMA Updated ==
    ASSUME TypeOK, NEW f \in File, NEW o \in Connection, conn' = [conn EXCEPT ![f] = o]
    PROVE  Becomes(f, o) /\ conn' \in [File -> Connection]
BY DEF TypeOK, Becomes

(* A step on one file leaves the others as they are.                       *)
Elsewhere(f) == \A g \in File \ {f} :
    /\ conn'[g] = conn[g] /\ handle'[g] = handle[g]
    /\ \A k \in Role : At(g, k)' = At(g, k)

LEMMA ElsewhereKeeps ==
    ASSUME IInv, NEW f \in File, Elsewhere(f)
    PROVE  \A g \in File \ {f} : Own(g)'
<1> SUFFICES ASSUME NEW g \in File \ {f} PROVE Own(g)'
  OBVIOUS
<1>1. Own(g)
  BY DEF IInv
<1>2. /\ conn'[g] = conn[g] /\ handle'[g] = handle[g]
      /\ At(g, Connector)' = At(g, Connector) /\ At(g, Indicator)' = At(g, Indicator)
      /\ At(g, Closer)' = At(g, Closer) /\ At(g, Ender)' = At(g, Ender)
  BY Roles DEF Elsewhere
<1> HIDE DEF At
<1> QED BY <1>1, <1>2 DEF Own, Creating, Handled, Commits, Sent, Alone

LEMMA CreateKeeps ==
    ASSUME IInv, NEW f \in File, Create(f)
    PROVE  TypeOK' /\ Own(f)' /\ Elsewhere(f)
<1>1. TypeOK /\ Own(f)
  BY DEF IInv
<1>2. Moves(f, Connector, "off", "send") /\ at' \in [Thread -> Label]
  BY <1>1, GotoMoves, Roles DEF Create, Label
<1>3. Becomes(f, [conn[f] EXCEPT !.state = "connecting", !.object = "live"])
      /\ conn' \in [File -> Connection]
  <2>1. [conn[f] EXCEPT !.state = "connecting", !.object = "live"] \in Connection
    BY <1>1 DEF TypeOK, Connection
  <2>2. conn' = [conn EXCEPT ![f] = 
                    [conn[f] EXCEPT !.state = "connecting", !.object = "live"]]
    BY <1>1 DEF Create, TypeOK
  <2> QED BY <1>1, <2>1, <2>2, Updated
<1>4. /\ handle' = [handle EXCEPT ![f] = "creating"] /\ handle'[f] = "creating" /\ io' = io
      /\ handle[f] = "none"
  BY <1>1 DEF Create, TypeOK
<1>5. TypeOK'
  BY <1>1, <1>2, <1>3, <1>4 DEF TypeOK
<1>6. Elsewhere(f)
  BY <1>1, <1>2, <1>3, <1>4 DEF Elsewhere, Moves, TypeOK, Becomes
<1>7. /\ conn[f] \in Connection /\ At(f, Connector) = "off" /\ At(f, Connector)' = "send"
      /\ \A j \in Role \ {Connector} : At(f, j)' = At(f, j)
  BY <1>1, <1>2, Roles DEF TypeOK, Moves
<1> HIDE DEF At
<1>8. Creating(f)'
  BY <1>1, <1>3, <1>4, <1>7
     DEF Own, Creating, Committed, Role, Connector, Indicator, Closer, Ender, Becomes,
         Connection
<1>9. Handled(f)'
  BY <1>1, <1>3, <1>4, <1>7
     DEF Own, Handled, Committed, Role, Connector, Indicator, Closer, Ender, Becomes,
         Connection
<1>10. Commits(f)'
  BY <1>1, <1>3, <1>4, <1>7
     DEF Own, Commits, Creating, Committed, Role, Connector, Indicator, Closer, Ender,
         Becomes, Connection
<1>11. Sent(f)'
  BY <1>1, <1>3, <1>4, <1>7
     DEF Own, Sent, Committed, Role, Connector, Indicator, Closer, Ender, Becomes,
         Connection
<1>12. Alone(f)'
  BY <1>1, <1>3, <1>4, <1>7
     DEF Own, Alone, Creating, Committed, Role, Connector, Indicator, Closer, Ender,
         Becomes, Connection
<1> QED BY <1>5, <1>6, <1>8, <1>9, <1>10, <1>11, <1>12 DEF Own

LEMMA SendConnectKeeps ==
    ASSUME IInv, NEW f \in File, SendConnect(f)
    PROVE  TypeOK' /\ Own(f)' /\ Elsewhere(f)
<1>1. TypeOK /\ Own(f)
  BY DEF IInv
<1>2. Moves(f, Connector, "send", "opening") /\ at' \in [Thread -> Label]
  BY <1>1, GotoMoves, Roles DEF SendConnect, Label
<1>3. Becomes(f, [conn[f] EXCEPT !.channel = "opening"]) /\ conn' \in [File -> Connection]
  <2>1. [conn[f] EXCEPT !.channel = "opening"] \in Connection
    BY <1>1 DEF TypeOK, Connection
  <2>2. conn' = [conn EXCEPT ![f] = [conn[f] EXCEPT !.channel = "opening"]]
    BY <1>1 DEF SendConnect, TypeOK
  <2> QED BY <1>1, <2>1, <2>2, Updated
<1>4. handle' = handle /\ io' = io
  BY DEF SendConnect
<1>5. TypeOK'
  BY <1>1, <1>2, <1>3, <1>4 DEF TypeOK
<1>6. Elsewhere(f)
  BY <1>1, <1>2, <1>3, <1>4 DEF Elsewhere, Moves, TypeOK, Becomes
<1>7. /\ conn[f] \in Connection
      /\ At(f, Connector) = "send" /\ At(f, Connector)' = "opening"
      /\ \A j \in Role \ {Connector} : At(f, j)' = At(f, j)
  BY <1>1, <1>2, Roles DEF TypeOK, Moves
<1> HIDE DEF At
<1>8. Creating(f)'
  BY <1>1, <1>3, <1>4, <1>7
     DEF Own, Creating, Committed, Role, Connector, Indicator, Closer, Ender, Becomes,
         Connection
<1>9. Handled(f)'
  BY <1>1, <1>3, <1>4, <1>7
     DEF Own, Handled, Creating, Committed, Role, Connector, Indicator, Closer, Ender,
         Becomes, Connection
<1>10. Commits(f)'
  BY <1>1, <1>3, <1>4, <1>7
     DEF Own, Commits, Committed, Role, Connector, Indicator, Closer, Ender, Becomes,
         Connection
<1>11. Sent(f)'
  BY <1>1, <1>3, <1>4, <1>7
     DEF Own, Sent, Committed, Role, Connector, Indicator, Closer, Ender, Becomes,
         Connection
<1>12. Alone(f)'
  BY <1>1, <1>3, <1>4, <1>7
     DEF Own, Alone, Creating, Committed, Role, Connector, Indicator, Closer, Ender,
         Becomes, Connection
<1> QED BY <1>5, <1>6, <1>8, <1>9, <1>10, <1>11, <1>12 DEF Own

LEMMA ConnectNotSentKeeps ==
    ASSUME IInv, NEW f \in File, ConnectNotSent(f)
    PROVE  TypeOK' /\ Own(f)' /\ Elsewhere(f)
<1>1. TypeOK /\ Own(f)
  BY DEF IInv
<1>2. Moves(f, Connector, "send", "reject") /\ at' \in [Thread -> Label]
  BY <1>1, GotoMoves, Roles DEF ConnectNotSent, Label
<1>3. Becomes(f, [conn[f] EXCEPT !.state = "connectFailed"])
      /\ conn' \in [File -> Connection]
  <2>1. [conn[f] EXCEPT !.state = "connectFailed"] \in Connection
    BY <1>1 DEF TypeOK, Connection
  <2>2. conn' = [conn EXCEPT ![f] = [conn[f] EXCEPT !.state = "connectFailed"]]
    BY <1>1 DEF ConnectNotSent, TypeOK
  <2> QED BY <1>1, <2>1, <2>2, Updated
<1>4. handle' = handle /\ io' = io
  BY DEF ConnectNotSent
<1>5. TypeOK'
  BY <1>1, <1>2, <1>3, <1>4 DEF TypeOK
<1>6. Elsewhere(f)
  BY <1>1, <1>2, <1>3, <1>4 DEF Elsewhere, Moves, TypeOK, Becomes
<1>7. /\ conn[f] \in Connection /\ At(f, Connector) = "send" /\ At(f, Connector)' = "reject"
      /\ \A j \in Role \ {Connector} : At(f, j)' = At(f, j)
  BY <1>1, <1>2, Roles DEF TypeOK, Moves
<1> HIDE DEF At
<1>8. Creating(f)'
  BY <1>1, <1>3, <1>4, <1>7
     DEF Own, Creating, Committed, Role, Connector, Indicator, Closer, Ender, Becomes,
         Connection
<1>9. Handled(f)'
  BY <1>1, <1>3, <1>4, <1>7
     DEF Own, Handled, Creating, Committed, Role, Connector, Indicator, Closer, Ender,
         Becomes, Connection
<1>10. Commits(f)'
  BY <1>1, <1>3, <1>4, <1>7
     DEF Own, Commits, Creating, Committed, Role, Connector, Indicator, Closer, Ender,
         Becomes, Connection
<1>11. Sent(f)'
  BY <1>1, <1>3, <1>4, <1>7
     DEF Own, Sent, Committed, Role, Connector, Indicator, Closer, Ender, Becomes,
         Connection
<1>12. Alone(f)'
  BY <1>1, <1>3, <1>4, <1>7
     DEF Own, Alone, Creating, Committed, Role, Connector, Indicator, Closer, Ender,
         Becomes, Connection
<1> QED BY <1>5, <1>6, <1>8, <1>9, <1>10, <1>11, <1>12 DEF Own

LEMMA ChannelOpensKeeps ==
    ASSUME IInv, NEW f \in File, ChannelOpens(f)
    PROVE  TypeOK' /\ Own(f)' /\ Elsewhere(f)
<1>1. TypeOK /\ Own(f)
  BY DEF IInv
<1>2. Moves(f, Connector, "opening", "opened") /\ at' \in [Thread -> Label]
  BY <1>1, GotoMoves, Roles DEF ChannelOpens, Label
<1>3. Becomes(f, [conn[f] EXCEPT !.channel = "open"]) /\ conn' \in [File -> Connection]
  <2>1. [conn[f] EXCEPT !.channel = "open"] \in Connection
    BY <1>1 DEF TypeOK, Connection
  <2>2. conn' = [conn EXCEPT ![f] = [conn[f] EXCEPT !.channel = "open"]]
    BY <1>1 DEF ChannelOpens, TypeOK
  <2> QED BY <1>1, <2>1, <2>2, Updated
<1>4. handle' = handle /\ io' = io
  BY DEF ChannelOpens
<1>5. TypeOK'
  BY <1>1, <1>2, <1>3, <1>4 DEF TypeOK
<1>6. Elsewhere(f)
  BY <1>1, <1>2, <1>3, <1>4 DEF Elsewhere, Moves, TypeOK, Becomes
<1>7. /\ conn[f] \in Connection
      /\ At(f, Connector) = "opening" /\ At(f, Connector)' = "opened"
      /\ \A j \in Role \ {Connector} : At(f, j)' = At(f, j)
  BY <1>1, <1>2, Roles DEF TypeOK, Moves
<1> HIDE DEF At
<1>8. Creating(f)'
  BY <1>1, <1>3, <1>4, <1>7
     DEF Own, Creating, Committed, Role, Connector, Indicator, Closer, Ender, Becomes,
         Connection
<1>9. Handled(f)'
  BY <1>1, <1>3, <1>4, <1>7
     DEF Own, Handled, Creating, Committed, Role, Connector, Indicator, Closer, Ender,
         Becomes, Connection
<1>10. Commits(f)'
  BY <1>1, <1>3, <1>4, <1>7
     DEF Own, Commits, Committed, Role, Connector, Indicator, Closer, Ender, Becomes,
         Connection
<1>11. Sent(f)'
  BY <1>1, <1>3, <1>4, <1>7
     DEF Own, Sent, Committed, Role, Connector, Indicator, Closer, Ender, Becomes,
         Connection
<1>12. Alone(f)'
  BY <1>1, <1>3, <1>4, <1>7
     DEF Own, Alone, Creating, Committed, Role, Connector, Indicator, Closer, Ender,
         Becomes, Connection
<1> QED BY <1>5, <1>6, <1>8, <1>9, <1>10, <1>11, <1>12 DEF Own

LEMMA ChannelRefusedKeeps ==
    ASSUME IInv, NEW f \in File, ChannelRefused(f)
    PROVE  TypeOK' /\ Own(f)' /\ Elsewhere(f)
<1>1. TypeOK /\ Own(f)
  BY DEF IInv
<1>2. Moves(f, Connector, "opening", "refused") /\ at' \in [Thread -> Label]
  BY <1>1, GotoMoves, Roles DEF ChannelRefused, Label
<1>3. Becomes(f, [conn[f] EXCEPT !.channel = "closed"]) /\ conn' \in [File -> Connection]
  <2>1. [conn[f] EXCEPT !.channel = "closed"] \in Connection
    BY <1>1 DEF TypeOK, Connection
  <2>2. conn' = [conn EXCEPT ![f] = [conn[f] EXCEPT !.channel = "closed"]]
    BY <1>1 DEF ChannelRefused, TypeOK
  <2> QED BY <1>1, <2>1, <2>2, Updated
<1>4. handle' = handle /\ io' = io
  BY DEF ChannelRefused
<1>5. TypeOK'
  BY <1>1, <1>2, <1>3, <1>4 DEF TypeOK
<1>6. Elsewhere(f)
  BY <1>1, <1>2, <1>3, <1>4 DEF Elsewhere, Moves, TypeOK, Becomes
<1>7. /\ conn[f] \in Connection
      /\ At(f, Connector) = "opening" /\ At(f, Connector)' = "refused"
      /\ \A j \in Role \ {Connector} : At(f, j)' = At(f, j)
  BY <1>1, <1>2, Roles DEF TypeOK, Moves
<1> HIDE DEF At
<1>8. Creating(f)'
  BY <1>1, <1>3, <1>4, <1>7
     DEF Own, Creating, Committed, Role, Connector, Indicator, Closer, Ender, Becomes,
         Connection
<1>9. Handled(f)'
  BY <1>1, <1>3, <1>4, <1>7
     DEF Own, Handled, Committed, Role, Connector, Indicator, Closer, Ender, Becomes,
         Connection
<1>10. Commits(f)'
  BY <1>1, <1>3, <1>4, <1>7
     DEF Own, Commits, Committed, Role, Connector, Indicator, Closer, Ender, Becomes,
         Connection
<1>11. Sent(f)'
  BY <1>1, <1>3, <1>4, <1>7
     DEF Own, Sent, Committed, Role, Connector, Indicator, Closer, Ender, Becomes,
         Connection
<1>12. Alone(f)'
  BY <1>1, <1>3, <1>4, <1>7
     DEF Own, Alone, Creating, Committed, Role, Connector, Indicator, Closer, Ender,
         Becomes, Connection
<1> QED BY <1>5, <1>6, <1>8, <1>9, <1>10, <1>11, <1>12 DEF Own

LEMMA OpenedKeeps ==
    ASSUME IInv, NEW f \in File, Opened(f)
    PROVE  TypeOK' /\ Own(f)' /\ Elsewhere(f)
<1>1. TypeOK /\ Own(f)
  BY DEF IInv
<1>2. Moves(f, Connector, "opened", "complete") /\ at' \in [Thread -> Label]
  BY <1>1, GotoMoves, Roles DEF Opened, Label
<1>3. Becomes(f, [conn[f] EXCEPT !.state = "connected"]) /\ conn' \in [File -> Connection]
  <2>1. [conn[f] EXCEPT !.state = "connected"] \in Connection
    BY <1>1 DEF TypeOK, Connection
  <2>2. conn' = [conn EXCEPT ![f] = [conn[f] EXCEPT !.state = "connected"]]
    BY <1>1 DEF Opened, TypeOK
  <2> QED BY <1>1, <2>1, <2>2, Updated
<1>4. handle' = handle /\ io' = io
  BY DEF Opened
<1>5. TypeOK'
  BY <1>1, <1>2, <1>3, <1>4 DEF TypeOK
<1>6. Elsewhere(f)
  BY <1>1, <1>2, <1>3, <1>4 DEF Elsewhere, Moves, TypeOK, Becomes
<1>7. /\ conn[f] \in Connection
      /\ At(f, Connector) = "opened" /\ At(f, Connector)' = "complete"
      /\ \A j \in Role \ {Connector} : At(f, j)' = At(f, j)
  BY <1>1, <1>2, Roles DEF TypeOK, Moves
<1> HIDE DEF At
<1>8. Creating(f)'
  BY <1>1, <1>3, <1>4, <1>7
     DEF Own, Creating, Committed, Role, Connector, Indicator, Closer, Ender, Becomes,
         Connection
<1>9. Handled(f)'
  BY <1>1, <1>3, <1>4, <1>7
     DEF Own, Handled, Committed, Role, Connector, Indicator, Closer, Ender, Becomes,
         Connection
<1>10. Commits(f)'
  BY <1>1, <1>3, <1>4, <1>7
     DEF Own, Commits, Creating, Handled, Committed, Role, Connector, Indicator, Closer,
         Ender, Becomes, Connection
<1>11. Sent(f)'
  BY <1>1, <1>3, <1>4, <1>7
     DEF Own, Sent, Committed, Role, Connector, Indicator, Closer, Ender, Becomes,
         Connection
<1>12. Alone(f)'
  BY <1>1, <1>3, <1>4, <1>7
     DEF Own, Alone, Committed, Role, Connector, Indicator, Closer, Ender, Becomes,
         Connection
<1> QED BY <1>5, <1>6, <1>8, <1>9, <1>10, <1>11, <1>12 DEF Own

LEMMA RefusedKeeps ==
    ASSUME IInv, NEW f \in File, Refused(f)
    PROVE  TypeOK' /\ Own(f)' /\ Elsewhere(f)
<1>1. TypeOK /\ Own(f)
  BY DEF IInv
<1>2. Moves(f, Connector, "refused", "reject") /\ at' \in [Thread -> Label]
  BY <1>1, GotoMoves, Roles DEF Refused, Label
<1>3. Becomes(f, [conn[f] EXCEPT !.state = "connectFailed"])
      /\ conn' \in [File -> Connection]
  <2>1. [conn[f] EXCEPT !.state = "connectFailed"] \in Connection
    BY <1>1 DEF TypeOK, Connection
  <2>2. conn' = [conn EXCEPT ![f] = [conn[f] EXCEPT !.state = "connectFailed"]]
    BY <1>1 DEF Refused, TypeOK
  <2> QED BY <1>1, <2>1, <2>2, Updated
<1>4. handle' = handle /\ io' = io
  BY DEF Refused
<1>5. TypeOK'
  BY <1>1, <1>2, <1>3, <1>4 DEF TypeOK
<1>6. Elsewhere(f)
  BY <1>1, <1>2, <1>3, <1>4 DEF Elsewhere, Moves, TypeOK, Becomes
<1>7. /\ conn[f] \in Connection
      /\ At(f, Connector) = "refused" /\ At(f, Connector)' = "reject"
      /\ \A j \in Role \ {Connector} : At(f, j)' = At(f, j)
  BY <1>1, <1>2, Roles DEF TypeOK, Moves
<1> HIDE DEF At
<1>8. Creating(f)'
  BY <1>1, <1>3, <1>4, <1>7
     DEF Own, Creating, Committed, Role, Connector, Indicator, Closer, Ender, Becomes,
         Connection
<1>9. Handled(f)'
  BY <1>1, <1>3, <1>4, <1>7
     DEF Own, Handled, Creating, Committed, Role, Connector, Indicator, Closer, Ender,
         Becomes, Connection
<1>10. Commits(f)'
  BY <1>1, <1>3, <1>4, <1>7
     DEF Own, Commits, Creating, Committed, Role, Connector, Indicator, Closer, Ender,
         Becomes, Connection
<1>11. Sent(f)'
  BY <1>1, <1>3, <1>4, <1>7
     DEF Own, Sent, Committed, Role, Connector, Indicator, Closer, Ender, Becomes,
         Connection
<1>12. Alone(f)'
  BY <1>1, <1>3, <1>4, <1>7
     DEF Own, Alone, Creating, Committed, Role, Connector, Indicator, Closer, Ender,
         Becomes, Connection
<1> QED BY <1>5, <1>6, <1>8, <1>9, <1>10, <1>11, <1>12 DEF Own

LEMMA PeerDisconnectsKeeps ==
    ASSUME IInv, NEW f \in File, PeerDisconnects(f)
    PROVE  TypeOK' /\ Own(f)' /\ Elsewhere(f)
<1>1. TypeOK /\ Own(f)
  BY DEF IInv
<1>2. Moves(f, Indicator, "off", "lock") /\ at' \in [Thread -> Label]
  BY <1>1, GotoMoves, Roles DEF PeerDisconnects, Label
<1>3. Becomes(f, [conn[f] EXCEPT !.channel = "dropped"]) /\ conn' \in [File -> Connection]
  <2>1. [conn[f] EXCEPT !.channel = "dropped"] \in Connection
    BY <1>1 DEF TypeOK, Connection
  <2>2. conn' = [conn EXCEPT ![f] = [conn[f] EXCEPT !.channel = "dropped"]]
    BY <1>1 DEF PeerDisconnects, TypeOK
  <2> QED BY <1>1, <2>1, <2>2, Updated
<1>4. handle' = handle /\ io' = io
  BY DEF PeerDisconnects
<1>5. TypeOK'
  BY <1>1, <1>2, <1>3, <1>4 DEF TypeOK
<1>6. Elsewhere(f)
  BY <1>1, <1>2, <1>3, <1>4 DEF Elsewhere, Moves, TypeOK, Becomes
<1>7. /\ conn[f] \in Connection /\ At(f, Indicator) = "off" /\ At(f, Indicator)' = "lock"
      /\ \A j \in Role \ {Indicator} : At(f, j)' = At(f, j)
  BY <1>1, <1>2, Roles DEF TypeOK, Moves
<1> HIDE DEF At
<1>8. conn[f].channel = "open"
  BY DEF PeerDisconnects
<1>9. Creating(f)'
  BY <1>1, <1>3, <1>4, <1>7, <1>8
     DEF Own, Creating, Committed, Role, Connector, Indicator, Closer, Ender, Becomes,
         Connection
<1>10. Handled(f)'
  BY <1>1, <1>3, <1>4, <1>7, <1>8
     DEF Own, Handled, Creating, Committed, Role, Connector, Indicator, Closer, Ender,
         Becomes, Connection
<1>11. Commits(f)'
  BY <1>1, <1>3, <1>4, <1>7, <1>8
     DEF Own, Commits, Committed, Role, Connector, Indicator, Closer, Ender, Becomes,
         Connection
<1>12. Sent(f)'
  BY <1>1, <1>3, <1>4, <1>7, <1>8
     DEF Own, Sent, Committed, Role, Connector, Indicator, Closer, Ender, Becomes,
         Connection
<1>13. Alone(f)'
  BY <1>1, <1>3, <1>4, <1>7, <1>8
     DEF Own, Alone, Committed, Role, Connector, Indicator, Closer, Ender, Becomes,
         Connection
<1> QED BY <1>5, <1>6, <1>9, <1>10, <1>11, <1>12, <1>13 DEF Own

LEMMA CloseFileKeeps ==
    ASSUME IInv, NEW f \in File, CloseFile(f)
    PROVE  TypeOK' /\ Own(f)' /\ Elsewhere(f)
<1>1. TypeOK /\ Own(f)
  BY DEF IInv
<1>2. Moves(f, Closer, "off", "lock") /\ at' \in [Thread -> Label]
  BY <1>1, GotoMoves, Roles DEF CloseFile, Label
<1>3. conn' = conn
  BY DEF CloseFile
<1>4. /\ handle' = [handle EXCEPT ![f] = "closing"] /\ handle'[f] = "closing" /\ io' = io
      /\ handle[f] = "open"
  BY <1>1 DEF CloseFile, TypeOK
<1>5. TypeOK'
  BY <1>1, <1>2, <1>3, <1>4 DEF TypeOK
<1>6. Elsewhere(f)
  BY <1>1, <1>2, <1>3, <1>4 DEF Elsewhere, Moves, TypeOK
<1>7. /\ conn[f] \in Connection /\ At(f, Closer) = "off" /\ At(f, Closer)' = "lock"
      /\ \A j \in Role \ {Closer} : At(f, j)' = At(f, j)
  BY <1>1, <1>2, Roles DEF TypeOK, Moves
<1> HIDE DEF At
<1>8. Creating(f)'
  BY <1>1, <1>3, <1>4, <1>7
     DEF Own, Creating, Committed, Role, Connector, Indicator, Closer, Ender
<1>9. Handled(f)'
  BY <1>1, <1>3, <1>4, <1>7
     DEF Own, Handled, Committed, Role, Connector, Indicator, Closer, Ender
<1>10. Commits(f)'
  BY <1>1, <1>3, <1>4, <1>7
     DEF Own, Commits, Committed, Role, Connector, Indicator, Closer, Ender
<1>11. Sent(f)'
  BY <1>1, <1>3, <1>4, <1>7
     DEF Own, Sent, Committed, Role, Connector, Indicator, Closer, Ender
<1>12. Alone(f)'
  BY <1>1, <1>3, <1>4, <1>7
     DEF Own, Alone, Committed, Role, Connector, Indicator, Closer, Ender
<1> QED BY <1>5, <1>6, <1>8, <1>9, <1>10, <1>11, <1>12 DEF Own

LEMMA DisconnectWhileConnectingKeeps ==
    ASSUME IInv, NEW f \in File, NEW k \in {Indicator, Closer},
           DisconnectWhileConnecting(<<f, k>>)
    PROVE  TypeOK' /\ Own(f)' /\ Elsewhere(f)
<1>1. TypeOK /\ Own(f)
  BY DEF IInv
<1>2. Moves(f, k, "lock", AfterDisconnect(<<f, k>>)) /\ at' \in [Thread -> Label]
  <2>1. AfterDisconnect(<<f, k>>) \in Label
    BY DEF AfterDisconnect, Label
  <2> QED BY <1>1, <2>1, GotoMoves, Roles DEF DisconnectWhileConnecting
<1>3. Becomes(f, [conn[f] EXCEPT !.state = "disconnecting", !.discEvent = FALSE])
      /\ conn' \in [File -> Connection]
  <2>1. [conn[f] EXCEPT !.state = "disconnecting", !.discEvent = FALSE] \in Connection
    BY <1>1 DEF TypeOK, Connection
  <2>2. conn' = [conn EXCEPT ![f] = 
                    [conn[f] EXCEPT !.state = "disconnecting", !.discEvent = FALSE]]
    BY <1>1 DEF DisconnectWhileConnecting, TypeOK
  <2> QED BY <1>1, <2>1, <2>2, Updated
<1>4. handle' = handle /\ io' = io
  BY DEF DisconnectWhileConnecting
<1>5. TypeOK'
  BY <1>1, <1>2, <1>3, <1>4 DEF TypeOK
<1>6. Elsewhere(f)
  BY <1>1, <1>2, <1>3, <1>4 DEF Elsewhere, Moves, TypeOK, Becomes
<1>7. /\ conn[f] \in Connection
      /\ At(f, k) = "lock" /\ At(f, k)' = AfterDisconnect(<<f, k>>)
      /\ \A j \in Role \ {k} : At(f, j)' = At(f, j)
  BY <1>1, <1>2, Roles DEF TypeOK, Moves
<1> HIDE DEF At
<1>8. conn[f].state = "connecting"
  BY DEF DisconnectWhileConnecting
<1>9. Creating(f)'
  BY <1>1, <1>3, <1>4, <1>7, <1>8
     DEF Own, Creating, Handled, Committed, Role, Connector, Indicator, Closer, Ender,
         Becomes, Connection, AfterDisconnect
<1>10. Handled(f)'
  BY <1>1, <1>3, <1>4, <1>7, <1>8
     DEF Own, Handled, Committed, Role, Connector, Indicator, Closer, Ender, Becomes,
         Connection, AfterDisconnect
<1>11. Commits(f)'
  BY <1>1, <1>3, <1>4, <1>7, <1>8
     DEF Own, Commits, Committed, Role, Connector, Indicator, Closer, Ender, Becomes,
         Connection, AfterDisconnect
<1>12. Sent(f)'
  BY <1>1, <1>3, <1>4, <1>7, <1>8
     DEF Own, Sent, Committed, Role, Connector, Indicator, Closer, Ender, Becomes,
         Connection, AfterDisconnect
<1>13. Alone(f)'
  BY <1>1, <1>3, <1>4, <1>7, <1>8
     DEF Own, Alone, Committed, Role, Connector, Indicator, Closer, Ender, Becomes,
         Connection, AfterDisconnect
<1> QED BY <1>5, <1>6, <1>9, <1>10, <1>11, <1>12, <1>13 DEF Own

LEMMA DisconnectRefusedKeeps ==
    ASSUME IInv, NEW f \in File, NEW k \in {Indicator, Closer}, DisconnectRefused(<<f, k>>)
    PROVE  TypeOK' /\ Own(f)' /\ Elsewhere(f)
<1>1. TypeOK /\ Own(f)
  BY DEF IInv
<1>2. Moves(f, k, "lock", AfterDisconnect(<<f, k>>)) /\ at' \in [Thread -> Label]
  <2>1. AfterDisconnect(<<f, k>>) \in Label
    BY DEF AfterDisconnect, Label
  <2> QED BY <1>1, <2>1, GotoMoves, Roles DEF DisconnectRefused
<1>3. conn' = conn
  BY DEF DisconnectRefused
<1>4. handle' = handle /\ io' = io
  BY DEF DisconnectRefused
<1>5. TypeOK'
  BY <1>1, <1>2, <1>3, <1>4 DEF TypeOK
<1>6. Elsewhere(f)
  BY <1>1, <1>2, <1>3, <1>4 DEF Elsewhere, Moves, TypeOK
<1>7. /\ conn[f] \in Connection
      /\ At(f, k) = "lock" /\ At(f, k)' = AfterDisconnect(<<f, k>>)
      /\ \A j \in Role \ {k} : At(f, j)' = At(f, j)
  BY <1>1, <1>2, Roles DEF TypeOK, Moves
<1> HIDE DEF At
<1>8. conn[f].state \notin {"connecting", "connected"}
  BY DEF DisconnectRefused
<1>9. Creating(f)'
  BY <1>1, <1>3, <1>4, <1>7, <1>8
     DEF Own, Creating, Committed, Role, Connector, Indicator, Closer, Ender,
         AfterDisconnect
<1>10. Handled(f)'
  BY <1>1, <1>3, <1>4, <1>7, <1>8
     DEF Own, Handled, Committed, Role, Connector, Indicator, Closer, Ender, AfterDisconnect
<1>11. Commits(f)'
  BY <1>1, <1>3, <1>4, <1>7, <1>8
     DEF Own, Commits, Committed, Role, Connector, Indicator, Closer, Ender, AfterDisconnect
<1>12. Sent(f)'
  BY <1>1, <1>3, <1>4, <1>7, <1>8
     DEF Own, Sent, Committed, Role, Connector, Indicator, Closer, Ender, AfterDisconnect
<1>13. Alone(f)'
  BY <1>1, <1>3, <1>4, <1>7, <1>8
     DEF Own, Alone, Committed, Role, Connector, Indicator, Closer, Ender, AfterDisconnect
<1> QED BY <1>5, <1>6, <1>9, <1>10, <1>11, <1>12, <1>13 DEF Own

LEMMA DisconnectBeginsKeeps ==
    ASSUME IInv, NEW f \in File, NEW k \in {Indicator, Closer}, DisconnectBegins(<<f, k>>)
    PROVE  TypeOK' /\ Own(f)' /\ Elsewhere(f)
<1>1. TypeOK /\ Own(f)
  BY DEF IInv
<1>2. Moves(f, k, "lock", "clear") /\ at' \in [Thread -> Label]
  BY <1>1, GotoMoves, Roles DEF DisconnectBegins, Label
<1>3. Becomes(f, [conn[f] EXCEPT !.state = "disconnecting"])
      /\ conn' \in [File -> Connection]
  <2>1. [conn[f] EXCEPT !.state = "disconnecting"] \in Connection
    BY <1>1 DEF TypeOK, Connection
  <2>2. conn' = [conn EXCEPT ![f] = [conn[f] EXCEPT !.state = "disconnecting"]]
    BY <1>1 DEF DisconnectBegins, TypeOK
  <2> QED BY <1>1, <2>1, <2>2, Updated
<1>4. handle' = handle /\ io' = io
  BY DEF DisconnectBegins
<1>5. TypeOK'
  BY <1>1, <1>2, <1>3, <1>4 DEF TypeOK
<1>6. Elsewhere(f)
  BY <1>1, <1>2, <1>3, <1>4 DEF Elsewhere, Moves, TypeOK, Becomes
<1>7. /\ conn[f] \in Connection /\ At(f, k) = "lock" /\ At(f, k)' = "clear"
      /\ \A j \in Role \ {k} : At(f, j)' = At(f, j)
  BY <1>1, <1>2, Roles DEF TypeOK, Moves
<1> HIDE DEF At
<1>8. conn[f].state = "connected"
  BY DEF DisconnectBegins
<1>9. Creating(f)'
  BY <1>1, <1>3, <1>4, <1>7, <1>8
     DEF Own, Creating, Committed, Role, Connector, Indicator, Closer, Ender, Becomes,
         Connection
<1>10. Handled(f)'
  BY <1>1, <1>3, <1>4, <1>7, <1>8
     DEF Own, Handled, Creating, Committed, Role, Connector, Indicator, Closer, Ender,
         Becomes, Connection
<1>11. Commits(f)'
  BY <1>1, <1>3, <1>4, <1>7, <1>8
     DEF Own, Commits, Sent, Committed, Role, Connector, Indicator, Closer, Ender, Becomes,
         Connection
<1>12. Sent(f)'
  BY <1>1, <1>3, <1>4, <1>7, <1>8
     DEF Own, Sent, Committed, Role, Connector, Indicator, Closer, Ender, Becomes,
         Connection
<1>13. Alone(f)'
  BY <1>1, <1>3, <1>4, <1>7, <1>8
     DEF Own, Alone, Creating, Handled, Committed, Role, Connector, Indicator, Closer,
         Ender, Becomes, Connection
<1> QED BY <1>5, <1>6, <1>9, <1>10, <1>11, <1>12, <1>13 DEF Own

LEMMA ClearDisconnectEventKeeps ==
    ASSUME IInv, NEW f \in File, NEW k \in {Indicator, Closer}, ClearDisconnectEvent(<<f, k>>)
    PROVE  TypeOK' /\ Own(f)' /\ Elsewhere(f)
<1>1. TypeOK /\ Own(f)
  BY DEF IInv
<1>2. Moves(f, k, "clear", "close") /\ at' \in [Thread -> Label]
  BY <1>1, GotoMoves, Roles DEF ClearDisconnectEvent, Label
<1>3. Becomes(f, [conn[f] EXCEPT !.discEvent = FALSE]) /\ conn' \in [File -> Connection]
  <2>1. [conn[f] EXCEPT !.discEvent = FALSE] \in Connection
    BY <1>1 DEF TypeOK, Connection
  <2>2. conn' = [conn EXCEPT ![f] = [conn[f] EXCEPT !.discEvent = FALSE]]
    BY <1>1 DEF ClearDisconnectEvent, TypeOK
  <2> QED BY <1>1, <2>1, <2>2, Updated
<1>4. handle' = handle /\ io' = io
  BY DEF ClearDisconnectEvent
<1>5. TypeOK'
  BY <1>1, <1>2, <1>3, <1>4 DEF TypeOK
<1>6. Elsewhere(f)
  BY <1>1, <1>2, <1>3, <1>4 DEF Elsewhere, Moves, TypeOK, Becomes
<1>7. /\ conn[f] \in Connection /\ At(f, k) = "clear" /\ At(f, k)' = "close"
      /\ \A j \in Role \ {k} : At(f, j)' = At(f, j)
  BY <1>1, <1>2, Roles DEF TypeOK, Moves
<1> HIDE DEF At
<1>8. Creating(f)'
  BY <1>1, <1>3, <1>4, <1>7
     DEF Own, Creating, Committed, Role, Connector, Indicator, Closer, Ender, Becomes,
         Connection
<1>9. Handled(f)'
  BY <1>1, <1>3, <1>4, <1>7
     DEF Own, Handled, Committed, Role, Connector, Indicator, Closer, Ender, Becomes,
         Connection
<1>10. Commits(f)'
  BY <1>1, <1>3, <1>4, <1>7
     DEF Own, Commits, Committed, Role, Connector, Indicator, Closer, Ender, Becomes,
         Connection
<1>11. Sent(f)'
  BY <1>1, <1>3, <1>4, <1>7
     DEF Own, Sent, Committed, Role, Connector, Indicator, Closer, Ender, Becomes,
         Connection
<1>12. Alone(f)'
  BY <1>1, <1>3, <1>4, <1>7
     DEF Own, Alone, Committed, Role, Connector, Indicator, Closer, Ender, Becomes,
         Connection
<1> QED BY <1>5, <1>6, <1>8, <1>9, <1>10, <1>11, <1>12 DEF Own

LEMMA CloseNotSentKeeps ==
    ASSUME IInv, NEW f \in File, NEW k \in {Indicator, Closer}, CloseNotSent(<<f, k>>)
    PROVE  TypeOK' /\ Own(f)' /\ Elsewhere(f)
<1>1. TypeOK /\ Own(f)
  BY DEF IInv
<1>2. Moves(f, k, "close", AfterDisconnect(<<f, k>>)) /\ at' \in [Thread -> Label]
  <2>1. AfterDisconnect(<<f, k>>) \in Label
    BY DEF AfterDisconnect, Label
  <2> QED BY <1>1, <2>1, GotoMoves, Roles DEF CloseNotSent
<1>3. Becomes(f, [conn[f] EXCEPT !.unsent = TRUE]) /\ conn' \in [File -> Connection]
  <2>1. [conn[f] EXCEPT !.unsent = TRUE] \in Connection
    BY <1>1 DEF TypeOK, Connection
  <2>2. conn' = [conn EXCEPT ![f] = [conn[f] EXCEPT !.unsent = TRUE]]
    BY <1>1 DEF CloseNotSent, TypeOK
  <2> QED BY <1>1, <2>1, <2>2, Updated
<1>4. handle' = handle /\ io' = io
  BY DEF CloseNotSent
<1>5. TypeOK'
  BY <1>1, <1>2, <1>3, <1>4 DEF TypeOK
<1>6. Elsewhere(f)
  BY <1>1, <1>2, <1>3, <1>4 DEF Elsewhere, Moves, TypeOK, Becomes
<1>7. /\ conn[f] \in Connection
      /\ At(f, k) = "close" /\ At(f, k)' = AfterDisconnect(<<f, k>>)
      /\ \A j \in Role \ {k} : At(f, j)' = At(f, j)
  BY <1>1, <1>2, Roles DEF TypeOK, Moves
<1> HIDE DEF At
<1>8. Creating(f)'
  BY <1>1, <1>3, <1>4, <1>7
     DEF Own, Creating, Committed, Role, Connector, Indicator, Closer, Ender, Becomes,
         Connection, AfterDisconnect
<1>9. Handled(f)'
  BY <1>1, <1>3, <1>4, <1>7
     DEF Own, Handled, Committed, Role, Connector, Indicator, Closer, Ender, Becomes,
         Connection, AfterDisconnect
<1>10. Commits(f)'
  BY <1>1, <1>3, <1>4, <1>7
     DEF Own, Commits, Committed, Role, Connector, Indicator, Closer, Ender, Becomes,
         Connection, AfterDisconnect
<1>11. Sent(f)'
  BY <1>1, <1>3, <1>4, <1>7
     DEF Own, Sent, Committed, Role, Connector, Indicator, Closer, Ender, Becomes,
         Connection, AfterDisconnect
<1>12. Alone(f)'
  BY <1>1, <1>3, <1>4, <1>7
     DEF Own, Alone, Committed, Role, Connector, Indicator, Closer, Ender, Becomes,
         Connection, AfterDisconnect
<1> QED BY <1>5, <1>6, <1>8, <1>9, <1>10, <1>11, <1>12 DEF Own

LEMMA CloseCompletesKeeps ==
    ASSUME IInv, NEW f \in File, CloseCompletes(f)
    PROVE  TypeOK' /\ Own(f)' /\ Elsewhere(f)
<1>1. TypeOK /\ Own(f)
  BY DEF IInv
<1>2. Moves(f, Ender, "closing", "wake") /\ at' \in [Thread -> Label]
  BY <1>1, GotoMoves, Roles DEF CloseCompletes, Label
<1>3. Becomes(f, [conn[f] EXCEPT !.state = "disconnected", !.channel = "closed"])
      /\ conn' \in [File -> Connection]
  <2>1. [conn[f] EXCEPT !.state = "disconnected", !.channel = "closed"] \in Connection
    BY <1>1 DEF TypeOK, Connection
  <2>2. conn' = [conn EXCEPT ![f] = 
                    [conn[f] EXCEPT !.state = "disconnected", !.channel = "closed"]]
    BY <1>1 DEF CloseCompletes, TypeOK
  <2> QED BY <1>1, <2>1, <2>2, Updated
<1>4. handle' = handle /\ io' = io
  BY DEF CloseCompletes
<1>5. TypeOK'
  BY <1>1, <1>2, <1>3, <1>4 DEF TypeOK
<1>6. Elsewhere(f)
  BY <1>1, <1>2, <1>3, <1>4 DEF Elsewhere, Moves, TypeOK, Becomes
<1>7. /\ conn[f] \in Connection /\ At(f, Ender) = "closing" /\ At(f, Ender)' = "wake"
      /\ \A j \in Role \ {Ender} : At(f, j)' = At(f, j)
  BY <1>1, <1>2, Roles DEF TypeOK, Moves
<1> HIDE DEF At
<1>8. Creating(f)'
  BY <1>1, <1>3, <1>4, <1>7
     DEF Own, Creating, Sent, Committed, Role, Connector, Indicator, Closer, Ender, Becomes,
         Connection
<1>9. Handled(f)'
  BY <1>1, <1>3, <1>4, <1>7
     DEF Own, Handled, Committed, Role, Connector, Indicator, Closer, Ender, Becomes,
         Connection
<1>10. Commits(f)'
  BY <1>1, <1>3, <1>4, <1>7
     DEF Own, Commits, Committed, Role, Connector, Indicator, Closer, Ender, Becomes,
         Connection
<1>11. Sent(f)'
  BY <1>1, <1>3, <1>4, <1>7
     DEF Own, Sent, Committed, Role, Connector, Indicator, Closer, Ender, Becomes,
         Connection
<1>12. Alone(f)'
  BY <1>1, <1>3, <1>4, <1>7
     DEF Own, Alone, Sent, Committed, Role, Connector, Indicator, Closer, Ender, Becomes,
         Connection
<1> QED BY <1>5, <1>6, <1>8, <1>9, <1>10, <1>11, <1>12 DEF Own

LEMMA SetDisconnectEventKeeps ==
    ASSUME IInv, NEW f \in File, SetDisconnectEvent(f)
    PROVE  TypeOK' /\ Own(f)' /\ Elsewhere(f)
<1>1. TypeOK /\ Own(f)
  BY DEF IInv
<1>2. Moves(f, Ender, "wake", "done") /\ at' \in [Thread -> Label]
  BY <1>1, GotoMoves, Roles DEF SetDisconnectEvent, Label
<1>3. Becomes(f, [conn[f] EXCEPT !.discEvent = TRUE]) /\ conn' \in [File -> Connection]
  <2>1. [conn[f] EXCEPT !.discEvent = TRUE] \in Connection
    BY <1>1 DEF TypeOK, Connection
  <2>2. conn' = [conn EXCEPT ![f] = [conn[f] EXCEPT !.discEvent = TRUE]]
    BY <1>1 DEF SetDisconnectEvent, TypeOK
  <2> QED BY <1>1, <2>1, <2>2, Updated
<1>4. handle' = handle /\ io' = io
  BY DEF SetDisconnectEvent
<1>5. TypeOK'
  BY <1>1, <1>2, <1>3, <1>4 DEF TypeOK
<1>6. Elsewhere(f)
  BY <1>1, <1>2, <1>3, <1>4 DEF Elsewhere, Moves, TypeOK, Becomes
<1>7. /\ conn[f] \in Connection /\ At(f, Ender) = "wake" /\ At(f, Ender)' = "done"
      /\ \A j \in Role \ {Ender} : At(f, j)' = At(f, j)
  BY <1>1, <1>2, Roles DEF TypeOK, Moves
<1> HIDE DEF At
<1>8. Creating(f)'
  BY <1>1, <1>3, <1>4, <1>7
     DEF Own, Creating, Committed, Role, Connector, Indicator, Closer, Ender, Becomes,
         Connection
<1>9. Handled(f)'
  BY <1>1, <1>3, <1>4, <1>7
     DEF Own, Handled, Committed, Role, Connector, Indicator, Closer, Ender, Becomes,
         Connection
<1>10. Commits(f)'
  BY <1>1, <1>3, <1>4, <1>7
     DEF Own, Commits, Committed, Role, Connector, Indicator, Closer, Ender, Becomes,
         Connection
<1>11. Sent(f)'
  BY <1>1, <1>3, <1>4, <1>7
     DEF Own, Sent, Committed, Role, Connector, Indicator, Closer, Ender, Becomes,
         Connection
<1>12. Alone(f)'
  BY <1>1, <1>3, <1>4, <1>7
     DEF Own, Alone, Committed, Role, Connector, Indicator, Closer, Ender, Becomes,
         Connection
<1> QED BY <1>5, <1>6, <1>8, <1>9, <1>10, <1>11, <1>12 DEF Own

LEMMA DisconnectWaitedKeeps ==
    ASSUME IInv, NEW f \in File, DisconnectWaited(f)
    PROVE  TypeOK' /\ Own(f)' /\ Elsewhere(f)
<1>1. TypeOK /\ Own(f)
  BY DEF IInv
<1>2. Moves(f, Closer, "wait", "done") /\ at' \in [Thread -> Label]
  BY <1>1, GotoMoves, Roles DEF DisconnectWaited, Label
<1>3. conn' = conn
  BY DEF DisconnectWaited
<1>4. /\ handle' = [handle EXCEPT ![f] = "closed"] /\ handle'[f] = "closed" /\ io' = io
  BY <1>1 DEF DisconnectWaited, TypeOK
<1>5. TypeOK'
  BY <1>1, <1>2, <1>3, <1>4 DEF TypeOK
<1>6. Elsewhere(f)
  BY <1>1, <1>2, <1>3, <1>4 DEF Elsewhere, Moves, TypeOK
<1>7. /\ conn[f] \in Connection /\ At(f, Closer) = "wait" /\ At(f, Closer)' = "done"
      /\ \A j \in Role \ {Closer} : At(f, j)' = At(f, j)
  BY <1>1, <1>2, Roles DEF TypeOK, Moves
<1> HIDE DEF At
<1>8. conn[f].discEvent
  BY DEF DisconnectWaited
<1>9. Creating(f)'
  BY <1>1, <1>3, <1>4, <1>7, <1>8
     DEF Own, Creating, Handled, Committed, Role, Connector, Indicator, Closer, Ender
<1>10. Handled(f)'
  BY <1>1, <1>3, <1>4, <1>7, <1>8
     DEF Own, Handled, Committed, Role, Connector, Indicator, Closer, Ender
<1>11. Commits(f)'
  BY <1>1, <1>3, <1>4, <1>7, <1>8
     DEF Own, Commits, Committed, Role, Connector, Indicator, Closer, Ender
<1>12. Sent(f)'
  BY <1>1, <1>3, <1>4, <1>7, <1>8
     DEF Own, Sent, Committed, Role, Connector, Indicator, Closer, Ender
<1>13. Alone(f)'
  BY <1>1, <1>3, <1>4, <1>7, <1>8
     DEF Own, Alone, Committed, Role, Connector, Indicator, Closer, Ender
<1> QED BY <1>5, <1>6, <1>9, <1>10, <1>11, <1>12, <1>13 DEF Own

LEMMA SendCloseKeeps ==
    ASSUME IInv, NEW f \in File, NEW k \in {Indicator, Closer}, SendClose(<<f, k>>)
    PROVE  TypeOK' /\ Own(f)' /\ Elsewhere(f)
<1> DEFINE o == [conn[f] EXCEPT !.channel = "closing", !.closes = @ + 1]
<1>1. TypeOK /\ Own(f)
  BY DEF IInv
<1>2. /\ at' \in [Thread -> Label]
      /\ At(f, k) = "close" /\ At(f, k)' = AfterDisconnect(<<f, k>>)
      /\ At(f, Ender)' = "closing"
      /\ \A j \in Role \ {k, Ender} : At(f, j)' = At(f, j)
      /\ \A g \in File \ {f}, j \in Role : At(g, j)' = At(g, j)
  <2> DEFINE left == [at EXCEPT ![<<f, k>>] = AfterDisconnect(<<f, k>>)]
  <2>1. <<f, k>> \in Thread /\ <<f, Ender>> \in Thread /\ k # Ender
    BY Roles DEF Role, Connector, Indicator, Closer, Ender
  <2>2. AfterDisconnect(<<f, k>>) \in Label
    BY DEF AfterDisconnect, Label
  <2>3. /\ left \in [Thread -> Label] /\ left[<<f, k>>] = AfterDisconnect(<<f, k>>)
        /\ \A t \in Thread \ {<<f, k>>} : left[t] = at[t]
    BY <1>1, <2>1, <2>2 DEF TypeOK
  <2>4. at' = [left EXCEPT ![<<f, Ender>>] = "closing"] /\ at[<<f, k>>] = "close"
    BY <1>1, <2>1 DEF SendClose, TypeOK
  <2> HIDE DEF left
  <2>5. /\ at' \in [Thread -> Label] /\ at'[<<f, Ender>>] = "closing"
        /\ \A t \in Thread \ {<<f, Ender>>} : at'[t] = left[t]
    BY <2>1, <2>3, <2>4 DEF Label
  <2> QED BY <2>1, <2>3, <2>4, <2>5, Roles DEF At
<1>3. Becomes(f, o) /\ conn' \in [File -> Connection]
  <2>1. o \in Connection
    <3>1. conn[f] \in Connection /\ conn[f].closes + 1 \in Nat
      BY <1>1 DEF TypeOK, Connection
    <3> QED BY <3>1 DEF Connection
  <2>2. conn' = [conn EXCEPT ![f] = o]
    BY <1>1 DEF SendClose, TypeOK
  <2> QED BY <1>1, <2>1, <2>2, Updated
<1>4. handle' = handle /\ io' = io
  BY DEF SendClose
<1>5. TypeOK'
  BY <1>1, <1>2, <1>3, <1>4 DEF TypeOK
<1>6. Elsewhere(f)
  BY <1>2, <1>3, <1>4 DEF Elsewhere, Becomes
<1>7. conn[f] \in Connection
  BY <1>1 DEF TypeOK
<1> HIDE DEF At
<1>8. Creating(f)'
  BY <1>1, <1>2, <1>3, <1>4, <1>7
     DEF Own, Creating, Handled, Committed, Role, Connector, Indicator, Closer, Ender,
         Becomes, Connection, AfterDisconnect
<1>9. Handled(f)'
  <2>1. CASE k = Indicator
    BY <1>1, <1>2, <1>3, <1>4, <1>7, <2>1
       DEF Own, Creating, Handled, Commits, Sent, Alone, Committed, Role, Connector,
           Indicator, Closer, Ender, Becomes, Connection, AfterDisconnect
  <2>2. CASE k = Closer
    BY <1>1, <1>2, <1>3, <1>4, <1>7, <2>2
       DEF Own, Creating, Handled, Commits, Sent, Alone, Committed, Role, Connector,
           Indicator, Closer, Ender, Becomes, Connection, AfterDisconnect
  <2> QED BY <2>1, <2>2
<1>10. Commits(f)'
  BY <1>1, <1>2, <1>3, <1>4, <1>7
     DEF Own, Commits, Committed, Role, Connector, Indicator, Closer, Ender, Becomes,
         Connection, AfterDisconnect
<1>11. Sent(f)'
  BY <1>1, <1>2, <1>3, <1>4, <1>7
     DEF Own, Sent, Creating, Handled, Commits, Committed, Role, Connector, Indicator,
         Closer, Ender, Becomes, Connection, AfterDisconnect
<1>12. Alone(f)'
  BY <1>1, <1>2, <1>3, <1>4, <1>7
     DEF Own, Alone, Commits, Committed, Role, Connector, Indicator, Closer, Ender, Becomes,
         Connection, AfterDisconnect
<1> QED BY <1>5, <1>6, <1>8, <1>9, <1>10, <1>11, <1>12 DEF Own

(* The end of a create, and a create that does not begin.                  *)
LEMMA CompleteCreateKeeps ==
    ASSUME IInv, NEW f \in File, CompleteCreate(f)
    PROVE  TypeOK' /\ Own(f)' /\ Elsewhere(f)
<1>1. TypeOK /\ Own(f)
  BY DEF IInv
<1>2. PICK from \in {"complete", "reject"} :
          /\ Goto(<<f, Connector>>, from, "done")
          /\ handle' = [handle EXCEPT ![f] = IF from = "complete" THEN "open" ELSE "failed"]
          /\ conn' = conn /\ io' = io
  BY DEF CompleteCreate
<1>3. Moves(f, Connector, from, "done") /\ at' \in [Thread -> Label]
  BY <1>1, <1>2, GotoMoves, Roles DEF Label
<1>4. /\ handle'[f] = IF from = "complete" THEN "open" ELSE "failed"
      /\ \A g \in File \ {f} : handle'[g] = handle[g]
  BY <1>1, <1>2 DEF TypeOK
<1>5. TypeOK'
  BY <1>1, <1>2, <1>3 DEF TypeOK
<1>6. Elsewhere(f)
  BY <1>2, <1>3, <1>4 DEF Elsewhere, Moves
<1>7. /\ At(f, Connector) = from /\ At(f, Connector)' = "done"
      /\ \A j \in Role \ {Connector} : At(f, j)' = At(f, j)
  BY <1>3, Roles DEF Moves
<1> HIDE DEF At
<1>8. Own(f)'
  BY <1>1, <1>2, <1>4, <1>7
     DEF Own, Creating, Handled, Commits, Sent, Alone, Committed, Role, Connector,
         Indicator, Closer, Ender
<1> QED BY <1>5, <1>6, <1>8

LEMMA CreateFailsKeeps ==
    ASSUME IInv, NEW f \in File, CreateFails(f)
    PROVE  TypeOK' /\ Own(f)' /\ Elsewhere(f)
<1>1. TypeOK /\ Own(f)
  BY DEF IInv
<1>2. /\ handle[f] = "none" /\ handle'[f] = "failed" /\ UNCHANGED <<conn, at, io>>
      /\ \A g \in File \ {f} : handle'[g] = handle[g]
      /\ handle' \in [File -> {"none", "creating", "open", "failed", "closing", "closed"}]
  BY <1>1 DEF CreateFails, TypeOK
<1>3. TypeOK' /\ Elsewhere(f)
  BY <1>1, <1>2 DEF TypeOK, Elsewhere, At
<1>4. \A j \in Role : At(f, j)' = At(f, j)
  BY <1>2 DEF At
<1> HIDE DEF At
<1>5. Own(f)'
  BY <1>1, <1>2, <1>4
     DEF Own, Creating, Handled, Commits, Sent, Alone, Committed, Role, Connector,
         Indicator, Closer, Ender
<1> QED BY <1>3, <1>5

LEMMA DisposeKeeps ==
    ASSUME IInv, NEW f \in File, Dispose(f)
    PROVE  TypeOK' /\ Own(f)' /\ Elsewhere(f)
<1>1. TypeOK /\ Own(f)
  BY DEF IInv
<1>2. /\ Becomes(f, [conn[f] EXCEPT !.object = "disposed"])
      /\ conn' \in [File -> Connection] /\ UNCHANGED <<handle, at, io>>
  <2>1. [conn[f] EXCEPT !.object = "disposed"] \in Connection
    BY <1>1 DEF TypeOK, Connection
  <2>2. conn' = [conn EXCEPT ![f] = [conn[f] EXCEPT !.object = "disposed"]]
    BY <1>1 DEF Dispose, TypeOK
  <2> QED BY <1>1, <2>1, <2>2, Updated DEF Dispose
<1>3. TypeOK' /\ Elsewhere(f)
  BY <1>1, <1>2 DEF TypeOK, Elsewhere, At, Becomes
<1>4. \A j \in Role : At(f, j)' = At(f, j)
  BY <1>2 DEF At
<1>5. /\ conn'[f].state = conn[f].state /\ conn'[f].channel = conn[f].channel
      /\ conn'[f].closes = conn[f].closes /\ conn'[f].discEvent = conn[f].discEvent
  BY <1>1, <1>2 DEF TypeOK, Connection, Becomes
<1> HIDE DEF At
<1>6. Own(f)'
  BY <1>1, <1>2, <1>4, <1>5
     DEF Own, Creating, Handled, Commits, Sent, Alone, Committed, Role, Connector,
         Indicator, Closer, Ender
<1> QED BY <1>3, <1>6

(* Reads and writes touch neither the connection nor its threads.          *)
LEMMA TransferKeeps ==
    ASSUME TypeOK, NEW q \in Transfer,
           StartIo(q) \/ IoHandlerStep(q) \/ IoCompletes(q) \/ IoStop(q)
    PROVE  TypeOK' /\ UNCHANGED <<handle, conn, at>>
<1>1. ASSUME NEW from, NEW to \in {"idle", "format", "send", "sent"}, IoGoto(q, from, to)
      PROVE  TypeOK' /\ UNCHANGED <<handle, conn, at>>
  BY <1>1 DEF IoGoto, TypeOK, IoState
<1>2. CASE StartIo(q) \/ SendIo(q) \/ IoNotSent(q) \/ IoCompletes(q)
  BY <1>1, <1>2 DEF StartIo, SendIo, IoNotSent, IoCompletes
<1>3. CASE FormatIo(q)
  <2>1. (IF conn[q[1]].state = "connected" THEN "send" ELSE "idle")
            \in {"idle", "format", "send", "sent"}
    OBVIOUS
  <2> QED BY <1>1, <1>3, <2>1 DEF FormatIo
<1>4. CASE IoStop(q)
  <2>1. [io[q] EXCEPT !.marked = TRUE] \in IoState
    BY DEF TypeOK, IoState
  <2>2. io' = [io EXCEPT ![q] = [io[q] EXCEPT !.marked = TRUE]]
    BY <1>4 DEF IoStop, TypeOK
  <2> QED BY <1>4, <2>1, <2>2 DEF IoStop, TypeOK
<1> QED BY <1>2, <1>3, <1>4 DEF IoHandlerStep

-----------------------------------------------------------------------------
LEMMA InvInit == Init => IInv
<1> SUFFICES ASSUME Init PROVE IInv
  OBVIOUS
<1>1. TypeOK
  BY DEF Init, TypeOK, Connection, Label, IoState
<1>2. ASSUME NEW f \in File PROVE Own(f)
  <2>1. /\ handle[f] = "none" /\ \A k \in Role : At(f, k) = "off"
        /\ conn[f].state = "initialized" /\ conn[f].channel = "none" /\ conn[f].closes = 0
    BY Roles DEF Init, At
  <2> HIDE DEF At
  <2> QED BY <2>1
             DEF Own, Creating, Handled, Commits, Sent, Alone, Committed, Role, Connector,
                 Indicator, Closer, Ender
<1> QED BY <1>1, <1>2 DEF IInv

(* Only the indication and the closing of the file disconnect.             *)
LEMMA Disconnectors ==
    ASSUME IInv, NEW t \in Thread, DisconnectStep(t)
    PROVE  \E f \in File, k \in {Indicator, Closer} : t = <<f, k>>
<1>1. t = <<t[1], t[2]>> /\ t[1] \in File /\ t[2] \in Role /\ Own(t[1])
  BY Roles DEF IInv
<1>2. At(t[1], t[2]) \in {"lock", "clear", "close"}
  BY <1>1
     DEF DisconnectStep, DisconnectWhileConnecting, DisconnectRefused, DisconnectBegins,
         ClearDisconnectEvent, SendClose, CloseNotSent, Goto, At
<1>3. At(t[1], Connector) \notin {"lock", "clear", "close"}
      /\ At(t[1], Ender) \notin {"lock", "clear", "close"}
  BY <1>1 DEF Own, Creating, Sent
<1>4. t[2] \in {Indicator, Closer}
  BY <1>1, <1>2, <1>3, Roles
<1> QED BY <1>1, <1>4

LEMMA InvStep == IInv /\ [Next]_vars => IInv'
<1> SUFFICES ASSUME IInv, [Next]_vars PROVE IInv'
  OBVIOUS
<1>1. ASSUME NEW f \in File, TypeOK' /\ Own(f)' /\ Elsewhere(f) PROVE IInv'
  BY <1>1, ElsewhereKeeps DEF IInv
<1>2. ASSUME TypeOK', UNCHANGED <<handle, conn, at>> PROVE IInv'
  <2>1. ASSUME NEW g \in File PROVE Own(g)'
    <3>1. Own(g) /\ \A k \in Role : At(g, k)' = At(g, k)
      BY <1>2 DEF IInv, At
    <3> HIDE DEF At
    <3> QED BY <1>2, <3>1
               DEF Own, Creating, Handled, Commits, Sent, Alone, Role, Connector, Indicator,
                   Closer, Ender
  <2> QED BY <1>2, <2>1 DEF IInv
<1>3. ASSUME NEW f \in File, Create(f) \/ CreateFails(f) \/ PeerDisconnects(f) \/ CloseFile(f)
      PROVE  IInv'
  BY <1>1, <1>3, CreateKeeps, CreateFailsKeeps, PeerDisconnectsKeeps, CloseFileKeeps
<1>4. ASSUME NEW f \in File, ConnectorStep(f) PROVE IInv'
  BY <1>1, <1>4, SendConnectKeeps, ConnectNotSentKeeps, OpenedKeeps, RefusedKeeps,
     CompleteCreateKeeps DEF ConnectorStep
<1>5. ASSUME NEW f \in File, WaitStep(f) \/ StackStep(f) PROVE IInv'
  BY <1>1, <1>5, SetDisconnectEventKeeps, DisconnectWaitedKeeps, DisposeKeeps,
     ChannelOpensKeeps, ChannelRefusedKeeps, CloseCompletesKeeps DEF WaitStep, StackStep
<1>6. ASSUME NEW t \in Thread, DisconnectStep(t) PROVE IInv'
  <2>1. PICK f \in File, k \in {Indicator, Closer} : t = <<f, k>>
    BY <1>6, Disconnectors
  <2> QED BY <1>1, <1>6, <2>1, DisconnectWhileConnectingKeeps, DisconnectRefusedKeeps,
             DisconnectBeginsKeeps, ClearDisconnectEventKeeps, SendCloseKeeps,
             CloseNotSentKeeps DEF DisconnectStep
<1>7. ASSUME NEW q \in Transfer,
             StartIo(q) \/ IoHandlerStep(q) \/ IoCompletes(q) \/ IoStop(q)
      PROVE  IInv'
  BY <1>2, <1>7, TransferKeeps DEF IInv
<1>8. CASE UNCHANGED vars
  BY <1>2, <1>8 DEF vars, IInv, TypeOK
<1> QED BY <1>3, <1>4, <1>5, <1>6, <1>7, <1>8 DEF Next

LEMMA Invariant == Spec => []IInv
BY InvInit, InvStep, PTL DEF Spec

-----------------------------------------------------------------------------
(* The files, connections, threads and transfers keep their types.         *)
THEOREM TypeCorrect == Spec => []TypeOK
<1>1. IInv => TypeOK
  BY DEF IInv
<1> QED BY <1>1, Invariant, PTL

(* However the peer's disconnect, its indication and the closing of the    *)
(* file interleave with the completion of the open, which sets the state   *)
(* without looking at it, BthEchoConnectionObjectRemoteDisconnect sends    *)
(* one disconnect at most.                                                 *)
THEOREM DisconnectIsSentOnce == Spec => []DisconnectSentOnce
<1>1. IInv => DisconnectSentOnce
  <2>1. ASSUME IInv, NEW f \in File PROVE conn[f].closes <= 1
    <3>1. conn[f].closes = 0 \/ conn[f].closes = 1
      BY <2>1 DEF IInv, Own, Sent
    <3> QED BY <3>1
  <2> QED BY <2>1 DEF DisconnectSentOnce
<1> QED BY <1>1, Invariant, PTL

(* BthEchoCliEvtFileClose returns with the channel closed when the peer    *)
(* has not ended the connection first: the event it waits for is cleared   *)
(* before the disconnect is sent and set only by its completion.           *)
THEOREM CloseWaitsForTheEnd == Spec => []CloseIsSynchronous
<1>1. IInv => CloseIsSynchronous
  BY DEF IInv, Own, Handled, Alone, At, CloseIsSynchronous
<1> QED BY <1>1, Invariant, PTL

=============================================================================
