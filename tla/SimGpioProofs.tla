--------------------------- MODULE SimGpioProofs ---------------------------
(***************************************************************************)
(* Proofs about SimGpio, for any number of banks and pins.  The registers  *)
(* that are reached are those of the first bank (Reached), so what is      *)
(* proved beyond the types is about a controller of which only that bank is*)
(* used, be it the only one or one of several; the run gpio_banks shows    *)
(* what the use of a second bank does.                                     *)
(***************************************************************************)
EXTENDS SimGpio, TLAPS

R == reg[1]
A == asked[1]

Kept == {"Mode", "Polarity", "Enable", "Direction", "Level"}

Calls == {"start", "enable", "disable", "mask", "unmask", "query", "enabled", "clear",
          "reconfigure", "connect", "disconnect", "read", "write", "save", "restore"}

OpType == [call : Calls \cup {"none"}, bank : Bank, pins : Value, level : BOOLEAN,
           high : BOOLEAN, step : Nat, got : [Register -> Value]]

Types ==
    /\ reg \in [Bank -> [Register -> Value]]
    /\ saved \in [Bank -> [Register -> Value]]
    /\ power \in {"off", "on", "saved", "failed"}
    /\ asked \in [Bank -> Asked]
    /\ op \in OpType
    /\ op.call = "none" => op = NoCall
    /\ op.call # "none" => op.step \in 1 .. Len(Program[op.call])

(* Nobody uses the pins of another bank than the first.  The start, the    *)
(* stop and the queries of the other banks are not restricted.             *)
Looping == {"start", "save", "restore"}

FirstBankOnly == op.bank # 1 => op.call \in Looping \cup {"query", "enabled", "read"}

(* Which calls run when.                                                   *)
CallFollowsPower ==
    /\ op.call = "start" => power = "off"
    /\ op.call = "restore" => power = "saved"
    /\ op.call \notin {"none", "start", "restore"} => power = "on"

(* What a call has read and not yet written back is what the register      *)
(* still holds.                                                            *)
Fresh(r, calls, from, to) ==
    op.call \in calls /\ op.step \in from .. to => op.got[r] = R[r]

ReadIsFresh ==
    /\ Fresh("Enable", {"start", "disable", "mask", "unmask"}, 2, 2)
    /\ Fresh("Direction", {"connect", "disconnect"}, 2, 2)
    /\ Fresh("Level", {"write"}, 2, 2)
    /\ Fresh("Mode", {"enable", "reconfigure"}, 2, 4)
    /\ Fresh("Polarity", {"enable", "reconfigure"}, 3, 5)
    /\ Fresh("Enable", {"enable"}, 4, 7)

(* What enable and reconfigure have written already.                       *)
WrittenSoFar ==
    /\ (op.call = "enable" /\ op.step >= 5) \/ (op.call = "reconfigure" /\ op.step = 5) =>
           \A p \in op.pins : p \in R["Mode"] <=> op.level
    /\ op.call = "enable" /\ op.step >= 6 =>
           \A p \in op.pins : p \in R["Polarity"] <=> op.high
    /\ op.call = "enable" => op.pins \cap A.known = {}

(* A bank's registers are as the calls that succeeded asked for, and the   *)
(* interrupts of a set are configured as asked.                            *)
AsAsked(values) ==
    /\ values["Enable"] = A.enabled /\ values["Direction"] = A.input
    /\ values["Level"] = A.set

Match(values, pins) ==
    \A p \in pins : /\ p \in values["Mode"] <=> p \in A.level
                    /\ p \in values["Polarity"] <=> p \in A.high

WhileOn == power = "on" =>
    /\ AsAsked(R) /\ A.known \subseteq A.connected
    /\ Match(R, A.known \ IF op.call = "reconfigure" THEN op.pins ELSE {})

WhileOff == power = "off" => A = Nothing /\ R["Direction"] = {} /\ R["Level"] = {}

(* The banks are saved one after the other, each from the same registers.  *)
KeptAlike(v, w) == \A r \in Kept : v[r] = w[r]

Saving == op.call = "save" =>
    /\ \A b \in Bank : b < op.bank => KeptAlike(saved[b], R)
    /\ op.step > 1 => saved[op.bank]["Mode"] = R["Mode"]
    /\ op.step > 2 => saved[op.bank]["Polarity"] = R["Polarity"]
    /\ op.step > 3 => saved[op.bank]["Enable"] = R["Enable"]
    /\ op.step > 4 => saved[op.bank]["Direction"] = R["Direction"]

(* Stopped, what was saved is as asked; the registers hold it too or have  *)
(* lost it, and then nothing is enabled before the rest is restored.  The  *)
(* banks are restored one after the other, each with the same values.      *)
Restoring == IF op.call = "restore" THEN op.bank ELSE 1

S == saved[Restoring]

RestoredSoFar ==
    /\ op.step > 1 => R["Mode"] = S["Mode"]
    /\ op.step > 2 => R["Polarity"] = S["Polarity"]
    /\ op.step > 3 => R["Level"] = S["Level"]
    /\ op.step > 4 => R["Direction"] = S["Direction"]

WhileSaved == power = "saved" =>
    /\ AsAsked(S) /\ Match(S, A.known) /\ A.known \subseteq A.connected
    /\ \A b \in Bank : b > Restoring => KeptAlike(saved[b], S)
    /\ \/ KeptAlike(R, S)
       \/ R["Enable"] = {} /\ (op.call = "restore" => RestoredSoFar)

IInv ==
    /\ Types /\ FirstBankOnly /\ CallFollowsPower /\ ReadIsFresh /\ WrittenSoFar
    /\ WhileOn /\ WhileOff /\ Saving /\ WhileSaved

-----------------------------------------------------------------------------
LEMMA CallsAre == DOMAIN Program = Calls
BY DEF Program, Calls

LEMMA ProgramsAre ==
    /\ Program["start"] = <<Read("Enable"), Write("Enable")>>
    /\ Program["disable"] = <<Read("Enable"), Write("Enable")>>
    /\ Program["mask"] = <<Read("Enable"), Write("Enable")>>
    /\ Program["unmask"] = <<Read("Enable"), Write("Enable")>>
    /\ Program["enable"] = EnableProgram
    /\ Program["query"] = <<Read("Enable"), Write("Status"), Read("Status")>>
    /\ Program["enabled"] = <<Read("Enable")>>
    /\ Program["clear"] = <<Write("Status")>>
    /\ Program["reconfigure"] = ReconfigureProgram
    /\ Program["connect"] = <<Read("Direction"), Write("Direction")>>
    /\ Program["disconnect"] = <<Read("Direction"), Write("Direction")>>
    /\ Program["read"] = <<Read("Level")>>
    /\ Program["write"] = <<Read("Level"), Write("Level")>>
    /\ Program["save"] = SaveProgram
    /\ Program["restore"] = RestoreProgram
BY DEF Program, ReadModifyWrite

At(calls, step) == op.call \in calls /\ op.step = step

LEMMA TransfersDiffer ==
    \A r, q : /\ Read(r) # Write(q)
              /\ Read(r) = Read(q) <=> r = q
              /\ Write(r) = Write(q) <=> r = q
BY DEF Read, Write

(* Which step of which call reads a register.                              *)
ReadsAt(r) ==
    /\ r = "Enable" => At({"start", "disable", "mask", "unmask", "query", "enabled"}, 1)
                       \/ At({"enable", "save"}, 3)
    /\ r = "Mode" => At({"enable", "reconfigure", "save"}, 1)
    /\ r = "Polarity" => At({"enable", "reconfigure", "save"}, 2)
    /\ r = "Status" => At({"query"}, 3)
    /\ r = "Direction" => At({"connect", "disconnect"}, 1) \/ At({"save"}, 4)
    /\ r = "Level" => At({"read", "write"}, 1) \/ At({"save"}, 5)

(* Which writes one.                                                       *)
WritesAt(r) ==
    /\ r = "Enable" => At({"start", "disable", "mask", "unmask"}, 2)
                       \/ At({"enable"}, 7) \/ At({"restore"}, 5)
    /\ r = "Mode" => At({"enable", "reconfigure"}, 4) \/ At({"restore"}, 1)
    /\ r = "Polarity" => At({"enable", "reconfigure"}, 5) \/ At({"restore"}, 2)
    /\ r = "Status" => At({"query"}, 2) \/ At({"clear"}, 1) \/ At({"reconfigure"}, 3)
                       \/ At({"enable"}, 6)
    /\ r = "Direction" => At({"connect", "disconnect"}, 2) \/ At({"restore"}, 4)
    /\ r = "Level" => At({"write"}, 2) \/ At({"restore"}, 3)

(* The last step of each call.                                             *)
EndsAt ==
    \/ At({"enabled", "clear", "read"}, 1)
    \/ At({"start", "disable", "mask", "unmask", "connect", "disconnect", "write"}, 2)
    \/ At({"query"}, 3) \/ At({"reconfigure", "save", "restore"}, 5) \/ At({"enable"}, 7)

LEMMA WhatSteps ==
    ASSUME op.call \in Calls, op.step \in 1 .. Len(Program[op.call])
    PROVE  /\ \A r \in Register : Transfer = Read(r) => ReadsAt(r)
           /\ \A r \in Register : Transfer = Write(r) => WritesAt(r)
           /\ op.step = Len(Program[op.call]) <=> EndsAt
<1>1. CASE op.call \in {"start", "disable", "mask", "unmask"}
  <2>1. Program[op.call] = <<Read("Enable"), Write("Enable")>>
    BY <1>1, ProgramsAre
  <2>2. Len(Program[op.call]) = 2 /\ (op.step = 1 \/ op.step = 2)
    BY <2>1
  <2>3. op.step = 1 => Transfer = Read("Enable")
    BY <2>1 DEF Transfer
  <2>4. op.step = 2 => Transfer = Write("Enable")
    BY <2>1 DEF Transfer
  <2> QED BY <1>1, <2>2, <2>3, <2>4, TransfersDiffer DEF ReadsAt, WritesAt, EndsAt, At
<1>2. CASE op.call = "enable"
  <2>1. Program[op.call] = EnableProgram
    BY <1>2, ProgramsAre
  <2>2. Len(Program[op.call]) = 7 /\ op.step \in 1 .. 7
    BY <2>1 DEF EnableProgram
  <2>3. /\ op.step = 1 => Transfer = Read("Mode")
        /\ op.step = 2 => Transfer = Read("Polarity")
        /\ op.step = 3 => Transfer = Read("Enable")
        /\ op.step = 4 => Transfer = Write("Mode")
        /\ op.step = 5 => Transfer = Write("Polarity")
        /\ op.step = 6 => Transfer = Write("Status")
        /\ op.step = 7 => Transfer = Write("Enable")
    BY <2>1 DEF Transfer, EnableProgram
  <2> QED BY <1>2, <2>2, <2>3, TransfersDiffer DEF ReadsAt, WritesAt, EndsAt, At
<1>3. CASE op.call = "query"
  <2>1. Program[op.call] = <<Read("Enable"), Write("Status"), Read("Status")>>
    BY <1>3, ProgramsAre
  <2>2. Len(Program[op.call]) = 3 /\ op.step \in 1 .. 3
    BY <2>1
  <2>3. /\ op.step = 1 => Transfer = Read("Enable")
        /\ op.step = 2 => Transfer = Write("Status")
        /\ op.step = 3 => Transfer = Read("Status")
    BY <2>1 DEF Transfer
  <2> QED BY <1>3, <2>2, <2>3, TransfersDiffer DEF ReadsAt, WritesAt, EndsAt, At
<1>4. CASE op.call \in {"enabled", "clear", "read"}
  <2>1. /\ Len(<<Read("Enable")>>) = 1 /\ Len(<<Write("Status")>>) = 1
        /\ Len(<<Read("Level")>>) = 1
    OBVIOUS
  <2>2. Len(Program[op.call]) = 1
    BY <1>4, <2>1, ProgramsAre
  <2>3. op.step = 1
    BY <2>2
  <2>4. /\ op.call = "enabled" => Transfer = Read("Enable")
        /\ op.call = "clear" => Transfer = Write("Status")
        /\ op.call = "read" => Transfer = Read("Level")
    BY <1>4, <2>3, ProgramsAre DEF Transfer
  <2> QED BY <1>4, <2>2, <2>3, <2>4, TransfersDiffer DEF ReadsAt, WritesAt, EndsAt, At
<1>5. CASE op.call = "reconfigure"
  <2>1. Program[op.call] = ReconfigureProgram
    BY <1>5, ProgramsAre
  <2>2. Len(Program[op.call]) = 5 /\ op.step \in 1 .. 5
    BY <2>1 DEF ReconfigureProgram
  <2>3. /\ op.step = 1 => Transfer = Read("Mode")
        /\ op.step = 2 => Transfer = Read("Polarity")
        /\ op.step = 3 => Transfer = Write("Status")
        /\ op.step = 4 => Transfer = Write("Mode")
        /\ op.step = 5 => Transfer = Write("Polarity")
    BY <2>1 DEF Transfer, ReconfigureProgram
  <2> QED BY <1>5, <2>2, <2>3, TransfersDiffer DEF ReadsAt, WritesAt, EndsAt, At
<1>6. CASE op.call \in {"connect", "disconnect"}
  <2>1. Program[op.call] = <<Read("Direction"), Write("Direction")>>
    BY <1>6, ProgramsAre
  <2>2. Len(Program[op.call]) = 2 /\ (op.step = 1 \/ op.step = 2)
    BY <2>1
  <2>3. /\ op.step = 1 => Transfer = Read("Direction")
        /\ op.step = 2 => Transfer = Write("Direction")
    BY <2>1 DEF Transfer
  <2> QED BY <1>6, <2>2, <2>3, TransfersDiffer DEF ReadsAt, WritesAt, EndsAt, At
<1>7. CASE op.call = "write"
  <2>1. Program[op.call] = <<Read("Level"), Write("Level")>>
    BY <1>7, ProgramsAre
  <2>2. Len(Program[op.call]) = 2 /\ (op.step = 1 \/ op.step = 2)
    BY <2>1
  <2>3. /\ op.step = 1 => Transfer = Read("Level")
        /\ op.step = 2 => Transfer = Write("Level")
    BY <2>1 DEF Transfer
  <2> QED BY <1>7, <2>2, <2>3, TransfersDiffer DEF ReadsAt, WritesAt, EndsAt, At
<1>8. CASE op.call = "save"
  <2>1. Program[op.call] = SaveProgram
    BY <1>8, ProgramsAre
  <2>2. Len(Program[op.call]) = 5 /\ op.step \in 1 .. 5
    BY <2>1 DEF SaveProgram
  <2>3. /\ op.step = 1 => Transfer = Read("Mode")
        /\ op.step = 2 => Transfer = Read("Polarity")
        /\ op.step = 3 => Transfer = Read("Enable")
        /\ op.step = 4 => Transfer = Read("Direction")
        /\ op.step = 5 => Transfer = Read("Level")
    BY <2>1 DEF Transfer, SaveProgram
  <2> QED BY <1>8, <2>2, <2>3, TransfersDiffer DEF ReadsAt, WritesAt, EndsAt, At
<1>9. CASE op.call = "restore"
  <2>1. Program[op.call] = RestoreProgram
    BY <1>9, ProgramsAre
  <2>2. Len(Program[op.call]) = 5 /\ op.step \in 1 .. 5
    BY <2>1 DEF RestoreProgram
  <2>3. /\ op.step = 1 => Transfer = Write("Mode")
        /\ op.step = 2 => Transfer = Write("Polarity")
        /\ op.step = 3 => Transfer = Write("Level")
        /\ op.step = 4 => Transfer = Write("Direction")
        /\ op.step = 5 => Transfer = Write("Enable")
    BY <2>1 DEF Transfer, RestoreProgram
  <2> QED BY <1>9, <2>2, <2>3, TransfersDiffer DEF ReadsAt, WritesAt, EndsAt, At
<1> QED BY <1>1, <1>2, <1>3, <1>4, <1>5, <1>6, <1>7, <1>8, <1>9 DEF Calls

LEMMA ProgramLengths == \A c \in Calls : Len(Program[c]) \in Nat /\ Len(Program[c]) >= 1
<1>1. /\ \A x : Len(<<x>>) = 1
      /\ \A y, z : Len(<<y, z>>) = 2
      /\ \A u, v, w : Len(<<u, v, w>>) = 3
  OBVIOUS
<1>2. Len(EnableProgram) = 7 /\ Len(ReconfigureProgram) = 5
  BY DEF EnableProgram, ReconfigureProgram
<1>3. Len(SaveProgram) = 5 /\ Len(RestoreProgram) = 5
  BY DEF SaveProgram, RestoreProgram
<1>4. Len(Program["enable"]) = 7 /\ Len(Program["reconfigure"]) = 5
      /\ Len(Program["save"]) = 5 /\ Len(Program["restore"]) = 5
  BY <1>2, <1>3, ProgramsAre
<1>5. \A c \in {"query", "enabled", "clear", "read"} : Len(Program[c]) \in {1, 3}
  BY <1>1, ProgramsAre
<1>6. \A c \in {"start", "disable", "mask", "unmask", "connect", "disconnect", "write"} :
          Len(Program[c]) = 2
  BY <1>1, ProgramsAre
<1>7. ASSUME NEW c \in Calls PROVE Len(Program[c]) \in Nat /\ Len(Program[c]) >= 1
  <2> DEFINE n == Len(Program[c])
  <2>1. n = 1 \/ n = 2 \/ n = 3 \/ n = 5 \/ n = 7
    BY <1>4, <1>5, <1>6 DEF Calls
  <2> HIDE DEF n
  <2>2. n \in Nat /\ n >= 1
    BY <2>1
  <2> QED BY <2>2 DEF n
<1> QED BY <1>7

LEMMA Idle ==
    /\ 1 \in Bank /\ NumBanks \in Nat /\ Bank \subseteq Nat /\ \A b \in Bank : b >= 1
    /\ NoCall.call = "none" /\ NoCall.bank = 1 /\ NoCall.pins = {} /\ NoCall.step = 1
    /\ NoCall \in OpType
<1>1. /\ 1 \in Bank /\ NumBanks \in Nat /\ Bank \subseteq Nat /\ \A b \in Bank : b >= 1
  BY NumBanksAssumption DEF Bank
<1> QED BY <1>1 DEF NoCall, Blank, OpType, Value, Register

LEMMA BankOrder ==
    \A a, b \in Bank :
        /\ ~(b < 1) /\ (b < a => b # a) /\ (b <= a /\ b # a => b < a)
        /\ (b < a + 1 => b <= a) /\ (b >= a + 1 => b > a /\ b # a)
        /\ (b > a + 1 => b >= a + 1)
<1>1. \A a, b \in Nat :
          /\ (b < a => b # a) /\ (b <= a /\ b # a => b < a) /\ (b < a + 1 => b <= a)
          /\ (b >= a + 1 => b > a /\ b # a) /\ (b > a + 1 => b >= a + 1)
          /\ (b >= 1 => ~(b < 1))
  OBVIOUS
<1>2. \A b \in Bank : b \in Nat /\ b >= 1
  BY Idle
<1> QED BY <1>1, <1>2

-----------------------------------------------------------------------------
(* The types, for any number of banks.                                     *)
LEMMA Shapes ==
    ASSUME Types
    PROVE  /\ R \in [Register -> Value] /\ A \in Asked
           /\ op \in OpType /\ op.bank \in Bank /\ op.pins \in Value
           /\ op.got \in [Register -> Value]
           /\ saved[op.bank] \in [Register -> Value] /\ asked[op.bank] \in Asked
           /\ \A b : Reached(b) = 1
<1>1. op \in OpType /\ op.bank \in Bank /\ op.pins \in Value /\ op.got \in [Register -> Value]
  BY DEF Types, OpType
<1> QED BY <1>1, Idle DEF Types, R, A, Reached

(* What GpioClx calls, and when.                                           *)
GpioClxCalls ==
    \/ Start \/ Stop \/ Resume
    \/ \E b \in Bank, p \in Pin \ IoPins :
          \/ EnableInterrupt(b, p) \/ DisableInterrupt(b, p)
          \/ UnmaskInterrupt(b, p) \/ ReconfigureInterrupt(b, p)
    \/ \E b \in Bank :
          \/ MaskInterrupts(b) \/ ClearActiveInterrupts(b)
          \/ QueryActiveInterrupts(b) \/ QueryEnabledInterrupts(b)
          \/ ConnectIoPins(b) \/ DisconnectIoPins(b)
          \/ ReadGpioPins(b) \/ WriteGpioPins(b)

Allowed(name, b, pins) ==
    /\ name = "start" => power = "off"
    /\ name = "restore" => power = "saved"
    /\ name \notin {"start", "restore"} => power = "on"
    /\ name \in Looping => b = 1
    /\ name = "enable" => pins \cap asked[b].connected = {}

Called ==
    \E name \in Calls, b \in Bank, pins \in Value, level, high \in BOOLEAN :
        Call(name, b, pins, level, high) /\ Allowed(name, b, pins)

LEMMA CallMade ==
    ASSUME Types, GpioClxCalls
    PROVE  Called
<1> USE DEF Allowed, Looping, Calls
<1>1. {} \in Value /\ SUBSET IoPins \subseteq Value /\ \A p \in Pin : {p} \in Value
  BY IoPinsAssumption DEF Value, Pin
<1>2. CASE Start \/ Stop \/ Resume
  BY <1>1, <1>2, Idle DEF Start, Stop, Resume, Called
<1>3. ASSUME NEW b \in Bank, NEW p \in Pin \ IoPins, EnableInterrupt(b, p) PROVE Called
  <2>1. {p} \in Value /\ {p} \cap asked[b].connected = {} /\ power = "on"
    BY <1>1, <1>3 DEF EnableInterrupt
  <2>2. PICK level, high \in BOOLEAN : Call("enable", b, {p}, level, high)
    BY <1>3 DEF EnableInterrupt
  <2> QED BY <2>1, <2>2 DEF Called
<1>4. ASSUME NEW b \in Bank, NEW p \in Pin \ IoPins,
             DisableInterrupt(b, p) \/ UnmaskInterrupt(b, p)
      PROVE  Called
  BY <1>1, <1>4 DEF DisableInterrupt, UnmaskInterrupt, Called
<1>5. ASSUME NEW b \in Bank, NEW p \in Pin \ IoPins, ReconfigureInterrupt(b, p) PROVE Called
  BY <1>1, <1>5 DEF ReconfigureInterrupt, Called
<1>6. ASSUME NEW b \in Bank, MaskInterrupts(b) \/ ClearActiveInterrupts(b) PROVE Called
  <2>1. asked[b].enabled \in Value
    BY DEF Types, Asked
  <2>2. \A pins \in SUBSET asked[b].enabled : pins \in Value
    BY <2>1 DEF Value
  <2> QED BY <1>6, <2>2 DEF MaskInterrupts, ClearActiveInterrupts, Called
<1>7. ASSUME NEW b \in Bank, \/ QueryActiveInterrupts(b) \/ QueryEnabledInterrupts(b)
                             \/ ReadGpioPins(b)
      PROVE  Called
  BY <1>1, <1>7 DEF QueryActiveInterrupts, QueryEnabledInterrupts, ReadGpioPins, Called
<1>8. ASSUME NEW b \in Bank, ConnectIoPins(b) \/ DisconnectIoPins(b) \/ WriteGpioPins(b)
      PROVE  Called
  BY <1>1, <1>8 DEF ConnectIoPins, DisconnectIoPins, WriteGpioPins, Called
<1> QED BY <1>2, <1>3, <1>4, <1>5, <1>6, <1>7, <1>8 DEF GpioClxCalls

(* A call that is made has its fields.                                     *)
LEMMA CallBegins ==
    ASSUME NEW name \in Calls, NEW b \in Bank, NEW pins \in Value,
           NEW level \in BOOLEAN, NEW high \in BOOLEAN, Call(name, b, pins, level, high)
    PROVE  /\ op.call = "none" /\ UNCHANGED <<reg, saved, power, asked>>
           /\ op' \in OpType /\ op'.call = name /\ op'.bank = b /\ op'.pins = pins
           /\ op'.step = 1 /\ op'.step \in 1 .. Len(Program[name])
<1>1. op.call = "none" /\ UNCHANGED <<reg, saved, power, asked>>
  BY Idle DEF Call
<1>2. /\ op' = [NoCall EXCEPT !.call = name, !.bank = b, !.pins = pins,
                              !.level = level, !.high = high]
  BY DEF Call
<1>3. /\ op' \in OpType /\ op'.call = name /\ op'.bank = b /\ op'.pins = pins
      /\ op'.step = 1
  BY <1>2, Idle DEF OpType, NoCall
<1>4. 1 \in 1 .. Len(Program[name])
  BY ProgramLengths
<1> QED BY <1>1, <1>3, <1>4

(* A transfer that is not the last of its call.                            *)
GoesOn(got) ==
    /\ op'.call = op.call /\ op'.bank = op.bank /\ op'.pins = op.pins
    /\ op'.level = op.level /\ op'.high = op.high
    /\ op'.step = op.step + 1 /\ op'.got = got /\ UNCHANGED <<power, asked>>

LEMMA Continues ==
    ASSUME Types, op # NoCall, NEW got \in [Register -> Value], Continue(got)
    PROVE  /\ op.call \in Calls /\ op.step \in 1 .. Len(Program[op.call])
           /\ IF IsLast(got) THEN Advance ELSE GoesOn(got)
           /\ ~IsLast(got) => op' \in OpType /\ op'.step \in 1 .. Len(Program[op.call])
<1>1. op.call \in Calls /\ op.step \in 1 .. Len(Program[op.call]) /\ op \in OpType
  BY DEF Types, OpType
<1>2. CASE IsLast(got)
  BY <1>1, <1>2 DEF Continue
<1>3. CASE ~IsLast(got)
  <2>1. op' = [op EXCEPT !.step = op.step + 1, !.got = got] /\ UNCHANGED <<power, asked>>
    BY <1>3 DEF Continue
  <2>2. op' \in OpType /\ GoesOn(got)
    <3>1. op.step + 1 \in Nat
      BY <1>1 DEF OpType
    <3> QED BY <1>1, <2>1, <3>1 DEF OpType, GoesOn
  <2>3. Len(Program[op.call]) \in Nat /\ op.step # Len(Program[op.call])
    BY <1>1, <1>3, ProgramLengths DEF IsLast
  <2>4. op'.step \in 1 .. Len(Program[op.call])
    BY <1>1, <2>2, <2>3 DEF GoesOn
  <2> QED BY <1>1, <1>3, <2>2, <2>4
<1> QED BY <1>2, <1>3

(* What a call asked for is recorded with its outcome.                     *)
LEMMA OutcomeTyped ==
    ASSUME Types, NEW a \in Asked
    PROVE  Outcome(a) \in Asked
<1>1. op.pins \in Value /\ Lowest(op.pins) \in Value /\ op.pins \subseteq Pin
  BY Shapes DEF Lowest, Value
<1>2. \A v \in Value, yes \in BOOLEAN : Put(v, op.pins, yes) \in Value
  BY <1>1 DEF Put, Value
<1>3. op.level \in BOOLEAN /\ op.high \in BOOLEAN
  BY DEF Types, OpType
<1>4. Configured(a) \in Asked
  <2>1. \A v \in Value : v \cup op.pins \in Value
    BY <1>1 DEF Value
  <2> QED BY <1>2, <1>3, <2>1 DEF Configured, Asked
<1>5. CASE op.call = "enable"
  <2>1. \A v \in Value : v \cup op.pins \in Value
    BY <1>1 DEF Value
  <2> QED BY <1>4, <1>5, <2>1 DEF Outcome, Asked
<1>6. CASE op.call = "reconfigure"
  BY <1>4, <1>6 DEF Outcome
<1>7. CASE op.call \in {"disable", "mask", "unmask"}
  BY <1>1, <1>7 DEF Outcome, Asked, Value
<1>8. CASE op.call \in {"connect", "disconnect", "write"}
  BY <1>2, <1>3, <1>8 DEF Outcome, Asked
<1>9. CASE op.call \notin {"enable", "reconfigure", "disable", "mask", "unmask", "connect",
                           "disconnect", "write"}
  BY <1>9 DEF Outcome
<1> QED BY <1>5, <1>6, <1>7, <1>8, <1>9

(* The last transfer of a call: the next bank, the next pin of a mask, or  *)
(* the end.                                                                *)
NextBank ==
    /\ op.call \in Looping /\ op.bank < NumBanks
    /\ op'.call = op.call /\ op'.bank = op.bank + 1 /\ op'.step = 1 /\ power' = power

NextPin == op'.call = "mask" /\ op'.step = 1 /\ op'.bank = op.bank /\ power' = power

TheEnd ==
    op' = NoCall /\ power' = PowerAfter /\ (op.call \in Looping => op.bank = NumBanks)

LEMMA Ends ==
    ASSUME Types, Advance
    PROVE  /\ asked' = [asked EXCEPT ![op.bank] = Outcome(asked[op.bank])]
           /\ op' \in OpType
           /\ IF op.call = "mask" THEN NextPin \/ TheEnd ELSE NextBank \/ TheEnd
<1>1. op.bank \in Bank /\ op \in OpType /\ op.pins \in Value
  BY Shapes
<1>2. asked' = [asked EXCEPT ![op.bank] = Outcome(asked[op.bank])]
  BY DEF Advance
<1>3. CASE op.call \in Looping /\ op.bank < NumBanks
  <2>1. op' = [NoCall EXCEPT !.call = op.call, !.bank = op.bank + 1] /\ power' = power
    BY <1>3 DEF Advance, Looping
  <2>2. op.bank + 1 \in Bank /\ op.call \in Calls
    BY <1>1, <1>3, Idle DEF Bank, Looping, Calls
  <2>3. op' \in OpType /\ NextBank
    BY <1>3, <2>1, <2>2, Idle DEF OpType, NoCall, NextBank
  <2> QED BY <1>2, <1>3, <2>3 DEF Looping
<1>4. CASE ~(op.call \in Looping /\ op.bank < NumBanks) /\ op.call = "mask"
           /\ op.pins # Lowest(op.pins)
  <2>1. op' = [op EXCEPT !.pins = op.pins \ Lowest(op.pins), !.step = 1] /\ power' = power
    BY <1>4 DEF Advance, Looping
  <2>2. op.pins \ Lowest(op.pins) \in Value
    BY <1>1 DEF Value
  <2>3. op' \in OpType /\ NextPin
    BY <1>1, <1>4, <2>1, <2>2 DEF OpType, NextPin
  <2> QED BY <1>2, <1>4, <2>3
<1>5. CASE ~(op.call \in Looping /\ op.bank < NumBanks)
           /\ ~(op.call = "mask" /\ op.pins # Lowest(op.pins))
  <2>1. op' = NoCall /\ power' = PowerAfter
    BY <1>5 DEF Advance, Looping
  <2>2. ~(op.bank < NumBanks) => op.bank = NumBanks
    BY <1>1, Idle DEF Bank
  <2> QED BY <1>2, <1>5, <2>1, <2>2, Idle DEF TheEnd
<1> QED BY <1>3, <1>4, <1>5

LEMMA EndsTyped ==
    ASSUME Types, Advance
    PROVE  /\ asked' \in [Bank -> Asked] /\ power' \in {"off", "on", "saved", "failed"}
           /\ op' \in OpType /\ (op'.call = "none" => op' = NoCall)
           /\ op'.call # "none" => op'.step \in 1 .. Len(Program[op'.call])
<1>1. asked' \in [Bank -> Asked]
  <2>1. Outcome(asked[op.bank]) \in Asked
    BY Shapes, OutcomeTyped
  <2> QED BY <2>1, Ends DEF Types
<1>2. PowerAfter \in {"off", "on", "saved", "failed"}
  BY DEF PowerAfter, Types
<1>3. 1 \in 1 .. Len(Program["mask"]) /\ \A c \in Looping : 1 \in 1 .. Len(Program[c])
  BY ProgramLengths DEF Looping, Calls
<1>4. CASE TheEnd
  BY <1>1, <1>2, <1>4, Idle, Ends DEF TheEnd
<1>5. CASE NextBank
  BY <1>1, <1>3, <1>5, Ends DEF NextBank, Types, Looping
<1>6. CASE NextPin
  BY <1>1, <1>3, <1>6, Ends DEF NextPin, Types
<1> QED BY <1>4, <1>5, <1>6, Ends

(* A write puts a value into the register.                                 *)
LEMMA WrittenTyped ==
    ASSUME Types, NEW r \in Register
    PROVE  Written(r) \in Value
<1>1. /\ R \in [Register -> Value] /\ op.got \in [Register -> Value]
      /\ op.pins \in Value /\ saved[op.bank] \in [Register -> Value] /\ Reached(op.bank) = 1
  BY Shapes
<1>2. \A v, s \in Value : v \cup s \in Value /\ v \ s \in Value
  BY DEF Value
<1>3. Lowest(op.pins) \in Value /\ Subject \in Value
  BY <1>1 DEF Lowest, Subject, Value
<1>4. {} \in Value /\ "Enable" \in Register
  BY DEF Value, Register
<1>5. CASE op.call = "restore"
  BY <1>1, <1>5 DEF Written
<1>6. CASE op.call # "restore" /\ r = "Status"
  <2>1. reg[Reached(op.bank)]["Status"] = R["Status"] /\ R["Status"] \in Value
        /\ op.got["Enable"] \in Value
    BY <1>1 DEF R, Register
  <2> QED BY <1>1, <1>2, <1>4, <1>6, <2>1 DEF Written
<1>7. CASE op.call # "restore" /\ r # "Status"
  <2>1. /\ op.got["Mode"] \in Value /\ op.got["Polarity"] \in Value
        /\ op.got["Enable"] \in Value /\ op.got["Direction"] \in Value
        /\ op.got["Level"] \in Value
    BY <1>1 DEF Register
  <2>2. CASE r = "Enable"
    <3>1. \/ Written(r) = {}
          \/ Written(r) = Put(op.got["Enable"], Subject, op.call \in {"enable", "unmask"})
      BY <1>7, <2>2 DEF Written
    <3>2. \/ Written(r) = {} \/ Written(r) = op.got["Enable"] \cup Subject
          \/ Written(r) = op.got["Enable"] \ Subject
      BY <3>1 DEF Put
    <3> QED BY <1>2, <1>3, <1>4, <2>1, <3>2
  <2>3. CASE r # "Enable"
    <3>1. /\ r = "Mode" => Written(r) = Put(op.got["Mode"], op.pins, op.level)
          /\ r = "Polarity" => Written(r) = Put(op.got["Polarity"], op.pins, op.high)
          /\ r = "Direction" => Written(r) = Put(op.got["Direction"], op.pins, op.high)
          /\ r = "Level" => Written(r) = Put(op.got["Level"], op.pins, op.high)
      BY <1>7 DEF Written
    <3>2. \E v \in Value : Written(r) = v \cup op.pins \/ Written(r) = v \ op.pins
      BY <1>7, <2>1, <2>3, <3>1 DEF Put, Register
    <3> QED BY <1>1, <1>2, <3>2
  <2> QED BY <2>2, <2>3
<1> QED BY <1>5, <1>6, <1>7

LEMMA TransferTypes ==
    ASSUME Types, NEW r \in Register, ReadByte(r) \/ WriteByte(r)
    PROVE  Types'
<1>1. /\ R \in [Register -> Value] /\ op.got \in [Register -> Value] /\ Reached(op.bank) = 1
      /\ op.bank \in Bank /\ op.call \in Calls \cup {"none"}
  BY Shapes DEF OpType
<1>2. /\ asked' \in [Bank -> Asked] /\ power' \in {"off", "on", "saved", "failed"}
      /\ op' \in OpType /\ (op'.call = "none" => op' = NoCall)
      /\ op'.call # "none" => op'.step \in 1 .. Len(Program[op'.call])
  <2>1. ASSUME NEW got \in [Register -> Value], Continue(got), op # NoCall
        PROVE  /\ asked' \in [Bank -> Asked] /\ power' \in {"off", "on", "saved", "failed"}
               /\ op' \in OpType /\ (op'.call = "none" => op' = NoCall)
               /\ op'.call # "none" => op'.step \in 1 .. Len(Program[op'.call])
    <3>1. CASE IsLast(got)
      BY <2>1, <3>1, Continues, EndsTyped
    <3>2. CASE ~IsLast(got)
      <4>1. /\ GoesOn(got) /\ op' \in OpType /\ op'.step \in 1 .. Len(Program[op.call])
            /\ op.call \in Calls
        BY <2>1, <3>2, Continues
      <4> QED BY <4>1 DEF GoesOn, Types, Calls
    <3> QED BY <3>1, <3>2
  <2>2. CASE ReadByte(r)
    <3>1. [op.got EXCEPT ![r] = R[r]] \in [Register -> Value]
      BY <1>1
    <3> QED BY <1>1, <2>1, <2>2, <3>1 DEF ReadByte, R
  <2>3. CASE WriteByte(r)
    BY <1>1, <2>1, <2>3 DEF WriteByte
  <2> QED BY <2>2, <2>3
<1>3. reg' \in [Bank -> [Register -> Value]]
  <2>1. CASE ReadByte(r)
    BY <2>1 DEF ReadByte, Types
  <2>2. CASE WriteByte(r)
    <3>1. Written(r) \in Value
      BY WrittenTyped
    <3> QED BY <1>1, <2>2, <3>1 DEF WriteByte, Types
  <2> QED BY <2>1, <2>2
<1>4. saved' \in [Bank -> [Register -> Value]]
  <2>1. CASE ReadByte(r)
    <3>1. R[r] \in Value
      BY <1>1
    <3>2. saved' = saved \/ saved' = [saved EXCEPT ![op.bank][r] = R[r]]
      BY <1>1, <2>1 DEF ReadByte, R
    <3>3. [saved[op.bank] EXCEPT ![r] = R[r]] \in [Register -> Value]
      BY <3>1, Shapes
    <3>4. saved' = saved
          \/ saved' = [saved EXCEPT ![op.bank] = [saved[op.bank] EXCEPT ![r] = R[r]]]
      BY <3>2
    <3> QED BY <1>1, <3>3, <3>4 DEF Types
  <2>2. CASE WriteByte(r)
    <3>1. Blank \in [Register -> Value]
      BY DEF Blank, Value
    <3>2. saved' = saved \/ saved' = [saved EXCEPT ![op.bank] = Blank]
      BY <2>2 DEF WriteByte
    <3> QED BY <1>1, <3>1, <3>2 DEF Types
  <2> QED BY <2>1, <2>2
<1> QED BY <1>2, <1>3, <1>4 DEF Types

LEMMA TypesInit == Init => Types
<1> SUFFICES ASSUME Init PROVE Types
  OBVIOUS
<1>1. PICK left \in Value : reg = [b \in Bank |-> [Blank EXCEPT !.Enable = left]]
  BY DEF Init
<1>2. /\ Blank \in [Register -> Value] /\ Nothing \in Asked
      /\ [Blank EXCEPT !.Enable = left] \in [Register -> Value]
  BY DEF Blank, Value, Nothing, Asked
<1> QED BY <1>1, <1>2, Idle DEF Init, Types

LEMMA TypesStep == Types /\ [Next]_vars => Types'
<1> SUFFICES ASSUME Types, [Next]_vars PROVE Types'
  OBVIOUS
<1>1. CASE GpioClxCalls
  <2>1. PICK name \in Calls, b \in Bank, pins \in Value, level \in BOOLEAN, high \in BOOLEAN :
            Call(name, b, pins, level, high)
    BY <1>1, CallMade DEF Called
  <2>2. name # "none"
    BY DEF Calls
  <2> QED BY <2>1, <2>2, CallBegins DEF Types
<1>2. CASE PowerLoss
  <2>1. Blank \in [Register -> Value]
    BY DEF Blank, Value
  <2> QED BY <1>2, <2>1 DEF PowerLoss, Types
<1>3. CASE TransferFails
  <2>1. /\ op' = NoCall /\ reg' = reg /\ saved' = saved
        /\ power' \in {"off", "on", "saved", "failed"}
    BY <1>3 DEF TransferFails, Failed, Types
  <2>2. asked' \in [Bank -> Asked]
    <3> DEFINE k == IF op.call = "reconfigure" THEN asked[op.bank].known \ op.pins
                                               ELSE asked[op.bank].known
    <3>1. k \in Value
      BY Shapes DEF Asked, Value
    <3>2. asked' = [asked EXCEPT ![op.bank].known = k]
      BY <1>3 DEF TransferFails, Failed
    <3> HIDE DEF k
    <3>3. [asked[op.bank] EXCEPT !.known = k] \in Asked
      BY <3>1, Shapes DEF Asked
    <3> QED BY <3>2, <3>3, Shapes DEF Types
  <2> QED BY <2>1, <2>2, Idle DEF Types
<1>4. CASE UNCHANGED vars
  BY <1>4 DEF vars, Types
<1> QED BY <1>1, <1>2, <1>3, <1>4, TransferTypes DEF Next, GpioClxCalls

-----------------------------------------------------------------------------
(* A controller of which only the first bank is used.                      *)
LEMMA CallKeeps ==
    ASSUME IInv, Types', FirstBankOnly', GpioClxCalls
    PROVE  IInv'
<1>1. PICK name \in Calls, b \in Bank, pins \in Value, level \in BOOLEAN, high \in BOOLEAN :
          Call(name, b, pins, level, high) /\ Allowed(name, b, pins)
  BY CallMade DEF IInv, Called
<1>2. /\ op.call = "none" /\ UNCHANGED <<reg, saved, power, asked>>
      /\ op'.call = name /\ op'.bank = b /\ op'.pins = pins /\ op'.step = 1
  BY <1>1, CallBegins
<1>3. R' = R /\ A' = A
  BY <1>2 DEF R, A
<1>4. CallFollowsPower' /\ ReadIsFresh'
  BY <1>1, <1>2 DEF Allowed, CallFollowsPower, ReadIsFresh, Fresh
<1>5. WrittenSoFar'
  <2>1. name = "enable" => b = 1 /\ power = "on"
    BY <1>1, <1>2 DEF FirstBankOnly, Looping, Allowed
  <2>2. name = "enable" => A.known \subseteq A.connected
    BY <2>1 DEF IInv, WhileOn
  <2> QED BY <1>1, <1>2, <1>3, <2>1, <2>2 DEF WrittenSoFar, Allowed, A
<1>6. WhileOn' /\ WhileOff'
  <2>1. op.call # "reconfigure"
    BY <1>2
  <2> QED BY <1>2, <1>3, <2>1 DEF IInv, WhileOn, WhileOff, AsAsked, Match
<1>7. name \in Looping => b = 1
  BY <1>1 DEF Allowed
<1>8. Saving'
  <2>1. \A c \in Bank : ~(c < 1)
    BY BankOrder, Idle
  <2>2. op'.call = "save" => op'.bank = 1
    BY <1>2, <1>7 DEF Looping
  <2> QED BY <1>2, <2>1, <2>2 DEF Saving
<1>9. WhileSaved'
  <2>1. Restoring = 1 /\ Restoring' = 1 /\ S' = S
    BY <1>2, <1>7 DEF Restoring, S, Looping
  <2> QED BY <1>2, <1>3, <2>1
             DEF IInv, WhileSaved, AsAsked, Match, KeptAlike, RestoredSoFar
<1> QED BY <1>4, <1>5, <1>6, <1>8, <1>9 DEF IInv

(* What the last transfer of a call makes of what was asked.               *)
Unasked == Looping \cup {"query", "enabled", "clear", "read"}

LEMMA AskedAfter ==
    ASSUME IInv, Advance
    PROVE  /\ op.call \in Unasked => asked' = asked /\ A' = A
           /\ op.call \notin Unasked => op.bank = 1 /\ A' = Outcome(A)
<1>1. /\ asked' = [asked EXCEPT ![op.bank] = Outcome(asked[op.bank])]
      /\ asked \in [Bank -> Asked] /\ op.bank \in Bank
  BY Ends, Shapes DEF IInv, Types
<1>2. CASE op.call \in Unasked
  <2>1. Outcome(asked[op.bank]) = asked[op.bank]
    BY <1>2 DEF Outcome, Unasked, Looping
  <2> QED BY <1>1, <1>2, <2>1 DEF A
<1>3. CASE op.call \notin Unasked
  <2>1. op.bank = 1
    BY <1>3 DEF IInv, FirstBankOnly, Unasked
  <2> QED BY <1>1, <1>3, <2>1, Idle DEF A
<1> QED BY <1>2, <1>3

(* Between two calls only the registers and what was asked matter.         *)
LEMMA RestKeeps ==
    ASSUME IInv, Types', FirstBankOnly', op'.call = "none", WhileOn',
           power' \in {"on", "failed"}
    PROVE  IInv'
BY DEF IInv, CallFollowsPower, ReadIsFresh, Fresh, WrittenSoFar, Saving, WhileOff, WhileSaved

(* What a read that is not the last does.                                  *)
LEMMA ReadOnKeeps ==
    ASSUME IInv, Types', FirstBankOnly',
           NEW r \in Register, ReadByte(r), ~IsLast([op.got EXCEPT ![r] = R[r]])
    PROVE  IInv'
<1> DEFINE got == [op.got EXCEPT ![r] = R[r]]
<1>1. /\ Types /\ op.got \in [Register -> Value] /\ Reached(op.bank) = 1
      /\ R \in [Register -> Value] /\ saved \in [Bank -> [Register -> Value]]
      /\ op.bank \in Bank
  BY Shapes DEF IInv, Types
<1>2. /\ got \in [Register -> Value]
      /\ \A q \in Register : got[q] = IF q = r THEN R[r] ELSE op.got[q]
  BY <1>1
<1>3. /\ op # NoCall /\ Transfer = Read(r) /\ Continue(got) /\ reg' = reg
      /\ saved' = IF op.call = "save" THEN [saved EXCEPT ![op.bank][r] = R[r]] ELSE saved
  BY <1>1 DEF ReadByte, R
<1> HIDE DEF got
<1>4. op.call \in Calls /\ op.step \in 1 .. Len(Program[op.call]) /\ GoesOn(got)
  BY <1>1, <1>2, <1>3, Continues DEF got
<1>5. ReadsAt(r) /\ op.step \in Nat /\ op.call # "none"
  BY <1>3, <1>4, WhatSteps DEF Calls
<1>6. /\ R' = R /\ A' = A
      /\ op.call # "save" => saved' = saved
      /\ op.call = "save" =>
            /\ saved'[op.bank][r] = R[r]
            /\ \A q \in Register \ {r} : saved'[op.bank][q] = saved[op.bank][q]
            /\ \A b \in Bank \ {op.bank} : saved'[b] = saved[b]
  BY <1>1, <1>3, <1>4 DEF R, A, GoesOn
<1>7. CallFollowsPower' /\ WhileOn' /\ WhileOff'
  BY <1>4, <1>6 DEF IInv, GoesOn, CallFollowsPower, WhileOn, WhileOff, AsAsked, Match
<1>8. ReadIsFresh'
  BY <1>2, <1>4, <1>5, <1>6 DEF IInv, GoesOn, ReadIsFresh, Fresh, ReadsAt, At, Register
<1>9. WrittenSoFar'
  BY <1>4, <1>5, <1>6 DEF IInv, GoesOn, WrittenSoFar, ReadsAt, At, Register
<1>10. Saving'
  <2> SUFFICES ASSUME op.call = "save" PROVE Saving'
    BY <1>4 DEF Saving, GoesOn
  <2>1. op'.bank = op.bank /\ op'.step = op.step + 1
    BY <1>4 DEF GoesOn
  <2>2. \A b \in Bank : b < op.bank => KeptAlike(saved[b], R)'
    <3>1. \A b \in Bank : b < op.bank => b # op.bank
      BY <1>1, BankOrder
    <3> QED BY <1>6, <3>1 DEF IInv, Saving, KeptAlike
  <2>3. /\ op.step + 1 > 1 => saved'[op.bank]["Mode"] = R["Mode"]
        /\ op.step + 1 > 2 => saved'[op.bank]["Polarity"] = R["Polarity"]
        /\ op.step + 1 > 3 => saved'[op.bank]["Enable"] = R["Enable"]
        /\ op.step + 1 > 4 => saved'[op.bank]["Direction"] = R["Direction"]
    BY <1>5, <1>6 DEF IInv, Saving, ReadsAt, At, Register
  <2> QED BY <1>6, <2>1, <2>2, <2>3 DEF Saving
<1>11. WhileSaved'
  <2>1. power = "saved" => op.call = "restore"
    BY <1>5 DEF IInv, CallFollowsPower
  <2>2. op.call # "restore"
    BY <1>5 DEF ReadsAt, At, Register
  <2> QED BY <1>4, <2>1, <2>2 DEF WhileSaved, GoesOn
<1> QED BY <1>7, <1>8, <1>9, <1>10, <1>11 DEF IInv

(* What the last read of a call does.                                      *)
LEMMA ReadLastKeeps ==
    ASSUME IInv, Types', FirstBankOnly',
           NEW r \in Register, ReadByte(r), IsLast([op.got EXCEPT ![r] = R[r]])
    PROVE  IInv'
<1> DEFINE got == [op.got EXCEPT ![r] = R[r]]
<1>1. /\ Types /\ op.got \in [Register -> Value] /\ Reached(op.bank) = 1
      /\ R \in [Register -> Value] /\ saved \in [Bank -> [Register -> Value]]
      /\ op.bank \in Bank
  BY Shapes DEF IInv, Types
<1>2. got \in [Register -> Value] /\ got[r] = R[r]
  BY <1>1
<1>3. /\ op # NoCall /\ Transfer = Read(r) /\ Continue(got) /\ reg' = reg
      /\ saved' = IF op.call = "save" THEN [saved EXCEPT ![op.bank][r] = R[r]] ELSE saved
  BY <1>1 DEF ReadByte, R
<1>4. IsLast(got)
  OBVIOUS
<1> HIDE DEF got
<1>5. op.call \in Calls /\ op.step \in 1 .. Len(Program[op.call]) /\ Advance
  BY <1>1, <1>2, <1>3, <1>4, Continues
<1>6. ReadsAt(r) /\ (EndsAt \/ (op.call = "start" /\ got["Enable"] = {}))
  BY <1>3, <1>4, <1>5, WhatSteps DEF IsLast
<1>7. \/ op.call \in {"enabled", "read", "query"}
      \/ op.call = "start" /\ r = "Enable" /\ R["Enable"] = {}
      \/ op.call = "save" /\ op.step = 5 /\ r = "Level"
  BY <1>2, <1>6 DEF ReadsAt, EndsAt, At, Register
<1>8. A' = A /\ R' = R
  BY <1>3, <1>5, <1>7, AskedAfter DEF Unasked, Looping, R
<1>9. NextBank \/ TheEnd
  BY <1>1, <1>5, <1>7, Ends
<1>10. CASE op.call \in {"enabled", "read", "query"}
  <2>1. op'.call = "none" /\ power = "on" /\ power' = "on"
    BY <1>9, <1>10, Idle DEF IInv, CallFollowsPower, NextBank, TheEnd, Looping, PowerAfter
  <2>2. WhileOn'
    BY <1>8, <1>10, <2>1 DEF IInv, WhileOn, AsAsked, Match
  <2> QED BY <2>1, <2>2, RestKeeps
<1>11. CASE op.call = "start"
  <2>1. power = "off" /\ A = Nothing /\ R["Direction"] = {} /\ R["Level"] = {}
    BY <1>11 DEF IInv, CallFollowsPower, WhileOff
  <2>2. CASE NextBank
    <3>1. op'.call = "start" /\ op'.step = 1 /\ power' = "off"
      BY <1>11, <2>1, <2>2 DEF NextBank
    <3> QED BY <1>8, <2>1, <3>1
            DEF IInv, CallFollowsPower, ReadIsFresh, Fresh, WrittenSoFar, WhileOn, WhileOff,
                Saving, WhileSaved
  <2>3. CASE TheEnd
    <3>1. op'.call = "none" /\ power' = "on"
      BY <1>11, <2>3, Idle DEF TheEnd, PowerAfter
    <3>2. WhileOn'
      BY <1>7, <1>8, <1>11, <2>1 DEF Nothing, WhileOn, AsAsked, Match
    <3> QED BY <3>1, <3>2, RestKeeps
  <2> QED BY <1>9, <2>2, <2>3
<1>12. CASE op.call = "save"
  <2>1. /\ \A q \in Register \ {"Level"} : saved'[op.bank][q] = saved[op.bank][q]
        /\ saved'[op.bank]["Level"] = R["Level"]
        /\ \A b \in Bank \ {op.bank} : saved'[b] = saved[b]
    BY <1>1, <1>3, <1>7, <1>12
  <2>2. power = "on"
    BY <1>12 DEF IInv, CallFollowsPower
  <2>3. KeptAlike(saved'[op.bank], R)
    BY <1>7, <1>12, <2>1 DEF IInv, Saving, Kept, KeptAlike, Register
  <2>4. \A b \in Bank : b <= op.bank => KeptAlike(saved'[b], R)
    <3>1. ASSUME NEW b \in Bank, b <= op.bank, b # op.bank PROVE KeptAlike(saved'[b], R)
      <4>1. b < op.bank /\ saved'[b] = saved[b]
        BY <1>1, <2>1, <3>1, BankOrder
      <4> QED BY <1>12, <4>1 DEF IInv, Saving
    <3> QED BY <2>3, <3>1
  <2>5. CASE NextBank
    <3>1. op'.call = "save" /\ op'.bank = op.bank + 1 /\ op'.step = 1 /\ power' = "on"
      BY <1>12, <2>2, <2>5 DEF NextBank
    <3>2. Saving'
      <4>1. \A b \in Bank : b < op.bank + 1 => b <= op.bank
        BY <1>1, BankOrder
      <4>2. \A b \in Bank : b < op.bank + 1 => KeptAlike(saved[b], R)'
        BY <1>8, <2>4, <4>1 DEF KeptAlike
      <4> QED BY <3>1, <4>2 DEF Saving
    <3>3. WhileOn'
      BY <1>8, <1>12, <2>2, <3>1 DEF IInv, WhileOn, AsAsked, Match
    <3> QED BY <3>1, <3>2, <3>3
            DEF IInv, CallFollowsPower, ReadIsFresh, Fresh, WrittenSoFar, WhileOff, WhileSaved
  <2>6. CASE TheEnd
    <3>1. op'.call = "none" /\ power' = "saved" /\ op.bank = NumBanks
      BY <1>12, <2>6, Idle DEF TheEnd, PowerAfter, Looping
    <3>2. \A b \in Bank : KeptAlike(saved'[b], R)
      BY <2>4, <3>1, Idle DEF Bank
    <3>3. S' = saved'[1] /\ Restoring' = 1
      BY <3>1 DEF S, Restoring
    <3>4. AsAsked(R) /\ A.known \subseteq A.connected /\ Match(R, A.known)
      BY <1>12, <2>2 DEF IInv, WhileOn
    <3>5. WhileSaved'
      <4>1. KeptAlike(saved'[1], R)
        BY <3>2, Idle
      <4>2. AsAsked(S)' /\ Match(S, A.known)' /\ KeptAlike(R, S)'
        BY <1>8, <3>3, <3>4, <4>1 DEF AsAsked, Match, KeptAlike, Kept
      <4>3. \A b \in Bank : KeptAlike(saved[b], S)'
        BY <3>2, <3>3, <4>1 DEF KeptAlike
      <4> QED BY <1>8, <3>4, <4>2, <4>3 DEF WhileSaved
    <3> QED BY <3>1, <3>5
            DEF IInv, CallFollowsPower, ReadIsFresh, Fresh, WrittenSoFar, WhileOn, WhileOff,
                Saving
  <2> QED BY <1>9, <2>5, <2>6
<1> QED BY <1>7, <1>10, <1>11, <1>12

-----------------------------------------------------------------------------
(* What a write makes of the registers.                                    *)
LEMMA WriteDoes ==
    ASSUME IInv, NEW r \in Register, WriteByte(r)
    PROVE  /\ op.call \in Calls /\ op.step \in Nat /\ WritesAt(r)
           /\ R'[r] = Written(r) /\ \A q \in Register \ {r} : R'[q] = R[q]
           /\ IF EndsAt THEN Advance ELSE GoesOn(op.got)
           /\ saved' = IF At({"restore"}, 5) THEN [saved EXCEPT ![op.bank] = Blank] ELSE saved
<1>1. /\ Types /\ op.got \in [Register -> Value] /\ Reached(op.bank) = 1
      /\ R \in [Register -> Value] /\ reg \in [Bank -> [Register -> Value]]
  BY Shapes DEF IInv, Types
<1>2. /\ op # NoCall /\ Transfer = Write(r) /\ Continue(op.got)
      /\ reg' = [reg EXCEPT ![1][r] = Written(r)]
      /\ saved' = IF op.call = "restore" /\ IsLast(op.got)
                  THEN [saved EXCEPT ![op.bank] = Blank] ELSE saved
  BY <1>1 DEF WriteByte
<1>3. op.call \in Calls /\ op.step \in 1 .. Len(Program[op.call])
  BY <1>1, <1>2, Continues
<1>4. WritesAt(r) /\ op.step \in Nat
  BY <1>2, <1>3, WhatSteps
<1>5. IsLast(op.got) <=> EndsAt
  <2>1. op.step = Len(Program[op.call]) <=> EndsAt
    BY <1>3, WhatSteps
  <2>2. op.call = "start" => EndsAt
    BY <1>4 DEF WritesAt, EndsAt, At, Register
  <2> QED BY <2>1, <2>2 DEF IsLast
<1>6. R'[r] = Written(r) /\ \A q \in Register \ {r} : R'[q] = R[q]
  BY <1>1, <1>2, Idle DEF R
<1>7. IF EndsAt THEN Advance ELSE GoesOn(op.got)
  BY <1>1, <1>2, <1>5, Continues
<1>8. saved' = IF At({"restore"}, 5) THEN [saved EXCEPT ![op.bank] = Blank] ELSE saved
  <2>1. op.call = "restore" => (EndsAt <=> At({"restore"}, 5))
    BY DEF EndsAt, At
  <2> QED BY <1>2, <1>5, <2>1 DEF At
<1> QED BY <1>3, <1>4, <1>6, <1>7, <1>8

(* A write that is not the last of its call.                               *)
LEMMA WriteOnKeeps ==
    ASSUME IInv, Types', FirstBankOnly', NEW r \in Register, WriteByte(r), ~EndsAt,
           op.call # "restore"
    PROVE  IInv'
<1>1. /\ op.call \in Calls /\ op.step \in Nat /\ WritesAt(r)
      /\ R'[r] = Written(r) /\ \A q \in Register \ {r} : R'[q] = R[q]
      /\ GoesOn(op.got) /\ saved' = saved
  BY WriteDoes DEF At
<1>2. /\ op'.call = op.call /\ op'.pins = op.pins /\ op'.level = op.level
      /\ op'.high = op.high /\ op'.step = op.step + 1 /\ op'.got = op.got
      /\ power' = power /\ A' = A
  BY <1>1 DEF GoesOn, A
<1>3. \/ op.call = "query" /\ r = "Status"
      \/ op.call = "reconfigure" /\ op.step = 3 /\ r = "Status"
      \/ op.call = "reconfigure" /\ op.step = 4 /\ r = "Mode"
      \/ op.call = "enable" /\ op.step = 4 /\ r = "Mode"
      \/ op.call = "enable" /\ op.step = 5 /\ r = "Polarity"
      \/ op.call = "enable" /\ op.step = 6 /\ r = "Status"
  BY <1>1 DEF WritesAt, EndsAt, At, Register
<1>4. power = "on"
  BY <1>3 DEF IInv, CallFollowsPower
<1>5. CallFollowsPower' /\ WhileOff' /\ Saving' /\ WhileSaved'
  BY <1>2, <1>3, <1>4 DEF IInv, CallFollowsPower, WhileOff, Saving, WhileSaved
<1>6. ReadIsFresh'
  BY <1>1, <1>2, <1>3 DEF IInv, ReadIsFresh, Fresh, Register
<1>7. ASSUME r = "Mode" PROVE R'["Mode"] = Put(R["Mode"], op.pins, op.level)
  <2>1. op.got["Mode"] = R["Mode"]
    BY <1>3, <1>7 DEF IInv, ReadIsFresh, Fresh
  <2> QED BY <1>1, <1>3, <1>7, <2>1 DEF Written
<1>8. ASSUME r = "Polarity" PROVE R'["Polarity"] = Put(R["Polarity"], op.pins, op.high)
  <2>1. op.got["Polarity"] = R["Polarity"]
    BY <1>3, <1>8 DEF IInv, ReadIsFresh, Fresh
  <2> QED BY <1>1, <1>3, <1>8, <2>1 DEF Written
<1>9. WrittenSoFar'
  <2>1. op.call = "enable" => op'.pins \cap A'.known = {}
    BY <1>2 DEF IInv, WrittenSoFar
  <2>2. \/ op'.call = "enable" /\ op'.step >= 5
        \/ op'.call = "reconfigure" /\ op'.step = 5
        =>
            \A p \in op'.pins : p \in R'["Mode"] <=> op'.level
    BY <1>1, <1>2, <1>3, <1>7 DEF IInv, WrittenSoFar, Put, Register
  <2>3. op'.call = "enable" /\ op'.step >= 6 =>
            \A p \in op'.pins : p \in R'["Polarity"] <=> op'.high
    BY <1>1, <1>2, <1>3, <1>8 DEF IInv, WrittenSoFar, Put, Register
  <2> QED BY <1>2, <2>1, <2>2, <2>3 DEF WrittenSoFar
<1>10. WhileOn'
  <2>1. AsAsked(R)' /\ (A.known \subseteq A.connected)'
    BY <1>1, <1>2, <1>3, <1>4 DEF IInv, WhileOn, AsAsked, Register
  <2>2. op.call \in {"enable", "reconfigure"} => \A p \in A.known :
            op.call = "enable" => p \notin op.pins
    BY DEF IInv, WrittenSoFar
  <2>3. ASSUME NEW p \in A.known, op.call = "reconfigure" => p \notin op.pins
        PROVE  /\ p \in R'["Mode"] <=> p \in R["Mode"]
               /\ p \in R'["Polarity"] <=> p \in R["Polarity"]
    BY <1>1, <1>3, <1>7, <1>8, <2>2, <2>3 DEF Put, Register
  <2>4. Match(R, A.known \ IF op.call = "reconfigure" THEN op.pins ELSE {})
    BY <1>4 DEF IInv, WhileOn
  <2>5. Match(R, A.known \ IF op.call = "reconfigure" THEN op.pins ELSE {})'
    BY <1>2, <2>3, <2>4 DEF Match
  <2> QED BY <2>1, <2>5 DEF WhileOn
<1> QED BY <1>5, <1>6, <1>9, <1>10 DEF IInv

(* The last write of a call that only concerns one register, as the call   *)
(* asks for.                                                               *)
LEMMA SimpleWriteKeeps ==
    ASSUME IInv, Types', FirstBankOnly',
           NEW r \in {"Enable", "Direction", "Level"}, WriteByte(r), EndsAt,
           op.call \in {"disable", "mask", "unmask", "connect", "disconnect", "write"}
    PROVE  IInv'
<1>1. /\ WritesAt(r) /\ R'[r] = Written(r) /\ \A q \in Register \ {r} : R'[q] = R[q]
      /\ Advance
  BY WriteDoes DEF Register
<1>2. /\ op.step = 2
      /\ r = "Enable" <=> op.call \in {"disable", "mask", "unmask"}
      /\ r = "Direction" <=> op.call \in {"connect", "disconnect"}
      /\ r = "Level" <=> op.call = "write"
  BY <1>1 DEF WritesAt, At, EndsAt
<1>3. op.got[r] = R[r] /\ power = "on"
  BY <1>2 DEF IInv, ReadIsFresh, Fresh, CallFollowsPower
<1>4. /\ A' = Outcome(A) /\ A \in Asked /\ op.pins \in Value
      /\ Types /\ op.call \notin Looping
  BY <1>1, AskedAfter, Shapes DEF IInv, Unasked, Looping
<1>5. AsAsked(R) /\ A.known \subseteq A.connected /\ Match(R, A.known)
  BY <1>2, <1>3 DEF IInv, WhileOn
<1>6. Lowest(op.pins) \in Value
  BY <1>4 DEF Lowest, Value
<1>7. /\ Outcome(A).level = A.level /\ Outcome(A).high = A.high
      /\ Outcome(A).known \subseteq A.known
      /\ Outcome(A).known \subseteq Outcome(A).connected
  <2>1. CASE op.call \in {"disable", "unmask"}
    BY <1>4, <1>5, <2>1 DEF Outcome, Asked, Value
  <2>2. CASE op.call = "mask"
    BY <1>4, <1>5, <1>6, <2>2 DEF Outcome, Asked, Value
  <2>3. CASE op.call \in {"connect", "disconnect", "write"}
    BY <1>4, <1>5, <2>3 DEF Outcome, Asked, Value, Put
  <2> QED BY <2>1, <2>2, <2>3
<1>8. AsAsked(R)'
  <2>1. CASE r = "Enable"
    <3>1. /\ R'["Enable"] = Put(A.enabled, Subject, op.call = "unmask")
          /\ R'["Direction"] = A.input /\ R'["Level"] = A.set
      BY <1>1, <1>2, <1>3, <1>5, <2>1 DEF Written, AsAsked, Register, Put
    <3>2. A'.input = A.input /\ A'.set = A.set
      BY <1>2, <1>4, <2>1 DEF Outcome, Asked
    <3>3. A'.enabled = Put(A.enabled, Subject, op.call = "unmask")
      BY <1>2, <1>4, <2>1 DEF Outcome, Asked, Put, Subject
    <3> QED BY <3>1, <3>2, <3>3 DEF AsAsked
  <2>2. CASE r # "Enable"
    BY <1>1, <1>2, <1>3, <1>4, <1>5, <2>2 DEF Written, AsAsked, Outcome, Asked, Register
  <2> QED BY <2>1, <2>2
<1>9. WhileOn'
  <2>1. R'["Mode"] = R["Mode"] /\ R'["Polarity"] = R["Polarity"]
    BY <1>1, <1>2 DEF Register
  <2>2. Match(R, A.known)' /\ (A.known \subseteq A.connected)'
    BY <1>4, <1>5, <1>7, <2>1 DEF Match
  <2>3. Match(R, A.known \ IF op.call = "reconfigure" THEN op.pins ELSE {})'
    BY <2>2 DEF Match
  <2> QED BY <1>8, <2>2, <2>3 DEF WhileOn
<1>10. op'.call \in {"none", "mask"} /\ op'.step = 1 /\ power' = "on"
  <2>1. NextPin \/ TheEnd
    BY <1>1, <1>4, Ends DEF NextBank
  <2>2. PowerAfter = "on"
    BY <1>2, <1>3 DEF PowerAfter
  <2> QED BY <1>3, <2>1, <2>2, Idle DEF NextPin, TheEnd
<1> QED BY <1>9, <1>10
        DEF IInv, CallFollowsPower, ReadIsFresh, Fresh, WrittenSoFar, Saving, WhileOff,
            WhileSaved

(* Enable and reconfigure, when they are done.                             *)
LEMMA ConfigureKeeps ==
    ASSUME IInv, Types', FirstBankOnly', NEW r \in Register, WriteByte(r), EndsAt,
           op.call \in {"enable", "reconfigure"}
    PROVE  IInv'
<1>1. /\ WritesAt(r) /\ R'[r] = Written(r) /\ \A q \in Register \ {r} : R'[q] = R[q]
      /\ Advance
  BY WriteDoes
<1>2. \/ op.call = "enable" /\ op.step = 7 /\ r = "Enable"
      \/ op.call = "reconfigure" /\ op.step = 5 /\ r = "Polarity"
  BY <1>1 DEF WritesAt, At, EndsAt, Register
<1>3. power = "on" /\ op.got[r] = R[r]
  BY <1>2 DEF IInv, ReadIsFresh, Fresh, CallFollowsPower
<1>4. /\ A' = Outcome(A) /\ A \in Asked /\ op.pins \in Value
      /\ op'.call = "none" /\ power' = "on"
  <2>1. Types /\ op.call \notin Unasked /\ op.call \notin Looping /\ op.call # "mask"
    BY <1>2 DEF IInv, Unasked, Looping
  <2>2. TheEnd
    BY <1>1, <2>1, Ends DEF NextBank
  <2>3. PowerAfter = "on"
    BY <1>2, <1>3 DEF PowerAfter
  <2> QED BY <1>1, <2>1, <2>2, <2>3, AskedAfter, Shapes, Idle DEF TheEnd
<1>5. AsAsked(R) /\ A.known \subseteq A.connected /\ Match(R, A.known \ op.pins)
  <2>1. op.call = "enable" => op.pins \cap A.known = {}
    BY DEF IInv, WrittenSoFar
  <2> QED BY <1>2, <1>3, <2>1 DEF IInv, WhileOn, Match
<1>6. /\ A'.connected = A.connected \cup op.pins /\ A'.known = A.known \cup op.pins
      /\ A'.level = Put(A.level, op.pins, op.level)
      /\ A'.high = Put(A.high, op.pins, op.high)
      /\ A'.input = A.input /\ A'.set = A.set
      /\ A'.enabled = IF op.call = "enable" THEN A.enabled \cup op.pins ELSE A.enabled
  <2>1. CASE op.call = "enable"
    BY <1>4, <2>1 DEF Outcome, Configured, Asked, Put, Value
  <2>2. CASE op.call = "reconfigure"
    BY <1>4, <2>2 DEF Outcome, Configured, Asked, Put, Value
  <2> QED BY <1>2, <2>1, <2>2
<1>7. /\ R'["Enable"] = A'.enabled /\ R'["Direction"] = R["Direction"]
      /\ R'["Level"] = R["Level"] /\ R'["Mode"] = R["Mode"]
      /\ \A p \in op.pins : p \in R'["Mode"] <=> op.level
      /\ \A p \in op.pins : p \in R'["Polarity"] <=> op.high
      /\ \A p \in A.known \ op.pins : p \in R'["Polarity"] <=> p \in R["Polarity"]
  <2>1. CASE op.call = "enable"
    <3>1. R'["Enable"] = R["Enable"] \cup op.pins
      BY <1>1, <1>2, <1>3, <2>1 DEF Written, Put, Subject
    <3> QED BY <1>1, <1>2, <1>5, <1>6, <2>1, <3>1 DEF IInv, WrittenSoFar, AsAsked, Register
  <2>2. CASE op.call = "reconfigure"
    <3>1. R'["Polarity"] = Put(R["Polarity"], op.pins, op.high)
      BY <1>1, <1>2, <1>3, <2>2 DEF Written
    <3> QED BY <1>1, <1>2, <1>5, <1>6, <2>2, <3>1
               DEF IInv, WrittenSoFar, AsAsked, Register, Put
  <2> QED BY <1>2, <2>1, <2>2
<1>8. WhileOn'
  <2>1. AsAsked(R)' /\ (A.known \subseteq A.connected)'
    BY <1>5, <1>6, <1>7 DEF AsAsked
  <2>2. Match(R, A.known)'
    <3> SUFFICES ASSUME NEW p \in A'.known
                 PROVE  /\ p \in R'["Mode"] <=> p \in A'.level
                        /\ p \in R'["Polarity"] <=> p \in A'.high
      BY DEF Match
    <3>1. CASE p \in op.pins
      BY <1>6, <1>7, <3>1 DEF Put
    <3>2. CASE p \notin op.pins
      BY <1>5, <1>6, <1>7, <3>2 DEF Put, Match
    <3> QED BY <3>1, <3>2
  <2> QED BY <1>4, <2>1, <2>2, Idle DEF WhileOn, Match
<1> QED BY <1>4, <1>8, RestKeeps

(* Start: what the controller had enabled is disabled.                     *)
LEMMA StartWriteKeeps ==
    ASSUME IInv, Types', FirstBankOnly', NEW r \in Register, WriteByte(r), EndsAt,
           op.call = "start"
    PROVE  IInv'
<1>1. /\ WritesAt(r) /\ R'[r] = Written(r) /\ \A q \in Register \ {r} : R'[q] = R[q]
      /\ Advance /\ saved' = saved
  BY WriteDoes DEF At
<1>2. r = "Enable" /\ Types
  BY <1>1 DEF IInv, WritesAt, At, Register
<1>3. power = "off" /\ A = Nothing /\ R["Direction"] = {} /\ R["Level"] = {}
  BY DEF IInv, WhileOff, CallFollowsPower
<1>4. A' = A
  BY <1>1, AskedAfter DEF Unasked, Looping
<1>5. R'["Enable"] = {} /\ R'["Direction"] = {} /\ R'["Level"] = {}
  BY <1>1, <1>2, <1>3 DEF Written, Register
<1>6. NextBank \/ TheEnd
  BY <1>1, <1>2, Ends
<1>7. CASE NextBank
  <2>1. op'.call = "start" /\ op'.step = 1 /\ power' = "off"
    BY <1>3, <1>7 DEF NextBank
  <2> QED BY <1>3, <1>4, <1>5, <2>1
          DEF IInv, CallFollowsPower, ReadIsFresh, Fresh, WrittenSoFar, WhileOn, WhileOff,
              Saving, WhileSaved
<1>8. CASE TheEnd
  <2>1. op'.call = "none" /\ power' = "on"
    BY <1>8, Idle DEF TheEnd, PowerAfter
  <2>2. /\ A'.known = {} /\ A'.connected = {} /\ A'.enabled = {} /\ A'.input = {}
        /\ A'.set = {}
    BY <1>3, <1>4 DEF Nothing
  <2>3. WhileOn'
    BY <1>5, <2>2 DEF WhileOn, AsAsked, Match
  <2> QED BY <2>1, <2>3, RestKeeps
<1> QED BY <1>6, <1>7, <1>8

(* A clear, whose only write is its last.                                  *)
LEMMA ClearKeeps ==
    ASSUME IInv, Types', FirstBankOnly', NEW r \in Register, WriteByte(r), EndsAt,
           op.call \in {"clear", "query"}
    PROVE  IInv'
<1>1. WritesAt(r) /\ Advance /\ \A q \in Register \ {r} : R'[q] = R[q]
  BY WriteDoes
<1>2. r = "Status" /\ op.call = "clear" /\ Types
  BY <1>1 DEF IInv, WritesAt, EndsAt, At, Register
<1>3. power = "on"
  BY <1>2 DEF IInv, CallFollowsPower
<1>4. op'.call = "none" /\ power' = "on" /\ A' = A
  <2>1. TheEnd
    BY <1>1, <1>2, Ends DEF NextBank, Looping
  <2>2. PowerAfter = "on" /\ op.call \in Unasked
    BY <1>2, <1>3 DEF PowerAfter, Unasked
  <2> QED BY <1>1, <2>1, <2>2, AskedAfter, Idle DEF TheEnd
<1>5. \A q \in Kept : R'[q] = R[q]
  BY <1>1, <1>2 DEF Register, Kept
<1>6. WhileOn'
  BY <1>2, <1>3, <1>4, <1>5 DEF IInv, WhileOn, AsAsked, Match, Kept
<1> QED BY <1>4, <1>6, RestKeeps

(* A restore writes back what was saved, and enables last; then it goes on *)
(* with the next bank, of which the same was saved.                        *)
LEMMA RestoreKeeps ==
    ASSUME IInv, Types', FirstBankOnly', NEW r \in Register, WriteByte(r),
           op.call = "restore"
    PROVE  IInv'
<1>1. /\ op.step \in Nat /\ WritesAt(r)
      /\ R'[r] = S[r] /\ \A q \in Register \ {r} : R'[q] = R[q]
      /\ IF EndsAt THEN Advance ELSE GoesOn(op.got)
      /\ saved' = IF At({"restore"}, 5) THEN [saved EXCEPT ![op.bank] = Blank] ELSE saved
  <2>1. Written(r) = S[r]
    BY DEF Written, S, Restoring
  <2> QED BY <2>1, WriteDoes
<1>2. /\ power = "saved" /\ WhileSaved /\ Restoring = op.bank /\ Types
      /\ op.bank \in Bank /\ saved \in [Bank -> [Register -> Value]]
  BY Shapes DEF IInv, CallFollowsPower, Restoring, Types
<1>3. /\ op.step = 1 => r = "Mode"
      /\ op.step = 2 => r = "Polarity"
      /\ op.step = 3 => r = "Level"
      /\ op.step = 4 => r = "Direction"
      /\ op.step = 5 => r = "Enable"
      /\ op.step \in 1 .. 5 /\ (EndsAt <=> op.step = 5)
      /\ At({"restore"}, 5) <=> op.step = 5
  BY <1>1 DEF WritesAt, EndsAt, At, Register
<1>4. CASE op.step # 5
  <2>1. /\ op'.call = op.call /\ op'.step = op.step + 1 /\ op'.bank = op.bank
        /\ power' = power /\ A' = A /\ saved' = saved
    BY <1>1, <1>3, <1>4 DEF GoesOn, A
  <2>2. S' = S /\ Restoring' = Restoring
    BY <2>1 DEF S, Restoring
  <2>3. /\ CallFollowsPower' /\ ReadIsFresh' /\ WrittenSoFar' /\ Saving' /\ WhileOff'
        /\ WhileOn'
    BY <1>2, <2>1
       DEF CallFollowsPower, ReadIsFresh, Fresh, WrittenSoFar, Saving, WhileOff, WhileOn
  <2>4. KeptAlike(R, S) => KeptAlike(R', S)
    BY <1>1 DEF Kept, KeptAlike, Register
  <2>5. R["Enable"] = {} => R'["Enable"] = {}
    BY <1>1, <1>3, <1>4 DEF Register
  <2>6. RestoredSoFar => RestoredSoFar'
    <3> SUFFICES ASSUME RestoredSoFar PROVE RestoredSoFar'
      OBVIOUS
    <3>1. /\ op.step + 1 > 1 => R'["Mode"] = S["Mode"]
          /\ op.step + 1 > 2 => R'["Polarity"] = S["Polarity"]
          /\ op.step + 1 > 3 => R'["Level"] = S["Level"]
          /\ op.step + 1 > 4 => R'["Direction"] = S["Direction"]
      BY <1>1, <1>3, <1>4 DEF RestoredSoFar, Register
    <3> QED BY <2>1, <2>2, <3>1 DEF RestoredSoFar
  <2>7. WhileSaved'
    <3>1. /\ AsAsked(S) /\ Match(S, A.known) /\ A.known \subseteq A.connected
          /\ \A b \in Bank : b > Restoring => KeptAlike(saved[b], S)
      BY <1>2 DEF WhileSaved
    <3>2. KeptAlike(R', S) \/ (R'["Enable"] = {} /\ RestoredSoFar')
      BY <1>2, <2>4, <2>5, <2>6 DEF WhileSaved
    <3>3. /\ AsAsked(S)' /\ Match(S, A.known)' /\ (A.known \subseteq A.connected)'
          /\ (\A b \in Bank : b > Restoring => KeptAlike(saved[b], S))'
      BY <2>1, <2>2, <3>1 DEF AsAsked, Match, KeptAlike
    <3>4. KeptAlike(R, S)' \/ (R'["Enable"] = {} /\ RestoredSoFar')
      BY <2>2, <3>2 DEF KeptAlike
    <3> QED BY <3>3, <3>4 DEF WhileSaved
  <2> QED BY <2>3, <2>7 DEF IInv
<1>5. CASE op.step = 5
  <2>1. A' = A /\ Advance
    BY <1>1, <1>3, <1>5, AskedAfter DEF Unasked, Looping
  <2>2. KeptAlike(R', S)
    <3>1. r = "Enable" /\ R'["Enable"] = S["Enable"]
      BY <1>1, <1>3, <1>5
    <3>2. \A q \in Kept \ {"Enable"} : R[q] = S[q]
      BY <1>2, <1>5 DEF WhileSaved, RestoredSoFar, KeptAlike, Kept
    <3> QED BY <1>1, <3>1, <3>2 DEF Kept, KeptAlike, Register
  <2>3. AsAsked(S) /\ Match(S, A.known) /\ A.known \subseteq A.connected
    BY <1>2 DEF WhileSaved
  <2>4. NextBank \/ TheEnd
    BY <1>2, <2>1, Ends
  <2>5. CASE NextBank
    <3>1. /\ op'.call = "restore" /\ op'.bank = op.bank + 1 /\ op'.step = 1
          /\ power' = "saved" /\ op.bank + 1 \in Bank
      BY <1>2, <2>5, Idle DEF NextBank, Bank
    <3>2. \A b \in Bank : b >= op.bank + 1 => saved'[b] = saved[b] /\ KeptAlike(saved[b], S)
      <4>1. \A b \in Bank : b >= op.bank + 1 => b > op.bank /\ b # op.bank
        BY <1>2, BankOrder
      <4> QED BY <1>1, <1>2, <1>3, <1>5, <4>1 DEF WhileSaved
    <3>3. S' = saved'[op.bank + 1] /\ Restoring' = op.bank + 1
      BY <3>1 DEF S, Restoring
    <3>4. op.bank + 1 >= op.bank + 1
      BY <1>2, Idle
    <3>5. KeptAlike(S', S)
      BY <3>1, <3>2, <3>3, <3>4
    <3>6. /\ AsAsked(S)' /\ Match(S, A.known)' /\ (A.known \subseteq A.connected)'
          /\ KeptAlike(R, S)'
      BY <2>1, <2>2, <2>3, <3>5 DEF AsAsked, Match, KeptAlike, Kept
    <3>7. \A b \in Bank : b > op.bank + 1 => KeptAlike(saved'[b], S')
      <4>1. \A b \in Bank : b > op.bank + 1 => b >= op.bank + 1
        BY <1>2, BankOrder
      <4> QED BY <3>2, <3>5, <4>1 DEF KeptAlike
    <3>8. WhileSaved'
      BY <3>3, <3>6, <3>7 DEF WhileSaved
    <3> QED BY <3>1, <3>8
            DEF IInv, CallFollowsPower, ReadIsFresh, Fresh, WrittenSoFar, WhileOn, WhileOff,
                Saving
  <2>6. CASE TheEnd
    <3>1. op'.call = "none" /\ power' = "on"
      BY <2>6, Idle DEF TheEnd, PowerAfter
    <3>2. WhileOn'
      <4>1. AsAsked(R)' /\ Match(R, A.known)' /\ (A.known \subseteq A.connected)'
        BY <2>1, <2>2, <2>3 DEF AsAsked, Match, KeptAlike, Kept
      <4> QED BY <3>1, <4>1 DEF WhileOn, Match
    <3> QED BY <3>1, <3>2, RestKeeps
  <2> QED BY <2>4, <2>5, <2>6
<1> QED BY <1>4, <1>5

-----------------------------------------------------------------------------
(* A transfer that fails leaves the registers alone; only a pin that was   *)
(* being reconfigured is no longer known.                                  *)
LEMMA FailKeeps ==
    ASSUME IInv, Types', FirstBankOnly', TransferFails
    PROVE  IInv'
<1>1. /\ op'.call = "none" /\ R' = R /\ op # NoCall
      /\ power' = IF op.call \in {"start", "save", "restore"} THEN "failed" ELSE power
  BY Idle DEF TransferFails, Failed, R
<1>2. /\ op.call # "none" /\ op.bank \in Bank /\ A \in Asked
      /\ op.pins \in Value /\ asked \in [Bank -> Asked]
  BY <1>1, Shapes DEF IInv, Types
<1>3. power' \in {"on", "failed"} /\ (power' = "on" => power = "on")
  BY <1>1, <1>2 DEF IInv, CallFollowsPower, Types
<1>4. A' = IF op.call = "reconfigure" THEN [A EXCEPT !.known = A.known \ op.pins] ELSE A
  <2>1. asked' = [asked EXCEPT ![op.bank].known = IF op.call = "reconfigure"
                                                  THEN asked[op.bank].known \ op.pins
                                                  ELSE asked[op.bank].known]
    BY DEF TransferFails, Failed
  <2>2. CASE op.call = "reconfigure"
    <3>1. op.bank = 1
      BY <2>2 DEF IInv, FirstBankOnly, Looping
    <3> QED BY <1>2, <2>1, <2>2, <3>1 DEF A
  <2>3. CASE op.call # "reconfigure"
    <3>1. asked' = [asked EXCEPT ![op.bank] = [asked[op.bank] EXCEPT
                                                  !.known = asked[op.bank].known]]
      BY <2>1, <2>3
    <3>2. [asked[op.bank] EXCEPT !.known = asked[op.bank].known] = asked[op.bank]
      BY <1>2 DEF Asked
    <3> QED BY <1>2, <2>3, <3>1, <3>2 DEF A
  <2> QED BY <2>2, <2>3
<1>5. /\ A'.connected = A.connected /\ A'.level = A.level /\ A'.high = A.high
      /\ A'.enabled = A.enabled /\ A'.input = A.input /\ A'.set = A.set
      /\ A'.known = A.known \ IF op.call = "reconfigure" THEN op.pins ELSE {}
  BY <1>2, <1>4 DEF Asked, Value
<1>6. WhileOn'
  BY <1>1, <1>3, <1>5 DEF IInv, WhileOn, AsAsked, Match
<1> QED BY <1>1, <1>3, <1>6, RestKeeps

(* Without power the registers are cleared; what was saved is not.         *)
LEMMA PowerLossKeeps ==
    ASSUME IInv, Types', FirstBankOnly', PowerLoss
    PROVE  IInv'
<1>1. /\ op.call = "none" /\ op' = op /\ power = "saved" /\ power' = power
      /\ saved' = saved /\ A' = A /\ reg' = [b \in Bank |-> Blank]
  BY Idle DEF PowerLoss, A
<1>2. R'["Enable"] = {}
  BY <1>1, Idle DEF R, Blank, Register
<1>3. CallFollowsPower' /\ ReadIsFresh' /\ WrittenSoFar' /\ Saving' /\ WhileOff' /\ WhileOn'
  BY <1>1 DEF CallFollowsPower, ReadIsFresh, Fresh, WrittenSoFar, Saving, WhileOff, WhileOn
<1>4. WhileSaved'
  <2>1. S' = S /\ Restoring' = Restoring
    BY <1>1 DEF S, Restoring
  <2> QED BY <1>1, <1>2, <2>1 DEF IInv, WhileSaved, AsAsked, Match, KeptAlike
<1> QED BY <1>3, <1>4 DEF IInv

-----------------------------------------------------------------------------
LEMMA InvInit == Init => IInv
<1> SUFFICES ASSUME Init PROVE IInv
  OBVIOUS
<1>1. PICK left \in Value : reg = [b \in Bank |-> [Blank EXCEPT !.Enable = left]]
  BY DEF Init
<1>2. /\ power = "off" /\ op.call = "none" /\ op.bank = 1
      /\ asked = [b \in Bank |-> Nothing]
  BY Idle DEF Init
<1>3. WhileOff
  BY <1>1, <1>2, Idle DEF WhileOff, A, R, Blank, Register
<1>4. /\ CallFollowsPower /\ ReadIsFresh /\ WrittenSoFar /\ WhileOn /\ Saving /\ WhileSaved
      /\ FirstBankOnly
  BY <1>2 DEF CallFollowsPower, ReadIsFresh, Fresh, WrittenSoFar, WhileOn, Saving,
              WhileSaved, FirstBankOnly
<1> QED BY <1>3, <1>4, TypesInit DEF IInv

LEMMA InvStep == IInv /\ Types' /\ FirstBankOnly' /\ [Next]_vars => IInv'
<1> SUFFICES ASSUME IInv, Types', FirstBankOnly', [Next]_vars PROVE IInv'
  OBVIOUS
<1>1. ASSUME NEW r \in Register, ReadByte(r) PROVE IInv'
  BY <1>1, ReadOnKeeps, ReadLastKeeps
<1>2. ASSUME NEW r \in Register, WriteByte(r) PROVE IInv'
  <2>1. op.call \in Calls /\ WritesAt(r)
    BY <1>2, WriteDoes
  <2>2. CASE op.call = "restore"
    BY <1>2, <2>2, RestoreKeeps
  <2>3. CASE ~EndsAt /\ op.call # "restore"
    BY <1>2, <2>3, WriteOnKeeps
  <2>4. CASE /\ EndsAt
             /\ op.call \in {"disable", "mask", "unmask", "connect", "disconnect", "write"}
    <3>1. r \in {"Enable", "Direction", "Level"}
      BY <2>1, <2>4 DEF WritesAt, At, Register
    <3> QED BY <1>2, <2>4, <3>1, SimpleWriteKeeps
  <2>5. CASE EndsAt /\ op.call \in {"enable", "reconfigure"}
    BY <1>2, <2>5, ConfigureKeeps
  <2>6. CASE EndsAt /\ op.call \in {"start", "clear", "query"}
    BY <1>2, <2>6, StartWriteKeeps, ClearKeeps
  <2>7. op.call \notin {"enabled", "read", "save"}
    BY <2>1 DEF WritesAt, At, Register
  <2> QED BY <2>1, <2>2, <2>3, <2>4, <2>5, <2>6, <2>7 DEF Calls
<1>3. CASE UNCHANGED vars
  <2>1. /\ R' = R /\ A' = A /\ S' = S /\ Restoring' = Restoring
        /\ UNCHANGED <<reg, saved, power, op, asked>>
    BY <1>3 DEF vars, R, A, S, Restoring
  <2>2. ReadIsFresh' /\ WrittenSoFar' /\ CallFollowsPower' /\ Saving'
    BY <2>1 DEF IInv, CallFollowsPower, ReadIsFresh, Fresh, WrittenSoFar, Saving, KeptAlike
  <2>3. WhileOn' /\ WhileOff' /\ WhileSaved'
    BY <2>1 DEF IInv, WhileOn, WhileOff, WhileSaved, AsAsked, Match, KeptAlike,
                RestoredSoFar
  <2> QED BY <2>2, <2>3 DEF IInv
<1> QED BY <1>1, <1>2, <1>3, CallKeeps, FailKeeps, PowerLossKeeps DEF Next, GpioClxCalls

(* What the theorems say of the first bank.                                *)
FirstBankConfigured ==
    power \in {"on", "saved"} => Match(R, (R["Enable"] \cap A.known) \ BeingReconfigured(1))

FirstBankAsAsked == power = "on" => AsAsked(R)

LEMMA EnabledAsKnown == IInv => FirstBankConfigured
<1> SUFFICES ASSUME IInv, power \in {"on", "saved"},
                    NEW p \in (R["Enable"] \cap A.known) \ BeingReconfigured(1)
             PROVE  /\ p \in R["Mode"] <=> p \in A.level
                    /\ p \in R["Polarity"] <=> p \in A.high
  BY DEF FirstBankConfigured, Match
<1>1. CASE power = "on"
  <2>1. op.call = "reconfigure" => op.bank = 1
    BY DEF IInv, FirstBankOnly, Looping
  <2> QED BY <1>1, <2>1 DEF IInv, WhileOn, Match, BeingReconfigured
<1>2. CASE power = "saved"
  BY <1>2 DEF IInv, WhileSaved, Match, Kept, KeptAlike
<1> QED BY <1>1, <1>2

LEMMA TypesAlways == Spec => []Types
BY TypesInit, TypesStep, PTL DEF Spec

LEMMA Invariant == Spec /\ []FirstBankOnly => []IInv
BY TypesAlways, InvInit, InvStep, PTL DEF Spec

(* Nobody asks anything of the other banks, and their registers are never  *)
(* reached: all they do is lose what they hold with the power.             *)
OthersUnasked == \A b \in Bank \ {1} : asked[b] = Nothing

OthersBlank == \A b \in Bank \ {1} : reg[b] = Blank

LEMMA OthersUnaskedStep == IInv /\ OthersUnasked /\ [Next]_vars => OthersUnasked'
<1> SUFFICES ASSUME IInv, OthersUnasked, [Next]_vars PROVE OthersUnasked'
  OBVIOUS
<1>1. Types /\ asked \in [Bank -> Asked] /\ op.bank \in Bank
  BY Shapes DEF IInv, Types
<1>2. ASSUME NEW got \in [Register -> Value], op # NoCall, Continue(got)
      PROVE  OthersUnasked'
  <2>1. IF IsLast(got) THEN Advance ELSE asked' = asked
    BY <1>1, <1>2, Continues DEF GoesOn
  <2>2. CASE Advance
    <3>1. CASE op.call \in Unasked
      BY <2>2, <3>1, AskedAfter DEF OthersUnasked
    <3>2. CASE op.call \notin Unasked
      <4>1. op.bank = 1 /\ asked' = [asked EXCEPT ![1] = Outcome(A)]
        BY <1>1, <2>2, <3>2, AskedAfter, Ends DEF A
      <4> QED BY <1>1, <4>1 DEF OthersUnasked
    <3> QED BY <3>1, <3>2
  <2>3. CASE asked' = asked
    BY <2>3 DEF OthersUnasked
  <2> QED BY <2>1, <2>2, <2>3
<1>3. ASSUME NEW r \in Register, ReadByte(r) \/ WriteByte(r) PROVE OthersUnasked'
  <2>1. op.got \in [Register -> Value] /\ reg[Reached(op.bank)][r] \in Value
    BY <1>1, Shapes, Idle DEF Types, R
  <2>2. CASE ReadByte(r)
    BY <1>2, <2>1, <2>2 DEF ReadByte
  <2>3. CASE WriteByte(r)
    BY <1>2, <2>1, <2>3 DEF WriteByte
  <2> QED BY <1>3, <2>2, <2>3
<1>4. CASE TransferFails
  <2>1. CASE op.call = "reconfigure"
    <3>1. op.bank = 1
      BY <2>1 DEF IInv, FirstBankOnly, Looping
    <3> QED BY <1>1, <1>4, <3>1 DEF TransferFails, Failed, OthersUnasked
  <2>2. CASE op.call # "reconfigure"
    <3> SUFFICES ASSUME NEW b \in Bank \ {1} PROVE asked'[b] = Nothing
      BY DEF OthersUnasked
    <3>1. asked[b] \in Asked /\ asked[b] = Nothing
      BY <1>1 DEF OthersUnasked
    <3>2. asked'[b] = IF b = op.bank THEN [asked[b] EXCEPT !.known = asked[b].known] ELSE asked[b]
      BY <1>1, <1>4, <2>2 DEF TransferFails, Failed
    <3>3. [Nothing EXCEPT !.known = Nothing.known] = Nothing
      BY DEF Nothing
    <3> QED BY <3>1, <3>2, <3>3
  <2> QED BY <2>1, <2>2
<1>5. CASE GpioClxCalls
  BY <1>1, <1>5, CallMade, CallBegins DEF Called, OthersUnasked
<1>6. CASE PowerLoss \/ UNCHANGED vars
  BY <1>6 DEF PowerLoss, vars, OthersUnasked
<1> QED BY <1>3, <1>4, <1>5, <1>6 DEF Next, GpioClxCalls

LEMMA OthersBlankStep == Types /\ OthersBlank /\ [Next]_vars => OthersBlank'
<1> SUFFICES ASSUME Types, OthersBlank, [Next]_vars PROVE OthersBlank'
  OBVIOUS
<1>1. CASE UNCHANGED reg
  BY <1>1 DEF OthersBlank
<1>2. ASSUME NEW r \in Register, WriteByte(r) PROVE OthersBlank'
  <2>1. reg' = [reg EXCEPT ![1][r] = Written(r)]
    BY <1>2 DEF WriteByte, Reached
  <2> QED BY <2>1 DEF Types, OthersBlank
<1>3. CASE PowerLoss
  BY <1>3 DEF PowerLoss, OthersBlank
<1>4. CASE GpioClxCalls
  BY <1>4, CallMade, CallBegins DEF Called, OthersBlank
<1>5. ASSUME NEW r \in Register, ReadByte(r) PROVE UNCHANGED reg
  BY <1>5 DEF ReadByte
<1>6. TransferFails \/ UNCHANGED vars => UNCHANGED reg
  BY DEF TransferFails, vars
<1> QED BY <1>1, <1>2, <1>3, <1>4, <1>5, <1>6 DEF Next, GpioClxCalls

LEMMA OthersAlways == Spec /\ []FirstBankOnly => []OthersUnasked
<1>1. Init => OthersUnasked
  BY DEF Init, OthersUnasked
<1> QED BY <1>1, Invariant, OthersUnaskedStep, PTL DEF Spec

-----------------------------------------------------------------------------
(* A controller keeps its types, whatever the banks that are used: in      *)
(* particular a call never goes past its last transfer or the last bank.   *)
THEOREM TypeCorrect == Spec => []TypeOK
<1>1. Types => TypeOK
  BY CallsAre DEF Types, OpType, TypeOK
<1> QED BY <1>1, TypesAlways, PTL

(* On a controller of any number of banks of which nobody uses the pins of *)
(* another than the first, no interrupt is enabled with another mode or    *)
(* polarity than it was connected with, whichever transfer of whichever    *)
(* call fails: SimGpioEnableInterrupt enables after it has configured, a   *)
(* failed reconfiguration is reported, and SimGpioStartController restores *)
(* Enable last, in its loop over the banks.                                *)
THEOREM OnlyConfiguredAreEnabled == Spec /\ []FirstBankOnly => []EnabledIsConfigured
<1>1. IInv /\ OthersUnasked => EnabledIsConfigured
  <2> SUFFICES ASSUME IInv, OthersUnasked, power \in {"on", "saved"}, NEW b \in Bank,
                      NEW p \in (reg[b]["Enable"] \cap asked[b].known)
                                   \ BeingReconfigured(b)
               PROVE  /\ p \in reg[b]["Mode"] <=> p \in asked[b].level
                      /\ p \in reg[b]["Polarity"] <=> p \in asked[b].high
    BY DEF EnabledIsConfigured
  <2>1. CASE b = 1
    BY <2>1, EnabledAsKnown DEF FirstBankConfigured, Match, R, A
  <2>2. CASE b # 1
    BY <2>2 DEF OthersUnasked, Nothing
  <2> QED BY <2>1, <2>2
<1> QED BY <1>1, Invariant, OthersAlways, PTL

(* On the same controller, when the other banks have nothing enabled as it *)
(* comes up, the registers of every bank say between the calls what the    *)
(* calls that succeeded have asked for, also after any number of stops with*)
(* a loss of power, and after a mask call that failed halfway through its  *)
(* pins.  What another bank has enabled stays: SimGpioStartController looks*)
(* at the first bank's register for it, as gpio_banks shows.               *)
THEOREM ControllerFollowsCalls ==
    Spec /\ OthersBlank /\ []FirstBankOnly => []ControllerAsAsked
<1>1. IInv /\ OthersUnasked /\ OthersBlank => ControllerAsAsked
  <2> SUFFICES ASSUME IInv, OthersUnasked, OthersBlank, power = "on", NEW b \in Bank
               PROVE  /\ reg[b]["Enable"] = asked[b].enabled
                      /\ reg[b]["Direction"] = asked[b].input
                      /\ reg[b]["Level"] = asked[b].set
    BY DEF ControllerAsAsked
  <2>1. CASE b = 1
    BY <2>1 DEF IInv, WhileOn, AsAsked, R, A
  <2>2. CASE b # 1
    BY <2>2 DEF OthersUnasked, OthersBlank, Nothing, Blank, Register
  <2> QED BY <2>1, <2>2
<1> QED BY <1>1, Invariant, TypesAlways, OthersAlways, OthersBlankStep, PTL DEF Spec

(* What the first bank has, whatever the others come up with, in the middle*)
(* of a call too: the loops of the start and of the stop save the first    *)
(* bank's registers once for every bank, and restore them as often, and    *)
(* that does no harm, whichever of these transfers fails.                  *)
THEOREM FirstBankServes ==
    Spec /\ []FirstBankOnly => [](FirstBankConfigured /\ FirstBankAsAsked)
<1>1. IInv => FirstBankConfigured /\ FirstBankAsAsked
  BY EnabledAsKnown DEF IInv, WhileOn, FirstBankAsAsked
<1> QED BY <1>1, Invariant, PTL

=============================================================================
