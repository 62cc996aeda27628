------------------------------ MODULE SimGpio ------------------------------
(***************************************************************************)
(* simgpio_i2c: a GPIO controller driver whose registers are behind an I2C *)
(* bus.  GpioClx calls it back, one call at a time; every register access  *)
(* of a call is a transfer that may fail and then ends the call.  Bits are *)
(* set and cleared by reading a register and writing it back.              *)
(*                                                                         *)
(* A call is a program of transfers (Program); one step is one transfer.   *)
(***************************************************************************)
EXTENDS Integers, Sequences, FiniteSets

CONSTANTS
    NumBanks,
    PinsPerBank,
    IoPins        \* the pins connected for I/O; the others are interrupts

ASSUME NumBanksAssumption == NumBanks \in Nat \ {0}
ASSUME PinsPerBankAssumption == PinsPerBank \in Nat \ {0}

ASSUME IoPinsAssumption == IoPins \subseteq 0 .. PinsPerBank - 1

Bank == 1 .. NumBanks
Pin == 0 .. PinsPerBank - 1

Register == {"Mode", "Polarity", "Enable", "Status", "Direction", "Level"}

(* A register's value: the pins whose bit is set (level sensitive, active  *)
(* high, enabled, asserted, input, high).                                  *)
Value == SUBSET Pin

VARIABLES
    reg,     \* [Bank -> [Register -> Value]]: the controller's registers
    saved,   \* [Bank -> [Register -> Value]]: SavedRegisterContext
    power,   \* "off" before the start, "on", "saved" after the stop, "failed"
    op,      \* the call under way
    asked    \* [Bank -> what the calls that succeeded have asked for]

vars == <<reg, saved, power, op, asked>>

Blank == [r \in Register |-> {}]

(* connected: the pins in use as interrupts; known: those of them whose    *)
(* configuration, in level and high, is certain; enabled: those not masked;*)
(* input: the pins connected for input; set: those written high.           *)
Asked == [connected : Value, known : Value, level : Value, high : Value, enabled : Value, input : Value, set : Value]

Nothing == [connected |-> {}, known |-> {}, level |-> {}, high |-> {}, enabled |-> {}, input |-> {}, set |-> {}]

(* pins: the argument, of which a mask call has these still to do; got:    *)
(* what the call has read; step: its next transfer.                        *)
NoCall == [call |-> "none", bank |-> 1, pins |-> {}, level |-> FALSE, high |-> FALSE,
           step |-> 1, got |-> Blank]

Init ==
    /\ \E left \in Value : reg = [b \in Bank |-> [Blank EXCEPT !.Enable = left]]
    /\ saved = [b \in Bank |-> Blank]
    /\ power = "off"
    /\ op = NoCall
    /\ asked = [b \in Bank |-> Nothing]

-----------------------------------------------------------------------------
Read(r) == [write |-> FALSE, register |-> r]
Write(r) == [write |-> TRUE, register |-> r]

ReadModifyWrite(r) == <<Read(r), Write(r)>>

EnableProgram == <<Read("Mode"), Read("Polarity"), Read("Enable"),
                   Write("Mode"), Write("Polarity"), Write("Status"), Write("Enable")>>

ReconfigureProgram == <<Read("Mode"), Read("Polarity"),
                        Write("Status"), Write("Mode"), Write("Polarity")>>

SaveProgram == <<Read("Mode"), Read("Polarity"), Read("Enable"), Read("Direction"), Read("Level")>>

(* Faulty variant: the polarity is taken for status and left out.          *)
RestoreShort == <<Write("Mode"), Write("Level"), Write("Direction"), Write("Enable")>>

RestoreProgram == <<Write("Mode"), Write("Polarity"), Write("Level"),
                    Write("Direction"), Write("Enable")>>

Program ==
    [start |-> ReadModifyWrite("Enable"),
     enable |-> EnableProgram,
     disable |-> ReadModifyWrite("Enable"),
     mask |-> ReadModifyWrite("Enable"),
     unmask |-> ReadModifyWrite("Enable"),
     query |-> <<Read("Enable"), Write("Status"), Read("Status")>>,
     enabled |-> <<Read("Enable")>>,
     clear |-> <<Write("Status")>>,
     reconfigure |-> ReconfigureProgram,
     connect |-> ReadModifyWrite("Direction"),
     disconnect |-> ReadModifyWrite("Direction"),
     read |-> <<Read("Level")>>,
     write |-> ReadModifyWrite("Level"),
     save |-> SaveProgram,
     restore |-> RestoreProgram]

Transfer == Program[op.call][op.step]

(* A mask call disables its pins one by one, the least first.              *)
Lowest(pins) == {p \in pins : \A q \in pins : p <= q}

Subject == IF op.call = "mask" THEN Lowest(op.pins) ELSE op.pins

Put(value, pins, yes) == IF yes THEN value \cup pins ELSE value \ pins

(* SimGpioSpbReadByte and SimGpioSpbWriteByte add the bank's AddressBase to*)
(* the register's address, and transfer with the address they started from:*)
(* that of the first bank.                                                 *)
Reached(b) == 1

(* The value of register r when the call has written it.  "high" is the    *)
(* pin's new bit in Direction and Level, too; what is written to Status    *)
(* are the bits to clear.                                                  *)
Written(r) ==
    IF op.call = "restore" THEN saved[op.bank][r]
    ELSE [Mode |-> Put(op.got["Mode"], op.pins, op.level),
          Polarity |-> Put(op.got["Polarity"], op.pins, op.high),
          Enable |-> IF op.call = "start" THEN {}
                     ELSE Put(op.got["Enable"], Subject, op.call \in {"enable", "unmask"}),
          Status |-> reg[Reached(op.bank)]["Status"] \
                        (IF op.call = "query" THEN op.got["Enable"] ELSE op.pins),
          Direction |-> Put(op.got["Direction"], op.pins, op.high),
          Level |-> Put(op.got["Level"], op.pins, op.high)][r]

-----------------------------------------------------------------------------
(* The calls of GpioClx.                                                   *)

Call(name, b, pins, level, high) ==
    /\ op = NoCall
    /\ op' = [NoCall EXCEPT !.call = name, !.bank = b, !.pins = pins,
                            !.level = level, !.high = high]
    /\ UNCHANGED <<reg, saved, power, asked>>

Start == power = "off" /\ Call("start", 1, {}, FALSE, FALSE)

Stop == power = "on" /\ Call("save", 1, {}, FALSE, FALSE)

Resume == power = "saved" /\ Call("restore", 1, {}, FALSE, FALSE)

(* The controller may lose its registers between the stop and the start.   *)
PowerLoss ==
    /\ power = "saved" /\ op = NoCall
    /\ reg' = [b \in Bank |-> Blank]
    /\ UNCHANGED <<saved, power, op, asked>>

EnableInterrupt(b, p) ==
    /\ power = "on" /\ p \notin asked[b].connected
    /\ \E level, high \in BOOLEAN : Call("enable", b, {p}, level, high)

ReconfigureInterrupt(b, p) ==
    /\ power = "on" /\ p \in asked[b].connected
    /\ \E level, high \in BOOLEAN : Call("reconfigure", b, {p}, level, high)

DisableInterrupt(b, p) ==
    power = "on" /\ p \in asked[b].connected /\ Call("disable", b, {p}, FALSE, FALSE)

UnmaskInterrupt(b, p) ==
    power = "on" /\ p \in asked[b].known /\ Call("unmask", b, {p}, FALSE, FALSE)

MaskInterrupts(b) ==
    /\ power = "on"
    /\ \E pins \in SUBSET asked[b].enabled \ {{}} : Call("mask", b, pins, FALSE, FALSE)

ClearActiveInterrupts(b) ==
    /\ power = "on"
    /\ \E pins \in SUBSET asked[b].enabled \ {{}} : Call("clear", b, pins, FALSE, FALSE)

QueryActiveInterrupts(b) == power = "on" /\ Call("query", b, {}, FALSE, FALSE)

QueryEnabledInterrupts(b) == power = "on" /\ Call("enabled", b, {}, FALSE, FALSE)

ConnectIoPins(b) ==
    /\ power = "on"
    /\ \E pins \in SUBSET IoPins \ {{}}, input \in BOOLEAN : Call("connect", b, pins, FALSE, input)

DisconnectIoPins(b) ==
    /\ power = "on"
    /\ \E pins \in SUBSET IoPins \ {{}} : Call("disconnect", b, pins, FALSE, FALSE)

ReadGpioPins(b) == power = "on" /\ Call("read", b, {}, FALSE, FALSE)

WriteGpioPins(b) ==
    /\ power = "on"
    /\ \E pins \in SUBSET IoPins \ {{}}, high \in BOOLEAN : Call("write", b, pins, FALSE, high)

-----------------------------------------------------------------------------
(* The outcome of a call, for GpioClx.                                     *)

(* Faulty variant: every pin of a mask call counts as masked when it fails.*)
FailedAllMasked ==
    /\ op' = NoCall
    /\ power' = IF op.call \in {"start", "save", "restore"} THEN "failed" ELSE power
    /\ asked' = [asked EXCEPT ![op.bank].enabled = IF op.call = "mask" THEN @ \ op.pins ELSE @,
                              ![op.bank].known = IF op.call = "reconfigure" THEN @ \ op.pins ELSE @]

(* FailedMask is what a mask call has left; a pin whose reconfiguration    *)
(* failed has no known configuration.                                      *)
Failed ==
    /\ op' = NoCall
    /\ power' = IF op.call \in {"start", "save", "restore"} THEN "failed" ELSE power
    /\ asked' = [asked EXCEPT ![op.bank].known =
                    IF op.call = "reconfigure" THEN @ \ op.pins ELSE @]

Configured(a) == [a EXCEPT !.connected = @ \cup op.pins, !.known = @ \cup op.pins,
                           !.level = Put(@, op.pins, op.level),
                           !.high = Put(@, op.pins, op.high)]

Outcome(a) ==
    IF op.call = "enable" THEN [Configured(a) EXCEPT !.enabled = @ \cup op.pins]
    ELSE IF op.call = "reconfigure" THEN Configured(a)
    ELSE IF op.call = "disable" THEN [a EXCEPT !.connected = @ \ op.pins, !.known = @ \ op.pins, !.enabled = @ \ op.pins]
    ELSE IF op.call = "mask" THEN [a EXCEPT !.enabled = @ \ Lowest(op.pins)]
    ELSE IF op.call = "unmask" THEN [a EXCEPT !.enabled = @ \cup op.pins]
    ELSE IF op.call \in {"connect", "disconnect"} THEN [a EXCEPT !.input = Put(@, op.pins, op.high)]
    ELSE IF op.call = "write" THEN [a EXCEPT !.set = Put(@, op.pins, op.high)]
    ELSE a

PowerAfter ==
    IF op.call = "save" THEN "saved"
    ELSE IF op.call \in {"start", "restore"} THEN "on" ELSE power

(* The transfer was the last for this bank or this pin: the loops over the *)
(* banks and over the pins of a mask go on.                                *)
Advance ==
    /\ asked' = [asked EXCEPT ![op.bank] = Outcome(@)]
    /\ IF op.call \in {"start", "save", "restore"} /\ op.bank < NumBanks
       THEN op' = [NoCall EXCEPT !.call = op.call, !.bank = op.bank + 1] /\ UNCHANGED power
       ELSE IF op.call = "mask" /\ op.pins # Lowest(op.pins)
            THEN op' = [op EXCEPT !.pins = @ \ Lowest(op.pins), !.step = 1] /\ UNCHANGED power
            ELSE op' = NoCall /\ power' = PowerAfter

-----------------------------------------------------------------------------
(* A transfer that succeeds.  A start leaves a bank alone where nothing is *)
(* enabled.                                                                *)

IsLast(got) ==
    \/ op.step = Len(Program[op.call])
    \/ op.call = "start" /\ got["Enable"] = {}

Continue(got) ==
    IF IsLast(got) THEN Advance
    ELSE op' = [op EXCEPT !.step = @ + 1, !.got = got] /\ UNCHANGED <<power, asked>>

ReadByte(r) ==
    LET value == reg[Reached(op.bank)][r]
    IN /\ op # NoCall
       /\ Transfer = Read(r)
       /\ saved' = IF op.call = "save" THEN [saved EXCEPT ![op.bank][r] = value] ELSE saved
       /\ Continue([op.got EXCEPT ![r] = value])
       /\ UNCHANGED reg

(* SavedRegisterContext is forgotten here once it is restored: it is saved *)
(* again before anything reads it.                                         *)
WriteByte(r) ==
    /\ op # NoCall
    /\ Transfer = Write(r)
    /\ reg' = [reg EXCEPT ![Reached(op.bank)][r] = Written(r)]
    /\ saved' = IF op.call = "restore" /\ IsLast(op.got)
                THEN [saved EXCEPT ![op.bank] = Blank] ELSE saved
    /\ Continue(op.got)

(* The bus reports an error, and nothing has been transferred.             *)
TransferFails ==
    /\ op # NoCall
    /\ Failed
    /\ UNCHANGED <<reg, saved>>

Next ==
    \/ Start \/ Stop \/ Resume \/ PowerLoss
    \/ \E b \in Bank, p \in Pin \ IoPins :
          \/ EnableInterrupt(b, p) \/ DisableInterrupt(b, p)
          \/ UnmaskInterrupt(b, p) \/ ReconfigureInterrupt(b, p)
    \/ \E b \in Bank :
          \/ MaskInterrupts(b) \/ ClearActiveInterrupts(b)
          \/ QueryActiveInterrupts(b) \/ QueryEnabledInterrupts(b)
          \/ ConnectIoPins(b) \/ DisconnectIoPins(b) \/ ReadGpioPins(b) \/ WriteGpioPins(b)
    \/ \E r \in Register : ReadByte(r) \/ WriteByte(r)
    \/ TransferFails

Spec == Init /\ [][Next]_vars

-----------------------------------------------------------------------------
TypeOK ==
    /\ reg \in [Bank -> [Register -> Value]]
    /\ saved \in [Bank -> [Register -> Value]]
    /\ power \in {"off", "on", "saved", "failed"}
    /\ asked \in [Bank -> Asked]
    /\ op.call \in DOMAIN Program \cup {"none"}
    /\ op.bank \in Bank /\ op.pins \in Value /\ op.got \in [Register -> Value]

(* An interrupt that is enabled in the controller has the mode and the     *)
(* polarity it was connected with, in the middle of any call and while the *)
(* registers are restored; only its own reconfiguration may break that.    *)
BeingReconfigured(b) == IF op.call = "reconfigure" /\ op.bank = b THEN op.pins ELSE {}

EnabledIsConfigured ==
    power \in {"on", "saved"} =>
        \A b \in Bank : \A p \in (reg[b]["Enable"] \cap asked[b].known) \ BeingReconfigured(b) :
            /\ p \in reg[b]["Mode"] <=> p \in asked[b].level
            /\ p \in reg[b]["Polarity"] <=> p \in asked[b].high

(* Between calls the controller has enabled what GpioClx believes: the     *)
(* calls that succeeded have worked, those that failed have not, and a mask*)
(* call that failed names the pins it has left.  So it is with the         *)
(* directions and levels, and all survive a loss of power.                 *)
ControllerAsAsked ==
    power = "on" /\ op = NoCall =>
        \A b \in Bank : /\ reg[b]["Enable"] = asked[b].enabled
                        /\ reg[b]["Direction"] = asked[b].input
                        /\ reg[b]["Level"] = asked[b].set
=============================================================================
