---------------------------- MODULE SpbTestTool ----------------------------
(***************************************************************************)
(* SpbTestTool/sys: a driver that hands what an application asks for to an *)
(* SPB controller.  A sequential queue presents one client request of a    *)
(* device at a time; for each the driver formats and sends the device's    *)
(* only SPB request, and completes the pair when that one returns.         *)
(*                                                                         *)
(* The controller is SpbStack's business: here it takes and returns.       *)
(***************************************************************************)
CONSTANT
    Device

VARIABLE
    dev    \* [Device -> what the device works on]

(* at: the step of the handler ("format" .. "send"), "sent" while the      *)
(* controller has the SPB request, and the steps of OnCompletion and       *)
(* CompleteRequestPair.  cancelled, marked and callback are the client     *)
(* request's, as the framework keeps them.  sequence: InputMemory is       *)
(* allocated and IsSpbSequenceRequest set.  late: the cancel callback of a *)
(* client request that was completed is still to run (bound: one of them). *)
Pair == [at : {"empty", "format", "mark", "send", "sent", "unmark", "pair", "answer"},
         op : {"lock", "unlock", "transfer", "sequence"},
         status : {"success", "cancelled", "invalid"},
         cancelled : BOOLEAN, marked : BOOLEAN, callback : BOOLEAN,
         sequence : BOOLEAN, late : BOOLEAN]

TypeOK == dev \in [Device -> Pair]

Init == dev = [d \in Device |-> [at |-> "empty", op |-> "transfer", status |-> "success",
                                 cancelled |-> FALSE, marked |-> FALSE, callback |-> FALSE,
                                 sequence |-> FALSE, late |-> FALSE]]

Step(d, from, to) == dev[d].at = from /\ dev' = [dev EXCEPT ![d].at = to]

-----------------------------------------------------------------------------
(* OnIoRead, OnIoWrite and OnIoDeviceControl to SpbPeripheralSendRequest.  *)

Present(d, op) ==
    /\ dev[d].at = "empty"
    /\ dev' = [dev EXCEPT ![d].at = "format", ![d].op = op, ![d].status = "success"]

Format(d) ==
    /\ dev[d].at = "format"
    /\ dev' = [dev EXCEPT ![d].at = "mark", ![d].sequence = @ \/ dev[d].op = "sequence"]

(* Buffers, memory or the target's format fail, the latter with InputMemory*)
(* allocated already.                                                      *)
FormatFails(d) ==
    \E allocated \in BOOLEAN :
        /\ dev[d].at = "format"
        /\ allocated => dev[d].op = "sequence"
        /\ dev' = [dev EXCEPT ![d].at = "pair", ![d].status = "invalid",
                              ![d].sequence = @ \/ allocated]

MarkCancelable(d) ==
    /\ dev[d].at = "mark" /\ ~dev[d].cancelled
    /\ dev' = [dev EXCEPT ![d].at = "send", ![d].marked = TRUE]

MarkFails(d) ==
    /\ dev[d].at = "mark" /\ dev[d].cancelled
    /\ dev' = [dev EXCEPT ![d].at = "pair", ![d].status = "cancelled"]

Send(d) == Step(d, "send", "sent")

(* The outcome of unmarking the client's request is not used.              *)
SendFails(d) ==
    /\ dev[d].at = "send"
    /\ dev' = [dev EXCEPT ![d].at = "pair", ![d].status = "invalid", ![d].marked = FALSE]

-----------------------------------------------------------------------------
(* SpbPeripheralOnCompletion and SpbPeripheralCompleteRequestPair.         *)

Return(d, status) ==
    /\ dev[d].at = "sent"
    /\ dev' = [dev EXCEPT ![d].at = "unmark", ![d].status = status]

(* Again the outcome is not used: the callback does not complete.          *)
Unmark(d) ==
    /\ dev[d].at = "unmark"
    /\ dev' = [dev EXCEPT ![d].at = "pair", ![d].marked = FALSE]

(* Faulty variant: IsSpbSequenceRequest and InputMemory are left as they   *)
(* are when the request has failed.                                        *)
ReuseOnlySucceeded(d) ==
    /\ dev[d].at = "pair"
    /\ dev' = [dev EXCEPT ![d].at = "answer",
                          ![d].sequence = @ /\ dev[d].status # "success"]

Reuse(d) ==
    /\ dev[d].at = "pair"
    /\ dev' = [dev EXCEPT ![d].at = "answer", ![d].sequence = FALSE]

Answer(d) ==
    /\ dev[d].at = "answer"
    /\ dev' = [dev EXCEPT ![d].at = "empty", ![d].cancelled = FALSE, ![d].callback = FALSE,
                          ![d].late = @ \/ dev[d].callback]

-----------------------------------------------------------------------------
Cancel(d) ==
    /\ dev[d].at # "empty" /\ ~dev[d].cancelled /\ ~dev[d].late
    /\ dev' = [dev EXCEPT ![d].cancelled = TRUE, ![d].marked = FALSE,
                          ![d].callback = dev[d].marked]

(* SpbPeripheralOnCancel asks the controller to cancel the SPB request,    *)
(* whatever that is sent for by now.                                       *)
OnCancel(d) ==
    /\ dev[d].callback \/ dev[d].late
    /\ dev' = [dev EXCEPT ![d].callback = FALSE, ![d].late = FALSE]

-----------------------------------------------------------------------------
(* NT_ASSERT(pDevice->InputMemory == WDF_NO_HANDLE) of WriteRead, and what *)
(* OnCompletion counts: the flag of the SPB request tells whether it is a  *)
(* sequence that is sent and returns.                                      *)
SequenceFlagMatches ==
    \A d \in Device :
        /\ dev[d].at = "format" => ~dev[d].sequence
        /\ dev[d].at \in {"send", "sent", "unmark"} => (dev[d].sequence <=> dev[d].op = "sequence")

(* "This sample driver has handled this condition appropriately": no client*)
(* request ends as cancelled that nobody cancelled.                        *)
OnlyCancelledAreCancelled ==
    \A d \in Device :
        dev[d].at = "answer" /\ dev[d].status = "cancelled" => dev[d].cancelled
=============================================================================
