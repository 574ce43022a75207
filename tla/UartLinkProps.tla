--------------------------- MODULE UartLinkProps ---------------------------
(***************************************************************************)
(* What is checked of UartLink, and that it implements Rpc.                *)
(***************************************************************************)
EXTENDS UartLink

\* Every variable stays in its type: message numbers, queues within their size,
\* the receiver's state, the place in the main loop.
LinkTypeOK ==
    /\ call \in {NoCall} \cup [id : 1 .. MaxId, pay : Payloads]
    /\ lastId \in 0 .. MaxId
    /\ Len(rx) <= RxSize /\ Len(tx) <= TxSize
    /\ ovf \in BOOLEAN
    /\ packet.state \in {"begin", "progress"} /\ packet.neg \in BOOLEAN
    /\ main \in Places
    /\ msg \in {NoMsg} \cup [id : 1 .. MaxId, pay : Payloads]
    /\ main = "send" <=> out # <<>>
    /\ damage \in 0 .. 2 /\ spoilt \in BOOLEAN

\* The answer read_response is about to return is the one to the command sent
\* last, with its message number and its payload, unless a line was damaged:
\* the tool's test of the link prints "Message ID mismatch" otherwise.  (The
\* code looks for the number or for the status 0, which nearly every answer has.)
AnswerIsOwn ==
    call # NoCall /\ Fitting # {} /\ Trusted
        => answers[Chosen] = [id |-> call.id, cmd |-> NoError, pay |-> <<call.pay>>]

\* No byte of an undamaged session is dropped, by app_uart_flush, which empties
\* both queues at the end of a packet, or by a full receive queue.
NothingDropped ==
    [][ Trusted =>
            /\ main = "poll" /\ main' \in {"execute", "send", "dead"} => Len(rx) = 1 /\ tx = <<>>
            /\ main # "poll" /\ toDevice # <<>> => ~ovf ]_vars

\* The receiver is back in step: a call is answered if neither it nor the call
\* before it was damaged, whatever was left in the buffers of both sides before,
\* or the device has faulted.
EveryCallAnswered ==
    call # NoCall ~> (call = NoCall \/ damage > 0 \/ main = "dead")

-----------------------------------------------------------------------------
Promise == INSTANCE Rpc WITH
    stage   <- IF lastId = 0 THEN "none" ELSE IF call = NoCall THEN "returned" ELSE "waiting",
    asked   <- call.pay,
    trusted <- Trusted

\* Through bytes lost and changed on both lines, packets joined and split and the
\* tool stopped and started, no call has two commands executed, none is executed
\* for nobody, and an undamaged call has its own executed before it returns.
ImplementsRpc == Promise!Spec
=============================================================================
