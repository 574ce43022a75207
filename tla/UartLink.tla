------------------------------ MODULE UartLink ------------------------------
(***************************************************************************)
(* The serial link: the host tool's transport (transport_layer.py), the    *)
(* two lines, app_uart's queues and uart_command.c, byte by byte.          *)
(*                                                                         *)
(* A packet is STX, the escaped bytes of CRC, message number, command and  *)
(* payload, ETX.  The tool sends one command and waits, for ever, for its  *)
(* answer; a thread of the tool takes answers off the line.  The device    *)
(* takes bytes off its receive queue in the main loop; interrupts fill     *)
(* that queue and empty the other.  Either line may damage bytes.  Who     *)
(* uses the tool may stop it and start it again.                           *)
(***************************************************************************)
EXTENDS Integers, SequencesExt

CONSTANTS
    MaxId,      \* message numbers are 1 .. MaxId; in the code to MESSAGE_MASK
    Payloads,   \* what commands carry, one byte
    RxSize,     \* UART_RX_FIFO_SIZE
    TxSize,     \* UART_TX_FIFO_SIZE
    Noisy,      \* the lines may be damaged
    Impatient   \* the tool is also stopped while the device is at work

MESSAGE_MASK == 65535

ASSUME LinkAssumption ==
    /\ MaxId \in 1 .. MESSAGE_MASK
    /\ Payloads \subseteq 0 .. 255
    /\ RxSize \in Nat \ {0} /\ TxSize \in Nat \ {0}
    /\ Noisy \in BOOLEAN /\ Impatient \in BOOLEAN

VARIABLES
    call,       \* tool: the command it waits for the answer to
    lastId,     \* tool: MESSAGE_ID
    answers,    \* tool: resp_list
    reader,     \* tool: data and negate_byte of read_response_data
    toDevice,   \* the line to the device
    rx,         \* device: m_rx_fifo
    tx,         \* device: m_tx_fifo
    ovf,        \* device: m_rx_ovf, reception stands still
    packet,     \* device: m_uart_rx_state, m_rx_buffer and negate_byte
    main,       \* device: where the main loop stands
    msg,        \* device: m_uart_cmd
    out,        \* device: the bytes of the answer still to be put
    runs,       \* what the device has executed since the call began
    damage,     \* 2: this call is damaged; 1: the one before was
    spoilt      \* some call since the tool was started was damaged

tool   == <<call, lastId, answers, reader>>
queues == <<rx, tx, ovf>>
server == <<packet, main, msg, out>>
faults == <<damage, spoilt>>
vars   == <<tool, toDevice, queues, server, runs, faults>>

STX == 2
ETX == 3
DLE == 4
Specials == {STX, ETX, DLE}

Work         == 1    \* any command of cmd_struct
NoError      == 0
NotSupported == 7
Junk         == 70000   \* a byte that is none of the others

NoCall == [id |-> 0, pay |-> 0]
Empty  == [state |-> "begin", data |-> <<>>, neg |-> FALSE]
Listen == [data |-> <<>>, neg |-> FALSE, alive |-> TRUE]
NoMsg  == [id |-> 0, pay |-> 0]
Places == {"poll", "execute", "send", "dead"}

Init ==
    /\ call = NoCall /\ lastId = 0 /\ answers = <<>> /\ reader = Listen
    /\ toDevice = <<>>
    /\ rx = <<>> /\ tx = <<>> /\ ovf = FALSE
    /\ packet = Empty /\ main = "poll" /\ msg = NoMsg /\ out = <<>>
    /\ runs = <<>> /\ damage = 0 /\ spoilt = FALSE

-----------------------------------------------------------------------------
(***************************************************************************)
(* Packets.                                                                *)
(***************************************************************************)
Negated(b) == 255 - b

\* Mutant of Escaped: NO_UART_ESCAPING.
NotEscaped(b) == <<b>>

Escaped(b) == IF b \in Specials THEN <<DLE, Negated(b)>> ELSE <<b>>

\* A message number stands for its bytes; a command and a payload are a byte.
Numbers == 0 .. MESSAGE_MASK
Small   == 0 .. 255

\* An ideal CRC: two bytes like no other, of each number, command and payload.
CrcLow(number)     == 1000000 + number
CrcHigh(cmd, rest) == 100000000 + 1000 * cmd + rest

Crc(body) ==
    <<CrcLow(body[1]), CrcHigh(body[2], IF Len(body) = 3 THEN 1 + body[3] ELSE 0)>>

\* The CRC is that of the fields behind it; a damaged byte is in no field.
Sound(data) ==
    /\ Len(data) \in {4, 5}
    /\ data[3] \in Numbers /\ \A i \in 4 .. Len(data) : data[i] \in Small
    /\ SubSeq(data, 1, 2) = Crc(SubSeq(data, 3, Len(data)))

Packet(body) ==
    LET bytes == Crc(body) \o body
    IN  <<STX>> \o FlattenSeq([i \in 1 .. Len(bytes) |-> Escaped(bytes[i])]) \o <<ETX>>

-----------------------------------------------------------------------------
(***************************************************************************)
(* The tool.                                                               *)
(***************************************************************************)
\* Mutant of NextId: the mask is left out.
NextIdUnmasked == lastId + 1

NextId == IF lastId = MaxId THEN 1 ELSE lastId + 1

Aged == IF damage = 0 THEN 0 ELSE damage - 1

\* Mutant of Ready: the answer is not waited for.
ReadyWhenSent == toDevice = <<>>

\* Callers of write_cmd have the answer to their last command.
Ready == call = NoCall

\* A choice of the tool's menu begins with clear_response_list.
WriteCmd ==
    /\ Ready
    /\ \E p \in Payloads :
        /\ call' = [id |-> NextId, pay |-> p]
        /\ toDevice' = toDevice \o Packet(<<NextId, Work, p>>)
    /\ lastId' = NextId
    /\ runs' = <<>>
    /\ damage' = Aged
    /\ answers' \in {answers, <<>>}
    /\ UNCHANGED <<reader, queues, server, spoilt>>

\* An STX is skipped: it does not drop what came before it.
Heard(r, b) ==
    IF ~r.neg /\ b = STX THEN r
    ELSE IF ~r.neg /\ b = DLE THEN [r EXCEPT !.neg = TRUE]
    ELSE [r EXCEPT !.data = Append(@, IF r.neg THEN Negated(b) ELSE b), !.neg = FALSE]

\* A mismatch of the CRC is only logged.  A packet too short for its fields
\* ends the thread; one without a byte is an ack.
Takes(data) ==
    CASE data = <<>> -> reader' = Listen /\ UNCHANGED answers
      [] Len(data) \in 1 .. 3 -> reader' = [Listen EXCEPT !.alive = FALSE] /\ UNCHANGED answers
      [] OTHER ->
            /\ answers' = Append(answers, [id |-> data[3], cmd |-> data[4], pay |-> SubSeq(data, 5, Len(data))])
            /\ reader' = Listen

\* The thread reads the byte b.
Hears(b) ==
    IF ~reader.alive THEN UNCHANGED <<reader, answers>>
    ELSE IF ~reader.neg /\ b = ETX THEN Takes(reader.data)
    ELSE reader' = Heard(reader, b) /\ UNCHANGED answers

\* read_response: cmd_id is 0 in every call of the tool.
Fits(a) == a.id = call.id \/ a.cmd = NoError

Fitting == {i \in DOMAIN answers : Fits(answers[i])}
Chosen  == CHOOSE i \in Fitting : \A j \in Fitting : i <= j

ReadResponse ==
    /\ call # NoCall /\ Fitting # {}
    /\ answers' = RemoveAt(answers, Chosen)
    /\ call' = NoCall
    /\ UNCHANGED <<lastId, reader, toDevice, queues, server, runs, faults>>

AtRest ==
    /\ toDevice = <<>> /\ rx = <<>> /\ tx = <<>>
    /\ main \in {"poll", "dead"}

\* Stopped, when what it had to send is sent, and started again; a device that
\* hangs is switched off and on.
RestartTool ==
    /\ AtRest \/ (Impatient /\ toDevice = <<>>) \/ main = "dead"
    /\ lastId # 0
    /\ call' = NoCall /\ lastId' = 0 /\ answers' = <<>> /\ reader' = Listen
    /\ IF main = "dead"
       THEN /\ toDevice' = <<>> /\ rx' = <<>> /\ tx' = <<>> /\ ovf' = FALSE
            /\ packet' = Empty /\ main' = "poll" /\ msg' = NoMsg /\ out' = <<>>
       ELSE UNCHANGED <<toDevice, queues, server>>
    /\ spoilt' = FALSE
    /\ UNCHANGED <<runs, damage>>

-----------------------------------------------------------------------------
(***************************************************************************)
(* The lines and the interrupts.                                           *)
(***************************************************************************)
\* The damage to one call: its packet loses bytes in a row, or its answer a byte,
\* or one byte of them changes.  The link is not damaged again before it has had
\* the time to recover.
Trusted == damage = 0 /\ ~spoilt

Spoils ==
    /\ Noisy
    /\ call # NoCall /\ Trusted
    /\ damage' = 2 /\ spoilt' = TRUE

Changed(b) == (Specials \cup {Junk}) \ {b}

DamageToDevice ==
    /\ Spoils
    /\ toDevice # <<>>
    /\ \/ \E k \in 1 .. Len(toDevice) : toDevice' = SubSeq(toDevice, k + 1, Len(toDevice))
       \/ \E b \in Changed(Head(toDevice)) : toDevice' = <<b>> \o Tail(toDevice)
    /\ UNCHANGED <<tool, queues, server, runs>>

DamageToHost ==
    /\ Spoils
    /\ tx # <<>> /\ main # "dead"
    /\ tx' = Tail(tx)
    /\ UNCHANGED <<reader, answers>> \/ \E b \in Changed(Head(tx)) : Hears(b)
    /\ UNCHANGED <<call, lastId, toDevice, rx, ovf, server, runs>>

\* The main loop polls faster than bytes come in; at work it does not poll.
KeepsUp == main = "poll" => ~ovf /\ Len(rx) < RxSize

\* RX_DONE: a queue that is full stops reception, and what arrives then is lost.
RxInterrupt ==
    /\ toDevice # <<>> /\ KeepsUp
    /\ toDevice' = Tail(toDevice)
    /\ IF ovf \/ main = "dead"
       THEN UNCHANGED <<rx, ovf>> /\ damage' = 2 /\ spoilt' = TRUE
       ELSE /\ rx' = Append(rx, Head(toDevice)) /\ ovf' = (Len(rx) + 1 = RxSize)
            /\ UNCHANGED faults
    /\ UNCHANGED <<tool, tx, server, runs>>

\* TX_DONE, or app_uart_put when nothing is being sent.
TxInterrupt ==
    /\ tx # <<>> /\ main # "dead"
    /\ Hears(Head(tx))
    /\ tx' = Tail(tx)
    /\ UNCHANGED <<call, lastId, toDevice, rx, ovf, server, runs, faults>>

-----------------------------------------------------------------------------
(***************************************************************************)
(* The device: uart_data_handle.                                           *)
(***************************************************************************)
\* Mutant of Started: the length of the packet before is kept.
StartedAfter(k) == [k EXCEPT !.state = "progress", !.neg = FALSE]

Started(k) == [state |-> "progress", data |-> <<>>, neg |-> FALSE]

Restarted(k) == [k EXCEPT !.data = <<>>]

Stored(k, b) ==
    [k EXCEPT !.data = Append(@, IF k.neg THEN Negated(b) ELSE b), !.neg = FALSE]

\* app_uart_get: reception starts again.
Gets ==
    /\ rx # <<>>
    /\ ovf' = FALSE

\* A byte that does not end a packet.
DeviceGets ==
    /\ main = "poll"
    /\ Gets
    /\ LET b == Head(rx)
           k == packet
       IN  /\ ~(k.state = "progress" /\ ~k.neg /\ b = ETX)
           /\ packet' =
                CASE k.state = "begin" /\ b = STX                -> Started(k)
                  [] k.state = "begin" /\ b # STX                -> k
                  [] k.state = "progress" /\ ~k.neg /\ b = STX   -> Restarted(k)
                  [] k.state = "progress" /\ ~k.neg /\ b = DLE   -> [k EXCEPT !.neg = TRUE]
                  [] OTHER                                       -> Stored(k, b)
    /\ rx' = Tail(rx)
    /\ UNCHANGED <<tool, toDevice, tx, main, msg, out, runs, faults>>

Ends ==
    /\ main = "poll"
    /\ Gets
    /\ packet.state = "progress" /\ ~packet.neg /\ Head(rx) = ETX
    /\ packet' = [packet EXCEPT !.state = "begin"]

\* An empty packet is sent back.
Echo ==
    /\ Ends
    /\ packet.data = <<>>
    /\ rx' = Tail(rx)
    /\ out' = <<STX, ETX>> /\ main' = "send"
    /\ UNCHANGED <<tool, toDevice, tx, msg, runs, faults>>

\* Mutant of Accepts: the CRC is not looked at.
AcceptsAny(data) == Len(data) = 5

Accepts(data) == Sound(data)

\* Mutant of Parsed: the message number is not copied.
ParsedKeepingId(data) == [id |-> msg.id, pay |-> data[5]]

Parsed(data) == [id |-> data[3], pay |-> data[5]]

\* app_uart_flush, parse_cmd.  A packet of one byte makes the length of the
\* CRC's input wrap: the device faults.  After a wrong CRC m_uart_cmd has the
\* number of the command before and, cleared, no command: it is "not supported".
Parse ==
    /\ Ends
    /\ packet.data # <<>>
    /\ rx' = <<>> /\ tx' = <<>>
    /\ CASE Len(packet.data) = 1 -> main' = "dead" /\ UNCHANGED <<msg, out>>
         [] Accepts(packet.data) ->
                /\ msg' = Parsed(packet.data)
                /\ main' = "execute"
                /\ UNCHANGED out
         [] OTHER ->
                /\ out' = Packet(<<msg.id, NotSupported>>)
                /\ main' = "send"
                /\ UNCHANGED msg
    /\ UNCHANGED <<tool, toDevice, runs, faults>>

\* The command's function; its answer shows what it was given.
Execute ==
    /\ main = "execute"
    /\ runs' = Append(runs, msg.pay)
    /\ out' = Packet(<<msg.id, NoError, msg.pay>>)
    /\ main' = "send"
    /\ UNCHANGED <<tool, toDevice, queues, packet, msg, faults>>

\* uart_put waits for room.
Put ==
    /\ main = "send" /\ Len(tx) < TxSize
    /\ tx' = Append(tx, Head(out))
    /\ out' = Tail(out)
    /\ main' = IF Len(out) = 1 THEN "poll" ELSE "send"
    /\ UNCHANGED <<tool, toDevice, rx, ovf, packet, msg, runs, faults>>

-----------------------------------------------------------------------------
MainLoop == DeviceGets \/ Echo \/ Parse \/ Execute \/ Put

Next ==
    \/ WriteCmd \/ ReadResponse \/ RestartTool
    \/ DamageToDevice \/ DamageToHost
    \/ RxInterrupt \/ TxInterrupt \/ MainLoop

Spec == Init /\ [][Next]_vars

\* The main loop, the interrupts and the waiting caller run on; nobody has to
\* send, to stop the tool or to damage a line.
FairSpec ==
    /\ Spec
    /\ WF_vars(MainLoop) /\ WF_vars(RxInterrupt) /\ WF_vars(TxInterrupt)
    /\ WF_vars(ReadResponse)
=============================================================================
