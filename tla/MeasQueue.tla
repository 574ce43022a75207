------------------------------ MODULE MeasQueue ------------------------------
(***************************************************************************)
(* What the measurement store promises: a queue of whole measurements that *)
(* are read oldest first, each once, and of which the oldest is given up   *)
(* when there is no room for a new one.                                    *)
(***************************************************************************)
EXTENDS Naturals, Sequences

CONSTANTS
    Files,    \* measurements
    Cap       \* measurements the queue can hold

VARIABLES
    queue,    \* the measurements not yet read, oldest first
    input,    \* the measurement being written, <<>> between two
    output    \* the measurement last read

vars == <<queue, input, output>>

Init == queue = <<>> /\ input = <<>> /\ output = <<>>

Offer ==
    /\ input = <<>>
    /\ input' \in Files
    /\ UNCHANGED <<queue, output>>

\* Only for a new measurement, and only when the queue is full.
Drop ==
    /\ input # <<>>
    /\ Len(queue) = Cap
    /\ queue' = Tail(queue)
    /\ UNCHANGED <<input, output>>

Put ==
    /\ input # <<>>
    /\ Len(queue) < Cap
    /\ queue' = Append(queue, input)
    /\ input' = <<>>
    /\ UNCHANGED output

Get ==
    /\ queue # <<>>
    /\ output' = Head(queue)
    /\ queue' = Tail(queue)
    /\ UNCHANGED input

Format ==
    /\ queue' = <<>>
    /\ input' = <<>>
    /\ UNCHANGED output

Next == Offer \/ Drop \/ Put \/ Get \/ Format

Spec == Init /\ [][Next]_vars
=============================================================================
