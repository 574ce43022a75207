---------------------------- MODULE SpiTransfer ----------------------------
(***************************************************************************)
(* spi.c: one SPI transfer at a time, started by the main program, which   *)
(* then waits in a loop for one of two interrupt handlers: the end of the  *)
(* transfer (nrfx_spim) or the expiry of a 500 ms timer (app_timer).       *)
(*                                                                         *)
(* A transfer given up for its time is not aborted: it runs on, and its    *)
(* end may come in the middle of a later call.  Both handlers run to their *)
(* end between two steps of the main program.                              *)
(***************************************************************************)

CONSTANT LatePcs   \* the points at which a transfer given up may still end

VARIABLES
    spi,        \* where spi_txrx stands
    done,       \* m_spi_xfer_done
    timeout,    \* m_spi_txrx_timeout
    timer,      \* m_spi_txrx_timer is active
    transfer,   \* transfer_in_progress, and whose it is: this call's or an earlier one's
    err         \* err_code: what nrfx_spim_xfer has answered

spiVars == <<spi, done, timeout, timer, transfer, err>>

SpiPcs == {"out", "armed", "wait", "left"}

ASSUME LateAssumption == LatePcs \subseteq SpiPcs

SpiInit ==
    /\ spi = "out"
    /\ done = FALSE
    /\ timeout = FALSE
    /\ timer = FALSE
    /\ transfer = "none"
    /\ err = "success"

\* Mutant of Begin: the flag is left as the transfer before has set it.
BeginStale ==
    /\ spi = "out"
    /\ spi' = "armed"
    /\ timer' = TRUE
    /\ UNCHANGED <<done, timeout, transfer, err>>

\* The flag is cleared and the timer started.
Begin ==
    /\ spi = "out"
    /\ spi' = "armed"
    /\ done' = FALSE
    /\ timer' = TRUE
    /\ UNCHANGED <<timeout, transfer, err>>

\* nrfx_spim_xfer: refused while another transfer is in progress.
Start ==
    /\ spi = "armed"
    /\ spi' = "wait"
    /\ IF transfer = "none"
       THEN transfer' = "mine" /\ err' = "success"
       ELSE err' = "busy" /\ UNCHANGED transfer
    /\ UNCHANGED <<done, timeout, timer>>

\* The END interrupt of the transfer this call has started ...
Ends ==
    /\ transfer = "mine"
    /\ transfer' = "none"
    /\ done' = TRUE
    /\ UNCHANGED <<spi, timeout, timer, err>>

\* ... or of one given up before: the handler cannot tell.
EndsLate ==
    /\ transfer = "earlier"
    /\ spi \in LatePcs
    /\ transfer' = "none"
    /\ done' = TRUE
    /\ UNCHANGED <<spi, timeout, timer, err>>

\* The RTC interrupt calls the handler of a timer that is active.
Expires ==
    /\ timer
    /\ timer' = FALSE
    /\ timeout' = TRUE
    /\ UNCHANGED <<spi, done, transfer, err>>

LeaveLoop ==
    /\ spi = "wait"
    /\ done \/ timeout
    /\ spi' = "left"
    /\ UNCHANGED <<done, timeout, timer, transfer, err>>

\* What spi_txrx returns: an error of nrfx_spim_xfer goes before the timeout.
Result == IF timeout /\ err = "success" THEN "timeout" ELSE err

\* Mutant of Finish: the timeout of a refused transfer is not taken back.
FinishLeavingFlag ==
    /\ spi = "left"
    /\ spi' = "out"
    /\ timer' = FALSE
    /\ timeout' = (timeout /\ err # "success")
    /\ transfer' = IF transfer = "mine" THEN "earlier" ELSE transfer
    /\ UNCHANGED <<done, err>>

\* The timer is stopped, the flag taken back, the function returns.
Finish ==
    /\ spi = "left"
    /\ spi' = "out"
    /\ timer' = FALSE
    /\ timeout' = FALSE
    /\ transfer' = IF transfer = "mine" THEN "earlier" ELSE transfer
    /\ UNCHANGED <<done, err>>

\* The processor starts anew: flags, timer and peripheral are as at first.
Reset ==
    /\ spi' = "out" /\ done' = FALSE /\ timeout' = FALSE
    /\ timer' = FALSE /\ transfer' = "none" /\ err' = "success"

SpiNext ==
    Begin \/ Start \/ Ends \/ EndsLate \/ Expires \/ LeaveLoop \/ Finish \/ Reset

SpiSpec == SpiInit /\ [][SpiNext]_spiVars
=============================================================================
