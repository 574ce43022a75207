---------------------------- MODULE MCUartLink ----------------------------
(***************************************************************************)
(* Instances of UartLink for TLC.                                          *)
(***************************************************************************)
EXTENDS UartLinkProps, TLC

MCPayloads == {3, 33}
=============================================================================
