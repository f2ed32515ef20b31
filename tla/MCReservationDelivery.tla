----------------------- MODULE MCReservationDelivery -----------------------
(***************************************************************************)
(* Instances of ReservationDelivery for TLC.                               *)
(***************************************************************************)
EXTENDS ReservationDelivery, TLC

(* Members of every reservation can be fed. *)
AllEat == [r \in Rsv |-> User]
=============================================================================
