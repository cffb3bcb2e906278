------------------------------- MODULE MCBooking -------------------------------
(* Instances of Booking for TLC. *)
EXTENDS Booking

CONSTANTS l1

Loads1 == {l1}
===============================================================================
