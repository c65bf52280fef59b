-------------------------------- MODULE Ahci --------------------------------
(***************************************************************************)
(* The disk as the driver shows it to the file system (kernel/pci/ahci.c). *)
(* A command is sent and polled for, so that there is never more than one. *)
(* Three things can go wrong with it.  If the port stays busy too long the *)
(* driver returns without having sent the command, and its callers, which  *)
(* return the length in any case, read zeros or lose what they wrote.  If  *)
(* the device reports an error, or the place is not on the disk, the       *)
(* kernel panics.  And the power may fail, after any command.              *)
(*                                                                         *)
(* The record d is the disk while one call of the file system runs: sent   *)
(* counts the commands of the call and fault names the one that fails.     *)
(***************************************************************************)
EXTENDS Integers, Sequences

NoFault == <<"none", 0>>
Faults(n) == {NoFault} \cup ({"busy", "stop"} \X (1..n))

Up(d) == d.status = "running"

\* ahci_send_command, for a place that is on the disk or not.
ahci_send_command(d, there) ==
    LET fault == IF d.fault[2] = d.sent + 1 THEN d.fault[1] ELSE "none"
    IN IF ~Up(d) THEN d
       ELSE [d EXCEPT !.sent = @ + 1,
                      !.status = IF fault = "stop" \/ (fault = "none" /\ ~there)
                                 THEN "down" ELSE @]

\* The command that was sent last has been carried out.
Done(d) == Up(d) /\ d.fault # <<"busy", d.sent>>

\* ahci_read gives what the command fetched into a buffer of zeros.
Fetched(d, value, zero) == IF Done(d) THEN value ELSE zero
=============================================================================
