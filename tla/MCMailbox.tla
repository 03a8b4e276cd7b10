------------------------------- MODULE MCMailbox -------------------------------
(* Instances of Mailbox for TLC: see the .cfg files. *)
EXTENDS MailboxProps, TLC

=============================================================================
