-------------------------- MODULE SnapshotMailbox --------------------------
(***************************************************************************)
(* What display_controller_publish_scan promises the display (the comment  *)
(* of display.c:289): a mailbox for one message, in which a new message    *)
(* replaces one that was not read.  The reader skips messages, and never   *)
(* reads anything but the newest.                                          *)
(***************************************************************************)
EXTENDS Naturals

VARIABLES
  newest,  \* the newest message posted
  read     \* the last message read

MailboxInit == newest = 0 /\ read = 0

Post ==
  /\ newest' \in Nat /\ newest' > newest
  /\ UNCHANGED read

Read ==
  /\ read' = newest
  /\ UNCHANGED newest

MailboxSpec == MailboxInit /\ [][Post \/ Read]_<<newest, read>>
=============================================================================
