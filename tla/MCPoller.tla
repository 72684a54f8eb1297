------------------------------ MODULE MCPoller ------------------------------
(***************************************************************************)
(* Two mailboxes and three messages, one stop of the poller.  A pull takes *)
(* a single message and two ids make a batch, so that handled messages     *)
(* whose acknowledgement is outstanding stand in the way of the others.    *)
(***************************************************************************)
EXTENDS Poller
=============================================================================
