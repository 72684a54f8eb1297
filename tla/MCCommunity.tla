---------------------------- MODULE MCCommunity ----------------------------
(* Two people: the tokens they make are applied by them or by an observer. *)
(* The revocation is of the guest.                                         *)
EXTENDS Community

CONSTANTS host, guest

MCNext ==
  /\ Next
  /\ comm'[guest].role # "owner" \/ comm[host].role # "none"
  /\ comm' # comm => registry = NewRegistry \/ \A n \in People : comm'[n].role = comm[n].role
  /\ registry' # registry => comm[guest].role = "none" /\ \A a \in approvals : a.role = "member"
  /\ \A v \in revocations' : v.who = guest
=============================================================================
