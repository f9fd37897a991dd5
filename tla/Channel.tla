------------------------------- MODULE Channel -------------------------------
(*****************************************************************************)
(* What a connection with send_frame and recv_frame promises its users: the  *)
(* messages taken are messages that were sent, each at most once and in the  *)
(* order of sending.  As long as no byte was altered on the way none is      *)
(* skipped.                                                                  *)
(*****************************************************************************)
EXTENDS Naturals, Sequences

CONSTANT Messages

VARIABLES sent,       \* everything given to send_frame and not refused
          delivered,  \* everything recv_frame has returned
          last,       \* the position in sent of the last one returned
          damaged     \* whether bytes were altered

Init == sent = <<>> /\ delivered = <<>> /\ last = 0 /\ damaged = FALSE

Send(m) ==
  /\ sent' = Append(sent, m)
  /\ UNCHANGED <<delivered, last, damaged>>

Take(n) ==
  /\ last < n /\ n <= Len(sent)
  /\ damaged \/ n = last + 1
  /\ last' = n /\ delivered' = Append(delivered, sent[n])
  /\ UNCHANGED <<sent, damaged>>

Damage == damaged' = TRUE /\ UNCHANGED <<sent, delivered, last>>

Next ==
  \/ \E m \in Messages : Send(m)
  \/ \E n \in 1..Len(sent) : Take(n)
  \/ Damage

Spec == Init /\ [][Next]_<<sent, delivered, last, damaged>>
==============================================================================
