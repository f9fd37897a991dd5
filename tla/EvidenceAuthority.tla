-------------------------- MODULE EvidenceAuthority --------------------------
(*****************************************************************************)
(* What the observatory promises about authority, without saying how.  A     *)
(* published baseline is live (CURRENT dynamic evidence) or inert.  An epoch *)
(* change makes every baseline inert in one step, nothing makes an inert one *)
(* live again, and the verdict in a cell of the matrix is only ever          *)
(* (re)written on the strength of a baseline that is live at that moment.    *)
(*****************************************************************************)
CONSTANTS BaselineIds, Cells

VARIABLES authority,  \* published baseline id -> Standing
          support     \* cell with a verdict -> the baseline it rests on

Standing == {"live", "inert"}

Extend(f, x, y) == [z \in DOMAIN f \cup {x} |-> IF z = x THEN y ELSE f[z]]

Init == authority = <<>> /\ support = <<>>

Publish(b) ==
  /\ b \notin DOMAIN authority
  /\ \E s \in Standing : authority' = Extend(authority, b, s)
  /\ UNCHANGED support

RevokeAll ==
  /\ authority' = [b \in DOMAIN authority |-> "inert"]
  /\ UNCHANGED support

Decide(k, b) ==
  /\ b \in DOMAIN authority
  /\ authority[b] = "live"
  /\ support' = Extend(support, k, b)
  /\ UNCHANGED authority

Next ==
  \/ \E b \in BaselineIds : Publish(b)
  \/ RevokeAll
  \/ \E k \in Cells, b \in BaselineIds : Decide(k, b)

Spec == Init /\ [][Next]_<<authority, support>>
==============================================================================
