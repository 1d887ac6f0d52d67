------------------------------ MODULE Transfer ------------------------------
(***************************************************************************)
(* What the transfer of one stream promises, and all that module Backup    *)
(* assumes of it: the target gets a growing prefix of what zfs send        *)
(* emitted; zfs receive makes a Snapshot of it only when it got everything *)
(* and that was a whole stream; the client reports success only after      *)
(* that.  A client that reports failure or a cancel knows nothing.         *)
(***************************************************************************)
EXTENDS Naturals, Sequences

CONSTANT MaxBytes   \* bound on the length of a stream

VARIABLES emitted,    \* the bytes zfs send writes before its end
          whole,      \* those bytes are a whole stream
          delivered,  \* the bytes handed to zfs receive
          outcome,    \* of zfs receive: "open", "applied" or "failed"
          answer      \* of send_on: "none", "ok", "cancelled" or "failed"

tvars == <<emitted, whole, delivered, outcome, answer>>

TInit ==
  /\ emitted \in {[i \in 1..n |-> i] : n \in 0..MaxBytes}
  /\ whole \in BOOLEAN
  /\ whole => emitted # <<>>
  /\ delivered = <<>>
  /\ outcome = "open"
  /\ answer = "none"

Deliver ==
  /\ outcome = "open"
  /\ \E n \in Len(delivered)..Len(emitted) : delivered' = SubSeq(emitted, 1, n)
  /\ UNCHANGED <<emitted, whole, outcome, answer>>

Apply ==
  /\ outcome = "open" /\ whole /\ delivered = emitted
  /\ outcome' = "applied"
  /\ UNCHANGED <<emitted, whole, delivered, answer>>

Fail ==
  /\ outcome = "open"
  /\ outcome' = "failed"
  /\ UNCHANGED <<emitted, whole, delivered, answer>>

Answer ==
  /\ answer = "none"
  /\ answer' \in {"cancelled", "failed"} \cup {a \in {"ok"} : outcome = "applied"}
  /\ UNCHANGED <<emitted, whole, delivered, outcome>>

TNext == Deliver \/ Apply \/ Fail \/ Answer

TSpec == TInit /\ [][TNext]_tvars
=============================================================================
