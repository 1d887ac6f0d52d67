----------------------------- MODULE Agreement -----------------------------
(***************************************************************************)
(* What a handshake promises, whatever messages carry it: the server       *)
(* decides once, accepts only what its policy allows, and the client goes  *)
(* on only after an acceptance.  Either side may give up at any time.      *)
(***************************************************************************)
VARIABLES allowed,   \* the server's policy allows the request
          decision,  \* the server's word: open, accepted, refused
          client     \* the client: open, proceeds, gave_up

vars == <<allowed, decision, client>>

Init ==
  /\ allowed \in BOOLEAN
  /\ decision = "open"
  /\ client = "open"

Accept ==
  /\ decision = "open" /\ allowed
  /\ decision' = "accepted"
  /\ UNCHANGED <<allowed, client>>

Refuse ==
  /\ decision = "open"
  /\ decision' = "refused"
  /\ UNCHANGED <<allowed, client>>

Proceed ==
  /\ client = "open" /\ decision = "accepted"
  /\ client' = "proceeds"
  /\ UNCHANGED <<allowed, decision>>

GiveUp ==
  /\ client = "open"
  /\ client' = "gave_up"
  /\ UNCHANGED <<allowed, decision>>

Next == Accept \/ Refuse \/ Proceed \/ GiveUp

Spec == Init /\ [][Next]_vars
=============================================================================
