----------------------------- MODULE EventChannel -----------------------------
(***************************************************************************)
(* What the agent promises of an event once it has accepted it (the        *)
(* comment of reportState, src/src/cloud.ts:1524-1532): it reaches the     *)
(* cloud, which counts it once, or it is given up - too old, too many, or  *)
(* unlinked.  An event that was given up may still arrive: the frame that  *)
(* carried it was under way.                                               *)
(***************************************************************************)
CONSTANT Events

VARIABLES linked, fate

Fates == {"none", "held", "delivered", "givenUp"}

Moves == {<<"none", "held">>, <<"none", "givenUp">>, <<"held", "delivered">>,
          <<"held", "givenUp">>, <<"givenUp", "delivered">>} \cup {<<f, f>> : f \in Fates}

ChanInit == fate = [e \in Events |-> "none"]
ChanNext == \A e \in Events : <<fate[e], fate'[e]>> \in Moves

(* While the machine stays linked no event is held for ever. *)
NothingForgotten ==
  \A e \in Events : (linked /\ fate[e] = "held") ~> (~linked \/ fate[e] # "held")

ChanSafety == ChanInit /\ [][ChanNext]_fate
ChanSpec == ChanSafety /\ NothingForgotten
=============================================================================
