----------------------------- MODULE MCHosting -----------------------------
EXTENDS Hosting, TLC
CONSTANTS e1, e2, c1, c2, c3, w1, w2, console, canceller, retrier, pA, pB

MCActors == Callers \cup Workers \cup {console, canceller}
MCSite == (c1 :> pA) @@ (c2 :> pA) @@ (c3 :> pB) @@ (w1 :> pA) @@ (w2 :> pB) @@ (console :> pB) @@ (canceller :> pB) @@ (retrier :> pB)
MCDeliverers == Workers \cup {retrier}
MCFlaws == (e1 :> {"none"}) @@ (e2 :> {"none", "poison", "unmappable"})
Deployed(cast, ingests, shocks_) == [cast |-> cast, ingests |-> ingests, shocks |-> shocks_]
MCDeployments == {
  Deployed({e1, e2, c1, c2}, 2, 1),
  Deployed({e1, e2, c1, c3}, 2, 1),
  Deployed({e1, c1, c2, w1}, 1, 1),
  Deployed({e1, c1, c3, w1}, 1, 1),
  Deployed({e1, c1, w1, w2}, 1, 1),
  Deployed({e1, c1, w1}, 1, 2),
  Deployed({e1, c1, w1, retrier}, 1, 2),
  Deployed({e1, c1, w1, canceller}, 1, 1),
  Deployed({e1, c1, w2, canceller}, 1, 2),
  Deployed({e1, c1, w1, console, canceller}, 1, 1)}
MCPayloads == Terminal \cup {"local"}
=============================================================================
