------------------------------ MODULE MCIntake ------------------------------
(***************************************************************************)
(* A small instance of the way from the Broker to the Pilot for TLC.       *)
(***************************************************************************)
EXTENDS Intake, TLC

Automated == [vendor |-> "hetzner", pinned |-> TRUE, safe |-> TRUE, https |-> TRUE,
              inr |-> 700, amount |-> 750, currency |-> "EUR"]
Handoff   == [vendor |-> "other", pinned |-> FALSE, safe |-> TRUE, https |-> TRUE,
              inr |-> 900, amount |-> 90000, currency |-> "INR"]
Costly    == [vendor |-> "other", pinned |-> FALSE, safe |-> TRUE, https |-> TRUE,
              inr |-> 2000, amount |-> 2400, currency |-> "USD"]

PlansFound == {Automated, Handoff, Costly}
Best == {Automated}

(* The lane a human would expect, for a plan of each kind: the provider,   *)
(* its image, the sanity of the price in its currency, and safe links.     *)
Lanes ==
  {<<Automated, "automated">>, <<Handoff, "handoff">>, <<Costly, "handoff">>,
   <<[Automated EXCEPT !.pinned = FALSE], "handoff">>,
   <<[Automated EXCEPT !.https = FALSE], "unsupported">>,
   <<[Handoff EXCEPT !.safe = FALSE], "unsupported">>,
   <<[Handoff EXCEPT !.inr = 82], "unsupported">>, <<[Handoff EXCEPT !.inr = 83], "handoff">>,
   <<[Automated EXCEPT !.amount = 45456], "unsupported">>, <<[Costly EXCEPT !.amount = 50000], "handoff">>}

ASSUME RoutesAsExpected == \A row \in Lanes : routeCandidate(row[1]) = row[2]
=============================================================================
