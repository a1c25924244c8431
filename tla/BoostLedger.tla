------------------------------ MODULE BoostLedger ------------------------------
(***************************************************************************)
(* What buyers of a highlight are promised: a purchase is decided once; a  *)
(* credited one adds its days to the ad, on top of the days the ad has     *)
(* already, and no day is lost.                                            *)
(***************************************************************************)
EXTENDS Integers

CONSTANTS Intents, Ads, AdOf, Days, AdminDays

VARIABLES outcome,  \* outcome[i]: what became of a purchase
          days      \* days[a]: all days of highlight given to ad a

Init ==
  /\ outcome = [i \in Intents |-> "open"]
  /\ days = [a \in Ads |-> 0]

Credit(i) ==
  /\ outcome[i] = "open"
  /\ outcome' = [outcome EXCEPT ![i] = "credited"]
  /\ days' = [days EXCEPT ![AdOf[i]] = @ + Days]

Refuse(i) ==
  /\ outcome[i] = "open"
  /\ outcome' = [outcome EXCEPT ![i] = "refused"]
  /\ UNCHANGED days

Gift(a) ==
  /\ days' = [days EXCEPT ![a] = @ + AdminDays]
  /\ UNCHANGED outcome

Next == (\E i \in Intents : Credit(i) \/ Refuse(i)) \/ \E a \in Ads : Gift(a)

Spec == Init /\ [][Next]_<<outcome, days>>
================================================================================
