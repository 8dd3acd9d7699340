------------------------------ MODULE MCSignIn ------------------------------
(* The accounts for TLC: a device and a phone, with and without a password in  *)
(* config.yaml, and a device behind the push bridge, where the tool gives up.  *)
EXTENDS SignIn

Phone == [device |-> TRUE, bridge |-> FALSE, sms |-> TRUE, key |-> FALSE]
Bridge == [device |-> TRUE, bridge |-> TRUE, sms |-> FALSE, key |-> FALSE]
SomeAccounts == {[stored |-> "none", offer |-> Phone], [stored |-> "wrong", offer |-> Phone],
                 [stored |-> "right", offer |-> Bridge]}
NoPassword == {[stored |-> "none", offer |-> Phone]}

\* Any five of a lost request, a lapse, two runs of the tool and two starts of the
\* daemon.
NotAllSix == left.loss + left.lapse + left.run + left.start > 0
=============================================================================
