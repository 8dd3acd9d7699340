------------------------------ MODULE MCWizard ------------------------------
(* How often the user does each thing, and how often while another goes on.    *)
EXTENDS Wizard

SomePresses == [next |-> 2, sign |-> 2, code |-> 4, sms |-> 1, back |-> 1, edit |-> 1, rush |-> 1]
=============================================================================
