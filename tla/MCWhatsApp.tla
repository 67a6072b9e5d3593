------------------------------ MODULE MCWhatsApp ------------------------------
(* Small instances of WhatsApp for TLC.                                    *)
EXTENDS WhatsApp, TLC

CONSTANTS b1, b2

Channel   == [asked |-> {"signup", "save"}, brands |-> {b1, b2}, versions |-> 3]
Messaging == [asked |-> {"signup", "sync", "queue", "dispatch"}, brands |-> {b1}, versions |-> 3]
GuestSide == [asked |-> {"save", "verify", "consent"}, brands |-> {b1}, versions |-> 2]
AllWorkloads == {Channel, Messaging, GuestSide}

Symmetry == Permutations(Senders) \cup Permutations(Requests) \cup Permutations(Attempts)
===============================================================================
