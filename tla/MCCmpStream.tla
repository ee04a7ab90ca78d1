---------------------------- MODULE MCCmpStream ----------------------------
(* CmpStream between a server that knows binding and enquiring and a client *)
(* that knows authentication; each end also sends a request nobody knows.   *)
(* The answers of their handlers may be too long.                          *)
EXTENDS CmpStream

CONSTANTS bind, authentication, unregistered

MCHandled ==
    [e \in End |-> IF e = "server" THEN {bind, Enquire} ELSE {authentication}]

MCOffers ==
    [e \in End |->
        {[cmd |-> Enquire, body |-> "none"]} \cup
        IF e = "server"
        THEN {[cmd |-> authentication, body |-> "text"],
              [cmd |-> unregistered, body |-> "none"]}
        ELSE {[cmd |-> bind, body |-> "none"],
              [cmd |-> unregistered, body |-> "text"]}]

MCMaxRequest == [e \in End |-> IF e = "server" THEN 1 ELSE 2]

=============================================================================
