------------------------------- MODULE Trust -------------------------------
(***************************************************************************)
(* What pairing promises, without queues, files or connections.            *)
(*                                                                         *)
(* A device is trusted under at most one certificate.  It comes to be      *)
(* trusted only when the user and the phone have both agreed during the    *)
(* exchange in progress, under the certificate the phone presented for it; *)
(* a new connection starts a new exchange in which neither has agreed; a   *)
(* trusted device can only be reached under its certificate; and trust,    *)
(* unlike an exchange, survives a restart.                                 *)
(***************************************************************************)
CONSTANTS Device, Cert, NoCert

VARIABLES
    trust,     \* the certificate each device is trusted under
    peer,      \* the certificate of its exchange in progress
    phoneYes,  \* devices whose phone has agreed in it
    userYes    \* devices the user has agreed to in it

vars == <<trust, peer, phoneYes, userYes>>

NoExchange == [d \in Device |-> NoCert]

Init ==
    /\ trust \in [Device -> Cert \cup {NoCert}]
    /\ peer = NoExchange
    /\ phoneYes = {}
    /\ userYes = {}

BeginExchange(d, x) ==
    /\ trust[d] \in {x, NoCert}
    /\ peer' = [peer EXCEPT ![d] = x]
    /\ phoneYes' = phoneYes \ {d}
    /\ userYes' = userYes \ {d}
    /\ UNCHANGED trust

PhoneAgrees(d) ==
    /\ peer[d] # NoCert
    /\ phoneYes' = phoneYes \cup {d}
    /\ UNCHANGED userYes

UserAgrees(d) ==
    /\ peer[d] # NoCert
    /\ userYes' = userYes \cup {d}
    /\ UNCHANGED phoneYes

\* The second of the two to agree makes the device trusted; trust is given
\* only to a device that has none.
Establish(d) ==
    /\ trust[d] = NoCert
    /\ PhoneAgrees(d) \/ UserAgrees(d)
    /\ d \in phoneYes' /\ d \in userYes'
    /\ trust' = [trust EXCEPT ![d] = peer[d]]
    /\ UNCHANGED peer

Revoke(d) ==
    /\ trust' = [trust EXCEPT ![d] = NoCert]
    /\ phoneYes' = phoneYes \ {d}
    /\ userYes' = userYes \ {d}
    /\ UNCHANGED peer

Restart ==
    /\ peer' = NoExchange
    /\ phoneYes' = {}
    /\ userYes' = {}
    /\ UNCHANGED trust

Next ==
    \/ \E d \in Device :
          \/ \E x \in Cert : BeginExchange(d, x)
          \/ (PhoneAgrees(d) \/ UserAgrees(d)) /\ UNCHANGED <<trust, peer>>
          \/ Establish(d)
          \/ Revoke(d)
    \/ Restart

Spec == Init /\ [][Next]_vars
=============================================================================
