--------------------------- MODULE MCSnmpConnection ---------------------------
(***************************************************************************)
(* A small instance of SnmpConnection: a peer whose second message is      *)
(* nonsense as a whole, and a process with two descriptors.  The tail of   *)
(* the first message is a packet, and so are the head of the second and    *)
(* its tail together with the next head.                                   *)
(***************************************************************************)
EXTENDS SnmpConnection

TwoFds     == {0, 1}
SecondOnly == {2}
SomeStrays == {<< <<1, "tail">> >>, << <<2, "head">> >>,
               << <<2, "tail">>, <<3, "head">> >>}
NoneOrOne  == {0, 1}
=============================================================================
