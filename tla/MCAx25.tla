------------------------------- MODULE MCAx25 -------------------------------
(***************************************************************************)
(* Frames of one header byte, one payload byte and the two FCS bytes: runs *)
(* of ones inside a byte, across one and two byte borders, of five and six *)
(* ones before the end flag, and a payload that looks like a flag.         *)
(***************************************************************************)
EXTENDS Ax25Link

Bits(a, b, c, d, e, f, g, h) == <<a, b, c, d, e, f, g, h>>

MCBytes == {Bits(0,0,0,0,0,0,0,0), Bits(1,1,1,1,1,1,1,1),
            Bits(0,1,1,1,1,1,1,0), Bits(0,0,0,1,1,1,1,1),
            Bits(1,1,1,0,0,1,1,1)}

MCContents == {[header |-> <<h>>, buf |-> <<b>>, fcs |-> <<f, g>>] :
                 h \in {Bits(1,1,1,1,1,1,1,1), Bits(0,0,0,1,1,1,1,1)},
                 b \in MCBytes, f \in MCBytes, g \in MCBytes}
              \cup {[header |-> <<h, Bits(0,1,1,1,1,1,1,0)>>,
                     buf |-> <<b, Bits(1,1,1,1,1,1,0,0)>>,
                     fcs |-> <<Bits(1,1,1,1,1,1,1,1), Bits(0,0,1,1,1,1,1,1)>>] :
                      h \in MCBytes, b \in MCBytes}
=============================================================================
