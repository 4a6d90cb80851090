------------------------ MODULE MCIssuedCertificate ------------------------
(* IssuedCertificate for TLC: texts that are and are not four characters of  *)
(* A-Z0-9, and identifiers at, below and beside the arc.                     *)
EXTENDS IssuedCertificate

A == 65
B == 66
Nine == 57
LowerA == 97
Blank == 32
NewLine == 10

MCTexts == {<<A, B, Nine, A>>, <<A, Nine, B, A>>, <<A, B, Nine, A, NewLine>>,
            <<Blank, A, B, Nine, A, Blank>>, <<A, B, Nine>>,
            <<A, B, LowerA, A>>, <<A, B, Nine, A, A>>, <<NewLine, Blank>>,
            <<A, Blank, B, A>>}

MCArc == <<2, 16, 840, 1, 114569, 1, 1>>
MCOids == {MCArc, MCArc \o <<3>>, MCArc \o <<3, 10>>,
           <<2, 16, 840, 1, 114569, 1, 10>>}
=============================================================================
