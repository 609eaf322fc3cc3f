---------------------------- MODULE MCBaseImages ----------------------------
(* Small pools for module BaseImages.                                      *)
EXTENDS BaseImages

CONSTANTS p1, p2, d1, d2, u1, u2, u3

\* Both processes use u3; u1 and u2 are images of one each.
MCImage == [p \in Proc |-> [d \in Device |->
              CASE d = d2 -> u3
                [] p = p1 -> u1
                [] OTHER -> u2]]

\* u1 and u2 have the same last element: a name clash between processes.
MCBase == [u \in URL |-> IF u = u3 THEN "n2" ELSE "n1"]
=============================================================================
