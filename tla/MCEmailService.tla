--------------------------- MODULE MCEmailService ---------------------------
(* An instance of EmailService for TLC.                                    *)
EXTENDS EmailService

CONSTANTS c1, m1, m2, m3, malformed, unbuildable

FiveMails == {m1, m2, m3, malformed, unbuildable}

\* A single mail of each kind; batches with a mail that cannot be built at any place,
\* and an empty one.
SomeCalls ==
  [c \in {c1} |->
     [op : {"send"}, mails : {<<m1>>, <<malformed>>, <<unbuildable>>}] \union
     [op : {"batch"}, mails : {<<>>, <<m1, m2, m3>>, <<malformed, m1, m2>>,
                               <<m1, unbuildable, m2>>, <<m1, m2, malformed>>}]]
=============================================================================
