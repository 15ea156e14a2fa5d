--------------------------- MODULE MCDirectDownload ---------------------------
(* Instances of DirectDownload: names, sizes and headers.                  *)
EXTENDS DirectDownload

Plain(piece) == [base |-> <<piece>>, ext |-> "jpg"]

\* Two files of one name, and a message without media.
MCMedia == {1, 2, 4}
MCName == [m \in MCMedia |-> IF m = 4 THEN [base |-> <<>>, ext |-> "jpg"] ELSE Plain("a")]
MCSize == [m \in MCMedia |-> IF m = 2 THEN 3 ELSE m \div 2]

MCHeaders == Headers({0, 1, 3})
=============================================================================
