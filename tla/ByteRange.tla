------------------------------ MODULE ByteRange ------------------------------
(* parse_range_header (routes_media.py), which the media route and the     *)
(* direct download route share.  A header is what int() and the splitting  *)
(* at the first "-" make of it:                                            *)
(*   none         no header                                                *)
(*   malformed    another unit, a list of ranges, no number                *)
(*   suffix, n    bytes=-n                                                 *)
(*   from, s      bytes=s-                                                 *)
(*   between, s, e  bytes=s-e, where e may be negative ("5--3")            *)
EXTENDS Integers

Headers(N) ==
    {[form |-> "none"], [form |-> "malformed"]}
        \union [form : {"suffix"}, n : N] \union [form : {"from"}, s : N]
        \union [form : {"between"}, s : N, e : N \union {-1}]

Whole == [answer |-> "whole"]
Unsatisfiable == [answer |-> "unsatisfiable"]
Part(s, e) == [answer |-> "part", start |-> s, end |-> e]

Larger(a, b) == IF a >= b THEN a ELSE b
Smaller(a, b) == IF a <= b THEN a ELSE b

\* The start and the end a well-formed header asks for.
Asked_Unclamped(h, size) ==
    IF h.form = "suffix" THEN <<size - h.n, size - 1>>
    ELSE <<h.s, IF h.form = "from" THEN size - 1 ELSE h.e>>
Asked(h, size) ==
    IF h.form = "suffix" THEN <<Larger(0, size - h.n), size - 1>>
    ELSE <<h.s, IF h.form = "from" THEN size - 1 ELSE h.e>>

Satisfiable(s, e, size) == s < size /\ s <= e

\* What the routes do with a file of size bytes: an empty file has no ranges,
\* and a malformed header counts as none.
ParseRange(h, size) ==
    IF h.form = "none" THEN Whole
    ELSE IF size = 0 THEN Unsatisfiable
    ELSE IF h.form = "malformed" THEN Whole
    ELSE LET s == Asked(h, size)[1]
             e == Asked(h, size)[2]
         IN IF Satisfiable(s, e, size) THEN Part(s, Smaller(e, size - 1)) ELSE Unsatisfiable

\* The positions of the bytes an answer stands for.
Bytes(r, size) ==
    IF r = Whole THEN 0..(size - 1) ELSE IF r = Unsatisfiable THEN {} ELSE r.start..r.end

-----------------------------------------------------------------------------
\* The positions of a file that lie within the bounds a well-formed header
\* writes, taken literally.  A range that ends before it starts selects none,
\* as tests/test_web_api.py:209 has it; a server that follows RFC 7233 to the
\* letter would ignore such a header.  It says nothing of malformed ones.
Selected(h, size) ==
    {i \in 0..(size - 1) :
        /\ h.form = "suffix" => i >= size - h.n
        /\ h.form \in {"from", "between"} => i >= h.s
        /\ h.form = "between" => i <= h.e}
=============================================================================
