---------------------------- MODULE MCSessionPool ----------------------------
(* The traffic of the runs of SessionPool: one visitor, whose session may  *)
(* be saved already, signs in, streams and starts jobs in one window and   *)
(* logs out in another, where a second visitor signs in.                   *)
EXTENDS SessionPool

CONSTANTS s1, s2, h1, h2

MCTenants == {<<s1, 1>>, <<s1, 2>>, <<s2, 1>>}
MCTraffic ==
    ({h1} \X {"sign_in", "stream", "start"} \X {s1})
        \union {<<h2, "logout", s1>>, <<h2, "login", s2>>}
=============================================================================
