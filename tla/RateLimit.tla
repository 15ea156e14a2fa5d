------------------------------ MODULE RateLimit ------------------------------
(***************************************************************************)
(* The two sliding-window limiters (security.py) as the code uses them:    *)
(* AuthFailureTracker, by which the middleware bounds wrong master tokens, *)
(* and AuthRateLimiter, by which the sign-in routes bound codes and QR     *)
(* logins.  They share nothing: a behaviour follows one of them, chosen at *)
(* its start.  A request checks and records between two suspensions of the *)
(* loop, so each is one action.                                            *)
(*                                                                         *)
(* A moment is kept as its age, which stops at the window's length: what   *)
(* is that old has expired, and how long ago no longer matters.            *)
(***************************************************************************)
EXTENDS Integers, FiniteSets, Sequences, Subsequences

CONSTANTS
    Ips,
    Window,         \* window_seconds, in ticks
    MaxFailures,    \* max_failures
    MaxEntries,     \* max_entries
    MaxGlobal,      \* max_global
    MaxPerIp        \* max_per_ip

ASSUME RateLimitAssumption ==
    {Window, MaxFailures, MaxEntries, MaxGlobal, MaxPerIp} \subseteq Nat \ {0}

VARIABLES
    limiter,    \* which one is looked at
    failures,   \* AuthFailureTracker._failures: ages by address, oldest first
    global,     \* AuthRateLimiter._global_attempts
    perIp,      \* AuthRateLimiter._ip_attempts
    rejected,   \* history: the wrong tokens of each address in the window,
                \* since its last right one or its eviction
    granted,    \* history: the sign-ins of each address let through in the window
    admitted    \* history: those of all addresses

vars == <<limiter, failures, global, perIp, rejected, granted, admitted>>

NoTimes == [ip \in Ips |-> <<>>]

Init ==
    /\ limiter \in {"token", "sign_in"}
    /\ failures = <<>> /\ global = <<>> /\ perIp = <<>>
    /\ rejected = NoTimes /\ granted = NoTimes /\ admitted = <<>>

-----------------------------------------------------------------------------
Fresh(times) == Pick(times, {i \in DOMAIN times : times[i] < Window})
Expired(times) == times = <<>> \/ times[Len(times)] >= Window
Times(table, ip) == IF ip \in DOMAIN table THEN Fresh(table[ip]) ELSE <<>>

Drop(table, ips) == [ip \in DOMAIN table \ ips |-> table[ip]]
Put(table, ip, times) ==
    [k \in DOMAIN table \union {ip} |-> IF k = ip THEN times ELSE table[k]]

\* _prune of either class.
Prune_Emptied(table) == [ip \in DOMAIN table |-> Fresh(table[ip])]
Prune(table) == Drop(table, {ip \in DOMAIN table : Expired(table[ip])})

-----------------------------------------------------------------------------
(* AuthFailureTracker, in the middleware: a request with a master token.   *)

Limited_Beyond(ip) == Len(Times(failures, ip)) > MaxFailures
Limited(ip) == Len(Times(failures, ip)) >= MaxFailures

\* is_rate_limited forgets what has expired of this address.
Looked(ip) ==
    IF Times(failures, ip) = <<>> THEN Drop(failures, {ip})
    ELSE Put(failures, ip, Times(failures, ip))

\* 429: the attempt itself is not recorded.
TooMany_Renews(ip) ==
    /\ limiter = "token" /\ Limited(ip)
    /\ failures' = Put(failures, ip, Append(Tail(Times(failures, ip)), 0))
    /\ rejected' = [rejected EXCEPT ![ip] = Append(Tail(@), 0)]
    /\ UNCHANGED <<limiter, global, perIp, granted, admitted>>
TooMany(ip) ==
    /\ limiter = "token" /\ Limited(ip)
    /\ failures' = Looked(ip)
    /\ UNCHANGED <<limiter, global, perIp, rejected, granted, admitted>>

\* record_failure at the table's limit: expired entries go, and if that is
\* not enough the one whose first failure is oldest, be it this address's.
Victims_None(table) == {{}}
Victims(table) ==
    IF Cardinality(DOMAIN table) < MaxEntries \/ Cardinality(DOMAIN Prune(table)) < MaxEntries
      THEN {{}}
      ELSE {{ip} : ip \in {k \in DOMAIN Prune(table) :
                              \A j \in DOMAIN Prune(table) : table[j][1] <= table[k][1]}}
Room(table) == IF Cardinality(DOMAIN table) < MaxEntries THEN table ELSE Prune(table)

\* 401.
WrongToken(ip) ==
    /\ limiter = "token" /\ ~Limited(ip)
    /\ \E gone \in Victims(Looked(ip)) :
          LET room == Drop(Room(Looked(ip)), gone)
          IN /\ failures' = Put(room, ip, Append(Times(room, ip), 0))
             /\ rejected' = [k \in Ips |->
                    LET since == IF k \in gone THEN <<>> ELSE rejected[k]
                    IN IF k = ip THEN Append(since, 0) ELSE since]
    /\ UNCHANGED <<limiter, global, perIp, granted, admitted>>

RightToken_Keeps(ip) ==
    /\ limiter = "token" /\ ~Limited(ip)
    /\ failures' = Looked(ip)
    /\ rejected' = [rejected EXCEPT ![ip] = <<>>]
    /\ UNCHANGED <<limiter, global, perIp, granted, admitted>>
RightToken(ip) ==
    /\ limiter = "token" /\ ~Limited(ip)
    /\ failures' = Drop(failures, {ip})
    /\ rejected' = [rejected EXCEPT ![ip] = <<>>]
    /\ UNCHANGED <<limiter, global, perIp, granted, admitted>>

-----------------------------------------------------------------------------
(* AuthRateLimiter, in phone_send_code and get_auth_qr.                    *)

Full(ip) ==
    \/ Len(Fresh(global)) >= MaxGlobal
    \/ Len(Times(perIp, ip)) >= MaxPerIp

TurnedAway(ip) ==
    /\ limiter = "sign_in" /\ Full(ip)
    /\ global' = Fresh(global) /\ perIp' = Prune(perIp)
    /\ UNCHANGED <<limiter, failures, rejected, granted, admitted>>

LetIn_FirstOnly(ip) ==
    /\ limiter = "sign_in" /\ ~Full(ip)
    /\ global' = Append(Fresh(global), 0)
    /\ perIp' = Put(Prune(perIp), ip, <<0>>)
    /\ granted' = [granted EXCEPT ![ip] = Append(@, 0)] /\ admitted' = Append(admitted, 0)
    /\ UNCHANGED <<limiter, failures, rejected>>
LetIn(ip) ==
    /\ limiter = "sign_in" /\ ~Full(ip)
    /\ global' = Append(Fresh(global), 0)
    /\ perIp' = Put(Prune(perIp), ip, Append(Times(perIp, ip), 0))
    /\ granted' = [granted EXCEPT ![ip] = Append(@, 0)] /\ admitted' = Append(admitted, 0)
    /\ UNCHANGED <<limiter, failures, rejected>>

-----------------------------------------------------------------------------
Older(times) == [i \in DOMAIN times |-> IF times[i] < Window THEN times[i] + 1 ELSE Window]

\* The clock; the histories keep what is in the window only.
Tick ==
    /\ failures' = [ip \in DOMAIN failures |-> Older(failures[ip])]
    /\ global' = Older(global)
    /\ perIp' = [ip \in DOMAIN perIp |-> Older(perIp[ip])]
    /\ rejected' = [ip \in Ips |-> Fresh(Older(rejected[ip]))]
    /\ granted' = [ip \in Ips |-> Fresh(Older(granted[ip]))]
    /\ admitted' = Fresh(Older(admitted))
    /\ UNCHANGED limiter

Next ==
    \/ \E ip \in Ips :
          \/ TooMany(ip) \/ WrongToken(ip) \/ RightToken(ip)
          \/ TurnedAway(ip) \/ LetIn(ip)
    \/ Tick

Spec == Init /\ [][Next]_vars

\* Time passes.
FairSpec == Spec /\ WF_vars(Tick)

-----------------------------------------------------------------------------
Ages == 0..Window

TypeOK ==
    /\ limiter \in {"token", "sign_in"}
    /\ DOMAIN failures \subseteq Ips /\ \A ip \in DOMAIN failures : failures[ip] \in Seq(Ages) \ {<<>>}
    /\ global \in Seq(Ages)
    /\ DOMAIN perIp \subseteq Ips /\ \A ip \in DOMAIN perIp : perIp[ip] \in Seq(Ages) \ {<<>>}

\* The tracker remembers at most its limit of addresses.
TableBounded == Cardinality(DOMAIN failures) <= MaxEntries

\* No address has more wrong tokens looked at per window than the limit, as
\* long as the full table does not forget it.
FailuresBounded == \A ip \in Ips : Len(rejected[ip]) <= MaxFailures

\* Whatever was evicted, reset or has expired: who is limited has really
\* failed that often since, and who is turned away finds the window full of
\* sign-ins that were let in.
NoFalseAlarm ==
    \A ip \in Ips :
        /\ Limited(ip) => Len(rejected[ip]) >= MaxFailures
        /\ Full(ip) => Len(admitted) >= MaxGlobal \/ Len(granted[ip]) >= MaxPerIp

\* The sign-ins let through in any window keep both quotas.
QuotasKept ==
    /\ \A ip \in Ips : Len(granted[ip]) <= MaxPerIp
    /\ Len(admitted) <= MaxGlobal

\* An address that keeps sending requests while it is limited is let in again
\* all the same.
LimitIsLifted == \A ip \in Ips : Limited(ip) ~> ~Limited(ip)
=============================================================================
