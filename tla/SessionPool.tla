----------------------------- MODULE SessionPool -----------------------------
(***************************************************************************)
(* The pool of visitors' Telegram clients: SessionManager, the helpers     *)
(* that give a request its client, job manager and directory, the visitor  *)
(* gate of the middleware and the request handlers as far as they use the  *)
(* pool.  All are coroutines of one asyncio loop: an action is what runs   *)
(* between two suspensions.                                                *)
(*                                                                         *)
(* A tenant is a TenantSession object.  Objects that nothing refers to are *)
(* used again.                                                             *)
(***************************************************************************)
EXTENDS Integers, FiniteSets

CONSTANTS
    Sids,       \* session identifiers, one per visitor's cookie
    Tenants,    \* bound: the TenantSession objects, identifier and number
    Handlers,   \* bound: requests served at the same time
    Traffic,    \* the requests looked at: handler, kind, session identifier
    MaxClients, \* MAX_ACTIVE_CLIENTS
    MaxJobs,    \* bound: jobs running at the same time
    Nobody      \* None; as a tenant, the application's own default objects

\* What a handler does: start a job, serve a stream (or any other request of
\* a signed-in visitor), sign in with an existing session or with a new one,
\* log out.
Kinds == {"start", "stream", "sign_in", "login", "logout"}

ASSUME SessionPoolAssumption ==
    /\ Tenants \subseteq Sids \X Nat /\ MaxClients \in Nat \ {0} /\ MaxJobs \in Nat
    /\ Nobody \notin Sids \union Handlers
    /\ Traffic \subseteq Handlers \X Kinds \X Sids

Owner(t) == t[1]

\* The managers: the tenants' and app.state.job_manager.
Managers == Tenants \union {<<Nobody>>}
Default == <<Nobody>>

VARIABLES
    pool,       \* the values of _sessions
    older,      \* their order: <<t, u>> when t was used before u
    lock,       \* the handler that holds _lock across a suspension
    saved,      \* the identifiers whose session file exists
    linked,     \* the tenants whose client is connected
    idle,       \* last_accessed is more than IDLE_TTL_SECONDS ago
    trusted,    \* is_authorized
    job,        \* the job of each manager: the tenant whose client it uses,
                \* and whether it writes to its visitor's own directory
    closing,    \* to_disconnect of the sweep under way
    req,        \* per handler: step, kind, identifier, manager, tenant held
    cut,        \* history: left the pool while a request held it
    revived     \* history: made while a logout of its identifier was under way

vars == <<pool, older, lock, saved, linked, idle, trusted, job, closing, req,
          cut, revived>>

Steps == {"gated", "cancelling", "asking", "evicting", "serving", "connected", "leaving"}

NoJob == [client |-> Default, home |-> TRUE]
Running(m) == job[m].client # Default
NoRequest == [step |-> "none", kind |-> "none", of |-> Nobody,
              manager |-> Default, tenant |-> Default]

Request == [step : Steps \union {"none"}, kind : Kinds \union {"none"},
            of : Sids \union {Nobody}, manager : Managers, tenant : Managers]

Init ==
    /\ pool = {} /\ older = {} /\ lock = Nobody
    /\ saved \in SUBSET Sids
    /\ linked = {} /\ idle = {} /\ trusted = {} /\ closing = {}
    /\ job = [m \in Managers |-> NoJob]
    /\ req = [h \in Handlers |-> NoRequest]
    /\ cut = {} /\ revived = {}

-----------------------------------------------------------------------------
InPool(s) == \E t \in pool : Owner(t) = s
TenantOf(s) == CHOOSE t \in pool : Owner(t) = s

\* move_to_end, and the removal of tenants, on the order of the pool.
Newest(t) == {p \in older : p[1] # t} \union {<<u, t>> : u \in pool \ {t}}
Without(gone) == {p \in older : p[1] \notin gone /\ p[2] \notin gone}

\* The objects a handler still uses.
HeldBy(h) ==
    {req[h].tenant, req[h].manager} \ {Default}
Held == UNION {HeldBy(h) : h \in Handlers}
Unused(t) ==
    /\ t \notin pool \union closing \union Held
    /\ ~Running(t) /\ \A m \in Managers : job[m].client # t

\* The request goes on to a step, with a manager and a tenant in its hands.
Holding(h, step, manager, tenant) ==
    req' = [req EXCEPT ![h] = [step |-> step, kind |-> req[h].kind, of |-> req[h].of,
                               manager |-> manager, tenant |-> tenant]]
Keeping(h, step, tenant) == Holding(h, step, req[h].manager, tenant)
Goto(h, step) == Keeping(h, step, req[h].tenant)
Answered(h) == req' = [req EXCEPT ![h] = NoRequest]

-----------------------------------------------------------------------------
(* A request arrives.                                                      *)

\* Only visitors whose tenant is in the pool and signed in get past the
\* middleware, except to /api/auth/.
Gate(k, s) == k \in {"start", "stream"} => \E t \in pool \intersect trusted : Owner(t) = s

Arrive(h, k, s) ==
    /\ <<h, k, s>> \in Traffic /\ req[h] = NoRequest /\ Gate(k, s)
    /\ req' = [req EXCEPT ![h] = [step |-> IF k = "start" THEN "gated" ELSE "asking",
                                  kind |-> k, of |-> s,
                                  manager |-> Default, tenant |-> Default]]
    /\ UNCHANGED <<pool, older, lock, saved, linked, idle, trusted, job, closing,
                   cut, revived>>

\* start_download takes the manager of the tenant in the pool now; the
\* middleware has suspended meanwhile, and the tenant may be gone.  A running
\* job is asked to cancel, and the handler waits for it.
FindManager(h) ==
    /\ req[h].step = "gated"
    /\ LET m == IF InPool(req[h].of) THEN TenantOf(req[h].of) ELSE Default
       IN Holding(h, IF Running(m) THEN "cancelling" ELSE "asking", m, Default)
    /\ UNCHANGED <<pool, older, lock, saved, linked, idle, trusted, job, closing,
                   cut, revived>>

\* The job has ended, or cancel_job_async has waited long enough.
CancelOver(h) ==
    /\ req[h].step = "cancelling" /\ Goto(h, "asking")
    /\ UNCHANGED <<pool, older, lock, saved, linked, idle, trusted, job, closing,
                   cut, revived>>

-----------------------------------------------------------------------------
(* get_or_create_tenant.                                                   *)

Asking(h) == req[h].step = "asking" /\ lock = Nobody
Missing(h) == Asking(h) /\ req[h].kind # "logout" /\ ~InPool(req[h].of)
Admissible(h) == req[h].of \in saved \/ req[h].kind = "login"

Hit(h) ==
    /\ Asking(h) /\ req[h].kind # "logout" /\ InPool(req[h].of)
    /\ LET t == TenantOf(req[h].of)
       IN /\ older' = Newest(t) /\ idle' = idle \ {t}
          /\ Keeping(h, "serving", t)
    /\ UNCHANGED <<pool, lock, saved, linked, trusted, job, closing, cut, revived>>

\* No tenant and no session file: no client, and the request fails.
Refused(h) ==
    /\ Missing(h) /\ ~Admissible(h) /\ Answered(h)
    /\ UNCHANGED <<pool, older, lock, saved, linked, idle, trusted, job, closing,
                   cut, revived>>

\* A TenantSession with a client, whose constructor makes the session file.
Make(h, t) ==
    /\ Owner(t) = req[h].of /\ Unused(t)
    /\ \A u \in Tenants : Owner(u) = Owner(t) /\ Unused(u) => t[2] <= u[2]
    /\ pool' = pool \union {t} /\ older' = Newest(t)
    /\ saved' = saved \union {Owner(t)}
    /\ cut' = cut \ {t}
    /\ revived' = IF \E g \in Handlers : req[g].step = "leaving" /\ req[g].of = Owner(t)
                    THEN revived \union {t} ELSE revived
    /\ Keeping(h, "serving", t)

HasRoom_OneMore == Cardinality(pool) <= MaxClients
HasRoom == Cardinality(pool) < MaxClients

Create(h, t) ==
    /\ Missing(h) /\ Admissible(h) /\ HasRoom /\ Make(h, t)
    /\ linked' = linked \ {t}
    /\ UNCHANGED <<lock, idle, trusted, job, closing>>

\* Taken out of the pool, with the marks that only matter there.
Pop(gone) ==
    /\ pool' = pool \ gone /\ older' = Without(gone)
    /\ idle' = idle \ gone /\ trusted' = trusted \ gone /\ revived' = revived \ gone

\* At the limit: the one unused longest among those that run no job goes, and
\* the lock stays held while its client disconnects.
Victims_Any == pool
Victims == {t \in pool : ~Running(t)}
Evict(h, t) ==
    /\ Missing(h) /\ Admissible(h) /\ ~HasRoom
    /\ t \in Victims /\ \A u \in Victims : <<u, t>> \notin older
    /\ Pop({t})
    /\ cut' = IF t \in Held THEN cut \union {t} ELSE cut
    /\ lock' = h
    /\ Keeping(h, "evicting", t)
    /\ UNCHANGED <<saved, linked, job, closing>>

EvictDone_StillLocked(h, t) ==
    /\ req[h].step = "evicting" /\ Make(h, t)
    /\ linked' = linked \ {t, req[h].tenant}
    /\ UNCHANGED <<lock, idle, trusted, job, closing>>
EvictDone(h, t) ==
    /\ req[h].step = "evicting" /\ Make(h, t)
    /\ linked' = linked \ {t, req[h].tenant}
    /\ lock' = Nobody
    /\ UNCHANGED <<idle, trusted, job, closing>>

\* SessionCapacityExceededError, 503.
Full(h) ==
    /\ Missing(h) /\ Admissible(h) /\ ~HasRoom /\ Victims = {} /\ Answered(h)
    /\ UNCHANGED <<pool, older, lock, saved, linked, idle, trusted, job, closing,
                   cut, revived>>

-----------------------------------------------------------------------------
(* The handlers once they have a client.                                   *)

\* _ensure_connected.
Connect_ById(h) ==
    /\ req[h].step = "serving" /\ Goto(h, "connected")
    /\ linked' = linked \union {req[h].of}
    /\ UNCHANGED <<pool, older, lock, saved, idle, trusted, job, closing, cut, revived>>
Connect(h) ==
    /\ req[h].step = "serving" /\ Goto(h, "connected")
    /\ linked' = linked \union {req[h].tenant}
    /\ UNCHANGED <<pool, older, lock, saved, idle, trusted, job, closing, cut, revived>>

\* The answer, or any error.
Answer(h) ==
    /\ req[h].step \in {"serving", "connected"} /\ Answered(h)
    /\ UNCHANGED <<pool, older, lock, saved, linked, idle, trusted, job, closing,
                   cut, revived>>

\* Telegram confirms a sign-in; what is marked is the tenant in the pool now.
SignedIn(h) ==
    /\ req[h].step = "connected" /\ req[h].kind = "sign_in" /\ InPool(req[h].of)
    /\ trusted' = trusted \union {TenantOf(req[h].of)}
    /\ Answered(h)
    /\ UNCHANGED <<pool, older, lock, saved, linked, idle, job, closing, cut, revived>>

\* The end of start_download: the directory is that of the tenant in the pool
\* now, or the shared one; the manager is the one found on arrival.
StartJob(h) ==
    /\ req[h].step = "connected" /\ req[h].kind = "start" /\ ~Running(req[h].manager)
    /\ Cardinality({m \in Managers : Running(m)}) < MaxJobs
    /\ job' = [job EXCEPT ![req[h].manager] =
                 [client |-> req[h].tenant, home |-> InPool(req[h].of)]]
    /\ Answered(h)
    /\ UNCHANGED <<pool, older, lock, saved, linked, idle, trusted, closing, cut, revived>>

JobEnds(m) ==
    /\ Running(m)
    /\ job' = [job EXCEPT ![m] = NoJob]
    /\ UNCHANGED <<pool, older, lock, saved, linked, idle, trusted, closing, req,
                   cut, revived>>

-----------------------------------------------------------------------------
(* logout_tenant: out of the pool under the lock, whatever runs; log_out,  *)
(* disconnect and the unlinking of the file after it.                      *)

LogoutPop_Stays(h) ==
    /\ Asking(h) /\ req[h].kind = "logout"
    /\ LET gone == {t \in pool : Owner(t) = req[h].of}
       IN /\ cut' = cut \union gone
          /\ Keeping(h, "leaving", IF gone = {} THEN Default ELSE TenantOf(req[h].of))
    /\ UNCHANGED <<pool, older, lock, saved, linked, idle, trusted, job, closing, revived>>
LogoutPop(h) ==
    /\ Asking(h) /\ req[h].kind = "logout"
    /\ LET gone == {t \in pool : Owner(t) = req[h].of}
       IN /\ Pop(gone) /\ cut' = cut \union gone
          /\ Keeping(h, "leaving", IF gone = {} THEN Default ELSE TenantOf(req[h].of))
    /\ UNCHANGED <<lock, saved, linked, job, closing>>

LoggedOut(h) ==
    /\ req[h].step = "leaving" /\ Answered(h)
    /\ linked' = linked \ {req[h].tenant}
    /\ saved' = saved \ {req[h].of}
    /\ UNCHANGED <<pool, older, lock, idle, trusted, job, closing, cut, revived>>

-----------------------------------------------------------------------------
(* cleanup_idle_sessions, which the sweeper calls every minute.            *)

Sweepable == {t \in pool \intersect idle : ~Running(t)}

Sweep_Forgets ==
    /\ lock = Nobody /\ closing = {} /\ Sweepable # {}
    /\ Pop(Sweepable)
    /\ cut' = cut \union (Sweepable \intersect Held)
    /\ UNCHANGED <<lock, saved, linked, job, closing, req>>
Sweep ==
    /\ lock = Nobody /\ closing = {} /\ Sweepable # {}
    /\ Pop(Sweepable) /\ closing' = Sweepable
    /\ cut' = cut \union (Sweepable \intersect Held)
    /\ UNCHANGED <<lock, saved, linked, job, req>>

\* The clients disconnect one after the other, the lock given up.
SweepClose(t) ==
    /\ t \in closing
    /\ closing' = closing \ {t} /\ linked' = linked \ {t}
    /\ UNCHANGED <<pool, older, lock, saved, idle, trusted, job, req, cut, revived>>

\* Fifteen minutes without a request.  Every other request than a stream is
\* over by then.
Busy(t) == \E h \in Handlers : req[h].tenant = t /\ req[h].kind # "stream"
GrowIdle(t) ==
    /\ t \in pool \ idle /\ ~Busy(t)
    /\ idle' = idle \union {t}
    /\ UNCHANGED <<pool, older, lock, saved, linked, trusted, job, closing, req,
                   cut, revived>>

-----------------------------------------------------------------------------
UsesLock(h) ==
    \/ Hit(h) \/ Refused(h) \/ Full(h) \/ LogoutPop(h)
    \/ \E t \in Tenants : Create(h, t) \/ Evict(h, t)
GoesOn(h) ==
    \/ FindManager(h) \/ CancelOver(h) \/ (\E t \in Tenants : EvictDone(h, t))
    \/ Connect(h) \/ LoggedOut(h)
    \/ req[h].kind # "stream" /\ (Answer(h) \/ SignedIn(h) \/ StartJob(h))

Next ==
    \/ \E h \in Handlers :
          \/ \E k \in Kinds, s \in Sids : Arrive(h, k, s)
          \/ UsesLock(h) \/ GoesOn(h) \/ Answer(h)
    \/ \E m \in Managers : JobEnds(m)
    \/ Sweep
    \/ \E t \in Tenants : SweepClose(t) \/ GrowIdle(t)

Spec == Init /\ [][Next]_vars

\* The loop runs what is ready, disconnects end, and asyncio.Lock serves those
\* that wait for it in their order; jobs end by themselves.  A stream may last
\* for ever.
Fairness ==
    /\ \A h \in Handlers : SF_vars(UsesLock(h)) /\ WF_vars(GoesOn(h))
    /\ WF_vars(\E t \in Tenants : SweepClose(t))
    /\ WF_vars(\E m \in Managers : JobEnds(m))
FairSpec == Spec /\ Fairness

-----------------------------------------------------------------------------
TypeOK ==
    /\ pool \subseteq Tenants /\ older \subseteq Tenants \X Tenants
    /\ lock \in Handlers \union {Nobody}
    /\ saved \subseteq Sids
    /\ linked \subseteq Tenants /\ idle \subseteq Tenants /\ trusted \subseteq Tenants
    /\ closing \subseteq Tenants /\ cut \subseteq Tenants /\ revived \subseteq Tenants
    /\ job \in [Managers -> [client : Managers, home : BOOLEAN]]
    /\ req \in [Handlers -> Request]

\* However requests, evictions, sweeps and logouts interleave, the pool holds
\* at most its limit of tenants, and at most one of each visitor: two clients
\* on one session file would spoil it.
PoolBounded ==
    /\ Cardinality(pool) <= MaxClients
    /\ \A t, u \in pool : Owner(t) = Owner(u) => t = u

\* A tenant that runs a job stays in the pool with its client connected, and
\* the job uses that client and that visitor's directory, unless the tenant
\* left the pool while a request held it or its visitor logged out.
JobsKeepTheirTenant ==
    \A t \in Tenants : Running(t) /\ t \notin cut =>
        /\ t \in pool /\ t \in linked
        /\ job[t].client = t /\ job[t].home

\* A connected client belongs to the pool, to the sweep that will disconnect
\* it or to a request, or it left the pool while a request held it.
NoForgottenClient == linked \subseteq pool \union closing \union Held \union cut

\* A tenant in the pool has its session file, except one made while a logout
\* of the same visitor was under way, whose file the logout may then unlink.
NoGhost == \A t \in pool : Owner(t) \in saved \/ t \in revived

\* A request that waits for the pool is served, in whatever state evictions
\* and sweeps leave the lock.
RequestsServed ==
    \A h \in Handlers : (req[h].step = "asking") ~> (req[h].step # "asking")

\* The README: every visitor's downloads go to a directory of their own.
JobsStayHome == \A m \in Managers : Running(m) => job[m].home
=============================================================================
