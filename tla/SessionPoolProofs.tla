-------------------------- MODULE SessionPoolProofs --------------------------
(***************************************************************************)
(* What the pool of clients keeps true for any number of visitors, tenants *)
(* and requests.                                                           *)
(***************************************************************************)
EXTENDS SessionPool, FiniteSetTheorems, TLAPS

-----------------------------------------------------------------------------
(* The inductive invariants.                                               *)

\* A request that has, or makes room for, a client holds a tenant.
Attended ==
    \A h \in Handlers :
       req[h].step \in {"serving", "connected", "evicting"} => req[h].tenant \in Tenants

TypeInv == TypeOK /\ Attended

\* While a request holds the lock across its suspension, the pool has the room
\* it made, and no tenant of its visitor.
LockHeld ==
    /\ \A h \in Handlers : req[h].step = "evicting" => lock = h
    /\ lock # Nobody =>
          req[lock].step = "evicting" /\ HasRoom /\ ~InPool(req[lock].of)
PoolInv == IsFiniteSet(pool) /\ PoolBounded /\ LockHeld

\* What a request knows of its manager and its tenant, as long as they did not
\* leave the pool meanwhile.
Sound(h) ==
    LET r == req[h]
    IN /\ r.manager \in Tenants => Owner(r.manager) = r.of /\ r.manager \in pool \union cut
       /\ r.step \notin {"evicting", "leaving"} /\ r.tenant \in Tenants =>
             r.tenant \in pool \union cut
       /\ r.step \in {"serving", "connected"} =>
             /\ Owner(r.tenant) = r.of
             /\ r.manager \in Tenants \ cut => r.tenant = r.manager
       /\ r.step = "connected" => r.tenant \in linked \union cut

\* A client being disconnected is not one of the pool's.
Apart ==
    /\ closing \intersect pool = {}
    /\ \A h \in Handlers : req[h].step \in {"evicting", "leaving"} => req[h].tenant \notin pool

KeptInv ==
    /\ \A h \in Handlers : Sound(h)
    /\ Apart /\ JobsKeepTheirTenant

\* A tenant made while its visitor logs out is known as such.
Remade ==
    \A h \in Handlers : req[h].step = "leaving" =>
       \A t \in pool : Owner(t) = req[h].of => t \in revived

-----------------------------------------------------------------------------
(* Types.                                                                  *)

LEMMA DefaultIsNoTenant == Default \notin Tenants
BY SessionPoolAssumption DEF Default

LEMMA TenantFound ==
    ASSUME NEW s, InPool(s)
    PROVE  TenantOf(s) \in pool /\ Owner(TenantOf(s)) = s
BY DEF InPool, TenantOf

LEMMA OrderType ==
    ASSUME pool \subseteq Tenants, older \subseteq Tenants \X Tenants
    PROVE  /\ \A t \in Tenants : Newest(t) \subseteq Tenants \X Tenants
           /\ \A gone : Without(gone) \subseteq Tenants \X Tenants
<1>1. ASSUME NEW t \in Tenants, NEW p \in Newest(t) PROVE p \in Tenants \X Tenants
  <2>1. CASE p \in older
    BY <2>1
  <2>2. CASE p \in {<<u, t>> : u \in pool \ {t}}
    BY <2>2
  <2> QED
    BY <1>1, <2>1, <2>2 DEF Newest
<1>2. ASSUME NEW gone PROVE Without(gone) \subseteq Tenants \X Tenants
  BY DEF Without
<1> QED
  BY <1>1, <1>2

LEMMA InitType == Init => TypeInv
BY DEF Init, TypeInv, Attended, TypeOK, NoJob, NoRequest, Request, Managers, Default

\* A request that moves on, and one that is answered.
LEMMA HoldingType ==
    ASSUME TypeOK, NEW h \in Handlers, NEW step \in Steps,
           NEW m \in Managers, NEW t \in Managers, Holding(h, step, m, t)
    PROVE  req' \in [Handlers -> Request]
BY DEF Holding, TypeOK, Request

LEMMA AnsweredType ==
    ASSUME TypeOK, NEW h \in Handlers, Answered(h)
    PROVE  req' \in [Handlers -> Request]
BY DEF Answered, NoRequest, TypeOK, Request, Managers, Default

LEMMA GotoType ==
    ASSUME TypeOK, NEW h \in Handlers, NEW step \in Steps, Goto(h, step)
    PROVE  req' \in [Handlers -> Request]
<1>1. req[h].manager \in Managers /\ req[h].tenant \in Managers
  BY DEF TypeOK, Request
<1> QED
  BY <1>1, HoldingType DEF Goto, Keeping

LEMMA KeepingType ==
    ASSUME TypeOK, NEW h \in Handlers, NEW step \in Steps, NEW t \in Managers,
           Keeping(h, step, t)
    PROVE  req' \in [Handlers -> Request]
<1>1. req[h].manager \in Managers
  BY DEF TypeOK, Request
<1> QED
  BY <1>1, HoldingType DEF Keeping

LEMMA PopType ==
    ASSUME TypeOK, NEW gone, Pop(gone)
    PROVE  /\ pool' \subseteq Tenants /\ older' \subseteq Tenants \X Tenants
           /\ idle' \subseteq Tenants /\ trusted' \subseteq Tenants
           /\ revived' \subseteq Tenants
BY OrderType DEF Pop, TypeOK

LEMMA MakeType ==
    ASSUME TypeOK, NEW h \in Handlers, NEW t \in Tenants, Make(h, t)
    PROVE  /\ pool' \subseteq Tenants /\ older' \subseteq Tenants \X Tenants
           /\ saved' \subseteq Sids /\ cut' \subseteq Tenants
           /\ revived' \subseteq Tenants
           /\ req' \in [Handlers -> Request]
<1>1. older' \subseteq Tenants \X Tenants
  BY OrderType DEF Make, TypeOK
<1>2. /\ pool' \subseteq Tenants /\ saved' \subseteq Sids /\ cut' \subseteq Tenants
      /\ revived' \subseteq Tenants
  BY SessionPoolAssumption DEF Make, Owner, TypeOK
<1>3. req' \in [Handlers -> Request]
  <2>1. Keeping(h, "serving", t)
    BY DEF Make
  <2>2. t \in Managers /\ "serving" \in Steps
    BY DEF Steps, Managers
  <2> QED
    BY <2>1, <2>2, KeepingType
<1> QED
  BY <1>1, <1>2, <1>3

LEMMA TypeStep == ASSUME TypeInv, Next PROVE TypeOK'
<1> USE DEF Steps, TypeInv
<1>1. ASSUME NEW h \in Handlers, NEW k \in Kinds, NEW s \in Sids, Arrive(h, k, s)
      PROVE  TypeOK'
  <2>1. req' \in [Handlers -> Request]
    BY <1>1 DEF Arrive, TypeOK, Request, Managers, Default
  <2> QED
    BY <1>1, <2>1 DEF Arrive, TypeOK
<1>2. ASSUME NEW h \in Handlers, FindManager(h) PROVE TypeOK'
  <2>1. PICK m \in Managers, step \in {"cancelling", "asking"} : Holding(h, step, m, Default)
    BY <1>2, TenantFound DEF FindManager, Managers, Default, TypeOK
  <2>2. req' \in [Handlers -> Request]
    BY <2>1, HoldingType DEF Managers, Default
  <2> QED
    BY <1>2, <2>2 DEF FindManager, TypeOK
<1>3. ASSUME NEW h \in Handlers, CancelOver(h) PROVE TypeOK'
  BY <1>3, GotoType DEF CancelOver, TypeOK
<1>4. ASSUME NEW h \in Handlers, Hit(h) PROVE TypeOK'
  <2>1. PICK t \in pool : older' = Newest(t) /\ idle' = idle \ {t} /\ Keeping(h, "serving", t)
    <3>1. TenantOf(req[h].of) \in pool
      BY <1>4, TenantFound DEF Hit
    <3> QED
      BY <1>4, <3>1 DEF Hit
  <2>2. older' \subseteq Tenants \X Tenants
    BY <2>1, OrderType DEF TypeOK
  <2>3. req' \in [Handlers -> Request]
    BY <2>1, KeepingType DEF TypeOK, Managers
  <2> QED
    BY <1>4, <2>1, <2>2, <2>3 DEF Hit, TypeOK
<1>5. ASSUME NEW h \in Handlers, Refused(h) PROVE TypeOK'
  BY <1>5, AnsweredType DEF Refused, TypeOK
<1>7. ASSUME NEW h \in Handlers, NEW t \in Tenants, Create(h, t) PROVE TypeOK'
  BY <1>7, MakeType DEF Create, TypeOK
<1>8. ASSUME NEW h \in Handlers, NEW t \in Tenants, Evict(h, t) PROVE TypeOK'
  <2>1. req' \in [Handlers -> Request]
    BY <1>8, KeepingType DEF Evict, Managers
  <2> QED
    BY <1>8, <2>1, PopType DEF Evict, TypeOK
<1>9. ASSUME NEW h \in Handlers, NEW t \in Tenants, EvictDone(h, t) PROVE TypeOK'
  BY <1>9, MakeType DEF EvictDone, TypeOK
<1>10. ASSUME NEW h \in Handlers, Full(h) PROVE TypeOK'
  BY <1>10, AnsweredType DEF Full, TypeOK
<1>11. ASSUME NEW h \in Handlers, Connect(h) PROVE TypeOK'
  <2>1. req' \in [Handlers -> Request]
    BY <1>11, GotoType DEF Connect
  <2>2. req[h].tenant \in Tenants
    BY <1>11 DEF Connect, Attended
  <2>3. linked' \subseteq Tenants
    BY <1>11, <2>2 DEF Connect, TypeOK
  <2> QED
    BY <1>11, <2>1, <2>3 DEF Connect, TypeOK
<1>12. ASSUME NEW h \in Handlers, Answer(h) PROVE TypeOK'
  BY <1>12, AnsweredType DEF Answer, TypeOK
<1>13. ASSUME NEW h \in Handlers, SignedIn(h) PROVE TypeOK'
  BY <1>13, AnsweredType, TenantFound DEF SignedIn, TypeOK
<1>14. ASSUME NEW h \in Handlers, StartJob(h) PROVE TypeOK'
  <2>1. req' \in [Handlers -> Request]
    BY <1>14, AnsweredType DEF StartJob
  <2>2. req[h].tenant \in Managers /\ InPool(req[h].of) \in BOOLEAN
    BY DEF TypeOK, Request, InPool
  <2>3. job' \in [Managers -> [client : Managers, home : BOOLEAN]]
    BY <1>14, <2>2 DEF StartJob, TypeOK
  <2> QED
    BY <1>14, <2>1, <2>3 DEF StartJob, TypeOK
<1>15. ASSUME NEW m \in Managers, JobEnds(m) PROVE TypeOK'
  BY <1>15 DEF JobEnds, NoJob, Default, TypeOK, Managers
<1>16. ASSUME NEW h \in Handlers, LogoutPop(h) PROVE TypeOK'
  <2>1. PICK gone \in SUBSET pool, t \in Managers :
           Pop(gone) /\ cut' = cut \union gone /\ Keeping(h, "leaving", t)
    <3> DEFINE gone == {t \in pool : Owner(t) = req[h].of}
               t == IF gone = {} THEN Default ELSE TenantOf(req[h].of)
    <3>1. t \in Managers
      BY TenantFound DEF InPool, Managers, Default, TypeOK
    <3> QED
      BY <1>16, <3>1 DEF LogoutPop
  <2>2. req' \in [Handlers -> Request]
    BY <2>1, KeepingType
  <2> QED
    BY <1>16, <2>1, <2>2, PopType DEF LogoutPop, TypeOK
<1>17. ASSUME NEW h \in Handlers, LoggedOut(h) PROVE TypeOK'
  BY <1>17, AnsweredType DEF LoggedOut, TypeOK
<1>18. CASE Sweep
  BY <1>18, PopType DEF Sweep, Sweepable, TypeOK
<1>19. ASSUME NEW t \in Tenants, SweepClose(t) PROVE TypeOK'
  BY <1>19 DEF SweepClose, TypeOK
<1>20. ASSUME NEW t \in Tenants, GrowIdle(t) PROVE TypeOK'
  BY <1>20 DEF GrowIdle, TypeOK
<1> QED
  BY <1>1, <1>2, <1>3, <1>4, <1>5, <1>7, <1>8, <1>9, <1>10, <1>11, <1>12, <1>13,
     <1>14, <1>15, <1>16, <1>17, <1>18, <1>19, <1>20
     DEF Next, UsesLock, GoesOn


LEMMA AttendedStep == ASSUME TypeInv, Next PROVE Attended'
<1> USE DEF TypeInv, Attended
<1>1. ASSUME NEW h \in Handlers, NEW step, NEW m, NEW t, Holding(h, step, m, t),
             step \in {"serving", "connected", "evicting"} => t \in Tenants
      PROVE  Attended'
  BY <1>1 DEF Holding, TypeOK
<1>2. ASSUME NEW h \in Handlers, Answered(h) PROVE Attended'
  BY <1>2 DEF Answered, NoRequest, TypeOK
<1>3. ASSUME req' = req PROVE Attended'
  BY <1>3
<1>4. ASSUME NEW h \in Handlers, NEW k \in Kinds, NEW s \in Sids, Arrive(h, k, s)
      PROVE  Attended'
  BY <1>4 DEF Arrive, TypeOK
<1>5. ASSUME NEW h \in Handlers, FindManager(h) PROVE Attended'
  BY <1>1, <1>5 DEF FindManager
<1>6. ASSUME NEW h \in Handlers, CancelOver(h) PROVE Attended'
  BY <1>1, <1>6 DEF CancelOver, Goto, Keeping
<1>7. ASSUME NEW h \in Handlers, Hit(h) PROVE Attended'
  <2>1. TenantOf(req[h].of) \in Tenants
    BY <1>7, TenantFound DEF Hit, TypeOK
  <2> QED
    BY <1>1, <1>7, <2>1 DEF Hit, Keeping
<1>8. ASSUME NEW h \in Handlers, NEW t \in Tenants, Make(h, t) PROVE Attended'
  BY <1>1, <1>8 DEF Make, Keeping
<1>9. ASSUME NEW h \in Handlers, NEW t \in Tenants, Evict(h, t) PROVE Attended'
  BY <1>1, <1>9 DEF Evict, Keeping
<1>10. ASSUME NEW h \in Handlers, Connect(h) PROVE Attended'
  BY <1>1, <1>10 DEF Connect, Goto, Keeping
<1>11. ASSUME NEW h \in Handlers, LogoutPop(h) PROVE Attended'
  BY <1>1, <1>11 DEF LogoutPop, Keeping
<1> QED
  BY <1>2, <1>3, <1>4, <1>5, <1>6, <1>7, <1>8, <1>9, <1>10, <1>11
     DEF Next, UsesLock, GoesOn, Refused, Full, Create, EvictDone, Answer, SignedIn,
         StartJob, LoggedOut, JobEnds, Sweep, SweepClose, GrowIdle

LEMMA TypeInvariant == Spec => []TypeInv
<1>1. TypeInv /\ Next => TypeInv'
  BY TypeStep, AttendedStep DEF TypeInv
<1>2. TypeInv /\ UNCHANGED vars => TypeInv'
  BY DEF TypeInv, TypeOK, Attended, vars
<1> QED
  BY <1>1, <1>2, InitType, PTL DEF Spec

\* The pool's state keeps its types.
THEOREM TypeCorrect == Spec => []TypeOK
<1>1. TypeInv => TypeOK
  BY DEF TypeInv
<1> QED
  BY <1>1, TypeInvariant, PTL

-----------------------------------------------------------------------------
(* The limit of the pool.                                                  *)

LEMMA InitPool == Init => PoolInv
BY FS_EmptySet, SessionPoolAssumption
   DEF Init, PoolInv, PoolBounded, LockHeld, NoRequest

LEMMA PoolStep == ASSUME TypeInv, PoolInv, Next PROVE PoolInv'
<1> USE DEF TypeInv
\* A step that leaves pool and lock alone, and the requests' evictions.
<1>1. ASSUME UNCHANGED <<pool, lock>>,
             \A h \in Handlers : /\ req'[h].step = "evicting" <=> req[h].step = "evicting"
                                 /\ req[h].step = "evicting" => req'[h].of = req[h].of
      PROVE  PoolInv'
  <2>1. LockHeld'
    BY <1>1 DEF PoolInv, LockHeld, HasRoom, InPool, TypeOK
  <2> QED
    BY <1>1, <2>1 DEF PoolInv, PoolBounded
<1>2. ASSUME NEW h \in Handlers, NEW step, NEW m, NEW t, Holding(h, step, m, t),
             req[h].step # "evicting", step # "evicting", UNCHANGED <<pool, lock>>
      PROVE  PoolInv'
  BY <1>1, <1>2 DEF Holding, TypeOK
<1>3. ASSUME NEW h \in Handlers, Answered(h), req[h].step # "evicting",
             UNCHANGED <<pool, lock>>
      PROVE  PoolInv'
  BY <1>1, <1>3 DEF Answered, NoRequest, TypeOK
<1>4. ASSUME req' = req, UNCHANGED <<pool, lock>> PROVE PoolInv'
  BY <1>1, <1>4
\* The pool shrinks while the lock is free, and stays free.
<1>5. ASSUME NEW gone, Pop(gone), lock = Nobody
      PROVE  /\ IsFiniteSet(pool') /\ PoolBounded'
             /\ Cardinality(pool') \in Nat
             /\ \A t \in gone \intersect pool : Cardinality(pool') < Cardinality(pool)
  <2>1. IsFiniteSet(pool) /\ pool' \subseteq pool /\ IsFiniteSet(pool')
    BY <1>5, FS_Subset DEF PoolInv, Pop
  <2>2. Cardinality(pool') <= Cardinality(pool) /\ Cardinality(pool) \in Nat
        /\ Cardinality(pool') \in Nat
    BY <2>1, FS_Subset, FS_CardinalityType
  <2>3. ASSUME NEW t \in gone \intersect pool PROVE pool' # pool
    BY <1>5, <2>3 DEF Pop
  <2>4. ASSUME NEW t \in gone \intersect pool PROVE Cardinality(pool') # Cardinality(pool)
    BY <2>1, <2>3, <2>4, FS_Subset
  <2> QED
    BY <2>1, <2>2, <2>4, SessionPoolAssumption DEF PoolInv, PoolBounded
<1>6. ASSUME NEW h \in Handlers, NEW k \in Kinds, NEW s \in Sids, Arrive(h, k, s)
      PROVE  PoolInv'
  BY <1>1, <1>6 DEF Arrive, NoRequest, TypeOK
<1>7. ASSUME NEW h \in Handlers, NEW t \in Tenants, Make(h, t), lock' = Nobody,
             \A g \in Handlers \ {h} : req[g].step # "evicting",
             HasRoom, ~InPool(req[h].of)
      PROVE  PoolInv'
  <2>1. t \notin pool
    BY <1>7 DEF Make, Unused
  <2>2. IsFiniteSet(pool') /\ Cardinality(pool') = Cardinality(pool) + 1
    BY <1>7, <2>1, FS_AddElement DEF PoolInv, Make
  <2>3. Cardinality(pool') <= MaxClients
    BY <1>7, <2>2, FS_CardinalityType, SessionPoolAssumption DEF HasRoom, PoolInv
  <2>4. \A u, v \in pool' : Owner(u) = Owner(v) => u = v
    BY <1>7 DEF Make, InPool, PoolInv, PoolBounded
  <2>5. \A g \in Handlers : req'[g].step # "evicting"
    BY <1>7 DEF Make, Keeping, Holding, TypeOK
  <2> QED
    BY <1>7, <2>2, <2>3, <2>4, <2>5 DEF PoolInv, PoolBounded, LockHeld
<1>8. ASSUME NEW h \in Handlers, NEW t \in Tenants, Create(h, t) PROVE PoolInv'
  <2>1. \A g \in Handlers : req[g].step # "evicting"
    BY <1>8, SessionPoolAssumption DEF Create, Missing, Asking, PoolInv, LockHeld
  <2> QED
    BY <1>7, <1>8, <2>1 DEF Create, Missing, Asking
<1>9. ASSUME NEW h \in Handlers, NEW t \in Tenants, EvictDone(h, t) PROVE PoolInv'
  <2>1. lock = h /\ \A g \in Handlers \ {h} : req[g].step # "evicting"
    BY <1>9 DEF EvictDone, PoolInv, LockHeld
  <2>2. HasRoom /\ ~InPool(req[h].of)
    BY <2>1, SessionPoolAssumption DEF PoolInv, LockHeld
  <2> QED
    BY <1>7, <1>9, <2>1, <2>2 DEF EvictDone
<1>10. ASSUME NEW h \in Handlers, NEW t \in Tenants, Evict(h, t) PROVE PoolInv'
  <2>1. lock = Nobody /\ Pop({t}) /\ t \in pool /\ ~InPool(req[h].of)
    BY <1>10 DEF Evict, Missing, Asking, Victims
  <2>2. /\ IsFiniteSet(pool') /\ PoolBounded' /\ Cardinality(pool') < Cardinality(pool)
        /\ Cardinality(pool') \in Nat /\ Cardinality(pool) \in Nat
    BY <1>5, <2>1, FS_CardinalityType DEF PoolInv
  <2>3. HasRoom'
    BY <2>2, SessionPoolAssumption DEF HasRoom, PoolInv, PoolBounded
  <2>4. /\ \A g \in Handlers : req'[g].step = "evicting" => g = h
        /\ req'[h].step = "evicting" /\ req'[h].of = req[h].of
    <3>1. \A g \in Handlers : req[g].step # "evicting"
      BY <2>1, SessionPoolAssumption DEF PoolInv, LockHeld
    <3> QED
      BY <1>10, <3>1 DEF Evict, Keeping, Holding, TypeOK
  <2>5. ~InPool(req[h].of)'
    BY <2>1, <2>4 DEF InPool, Pop
  <2>6. lock' = h
    BY <1>10 DEF Evict
  <2> QED
    BY <2>2, <2>3, <2>4, <2>5, <2>6 DEF PoolInv, LockHeld
<1>11. ASSUME NEW gone, Pop(gone), lock = Nobody, lock' = Nobody,
              \A h \in Handlers : req'[h].step = "evicting" => req[h].step = "evicting"
       PROVE  PoolInv'
  <2>1. \A h \in Handlers : req'[h].step # "evicting"
    BY <1>11, SessionPoolAssumption DEF PoolInv, LockHeld
  <2> QED
    BY <1>5, <1>11, <2>1 DEF PoolInv, LockHeld
<1>12. ASSUME NEW h \in Handlers, LogoutPop(h) PROVE PoolInv'
  BY <1>11, <1>12 DEF LogoutPop, Asking, Keeping, Holding, TypeOK
<1>13. CASE Sweep
  BY <1>11, <1>13 DEF Sweep
<1>14. ASSUME NEW h \in Handlers, FindManager(h) \/ CancelOver(h) \/ Hit(h) \/ Connect(h)
       PROVE  PoolInv'
  BY <1>2, <1>14 DEF FindManager, CancelOver, Hit, Asking, Connect, Goto, Keeping
<1>15. ASSUME NEW h \in Handlers,
              \/ Refused(h) \/ Full(h) \/ Answer(h) \/ SignedIn(h) \/ StartJob(h)
              \/ LoggedOut(h)
       PROVE  PoolInv'
  BY <1>3, <1>15
     DEF Refused, Full, Missing, Asking, Answer, SignedIn, StartJob, LoggedOut
<1>16. ASSUME NEW t, JobEnds(t) \/ SweepClose(t) \/ GrowIdle(t) PROVE PoolInv'
  BY <1>4, <1>16 DEF JobEnds, SweepClose, GrowIdle
<1> QED
  BY <1>6, <1>8, <1>9, <1>10, <1>12, <1>13, <1>14, <1>15, <1>16
     DEF Next, UsesLock, GoesOn

LEMMA PoolInvariant == Spec => []PoolInv
<1>1. PoolInv /\ UNCHANGED vars => PoolInv'
  BY DEF PoolInv, PoolBounded, LockHeld, HasRoom, InPool, vars
<1> QED
  BY <1>1, InitPool, PoolStep, TypeInvariant, PTL DEF Spec

\* The pool holds at most its limit of tenants and at most one of each visitor,
\* though an eviction suspends between making room and filling it.
THEOREM LimitKept == Spec => []PoolBounded
<1>1. PoolInv => PoolBounded
  BY DEF PoolInv
<1> QED
  BY <1>1, PoolInvariant, PTL

-----------------------------------------------------------------------------
(* Tenants in use.                                                         *)

\* The tenants some request or job uses.
Used == Held \union {t \in Tenants : Running(t)}

LEMMA HeldTenants ==
    ASSUME TypeInv, NEW h \in Handlers
    PROVE  /\ req[h].tenant \in Tenants => req[h].tenant \in Held
           /\ req[h].manager \in Tenants => req[h].manager \in Held
BY DefaultIsNoTenant DEF Held, HeldBy

LEMMA UnusedTenants ==
    ASSUME NEW t \in Tenants, Unused(t)
    PROVE  t \notin Used /\ t \notin pool /\ t \notin closing
BY DEF Unused, Used

\* What every step leaves to the tenants in use: they are marked when they go,
\* the mark stays, and the pool's clients stay connected.
Frame ==
    /\ cut \intersect Used \subseteq cut'
    /\ pool \intersect Used \subseteq pool' \union cut'
    /\ pool \intersect linked \subseteq linked'

LEMMA FrameStep == ASSUME TypeInv, PoolInv, Apart, Next PROVE Frame
<1>1. ASSUME UNCHANGED <<pool, cut, linked>> PROVE Frame
  BY <1>1 DEF Frame
<1>2. ASSUME NEW h \in Handlers, NEW t \in Tenants, Make(h, t),
             linked' = linked \ {t} \/
                (req[h].step = "evicting" /\ linked' = linked \ {t, req[h].tenant})
      PROVE  Frame
  <2>1. t \notin Used /\ t \notin pool
    BY <1>2, UnusedTenants DEF Make
  <2>2. req[h].step = "evicting" => req[h].tenant \notin pool
    BY DEF Apart
  <2> QED
    BY <1>2, <2>1, <2>2 DEF Make, Frame
<1>3. ASSUME NEW h \in Handlers, NEW t \in Tenants, Evict(h, t) PROVE Frame
  <2>1. t \in Used => t \in Held
    BY <1>3 DEF Evict, Victims, Used
  <2> QED
    BY <1>3, <2>1 DEF Evict, Pop, Frame
<1>4. ASSUME NEW h \in Handlers, LogoutPop(h) PROVE Frame
  BY <1>4 DEF LogoutPop, Pop, Frame
<1>5. ASSUME NEW h \in Handlers, LoggedOut(h) PROVE Frame
  BY <1>5 DEF LoggedOut, Frame, Apart
<1>6. CASE Sweep
  BY <1>6 DEF Sweep, Sweepable, Pop, Frame, Used
<1>7. ASSUME NEW t, SweepClose(t) PROVE Frame
  BY <1>7 DEF SweepClose, Frame, Apart
<1>8. ASSUME NEW h \in Handlers, Connect(h) PROVE Frame
  BY <1>8 DEF Connect, Frame
<1> QED
  BY <1>1, <1>2, <1>3, <1>4, <1>5, <1>6, <1>7, <1>8
     DEF Next, UsesLock, GoesOn, Arrive, FindManager, CancelOver, Hit, Refused, Full,
         Create, EvictDone, Answer, SignedIn, StartJob, JobEnds, GrowIdle

\* A request that a step does not move knows what it knew.
LEMMA SoundFrame ==
    ASSUME TypeInv, Frame, NEW h \in Handlers, Sound(h), req'[h] = req[h]
    PROVE  Sound(h)'
<1>1. /\ req[h].tenant \in Tenants => req[h].tenant \in Used
      /\ req[h].manager \in Tenants => req[h].manager \in Used
  BY HeldTenants DEF Used
<1>2. req[h].step = "connected" => req[h].tenant \in Tenants
  BY DEF TypeInv, Attended
<1> QED
  BY <1>1, <1>2 DEF Sound, Frame, TypeInv, Attended

\* One that moves on knows it of what it holds from then on.
LEMMA SoundMove ==
    ASSUME TypeInv, Frame, NEW h \in Handlers, Sound(h),
           NEW step, NEW t, Keeping(h, step, t),
           t \in Tenants /\ step \notin {"evicting", "leaving"} => t \in pool' \union cut',
           step \in {"serving", "connected"} =>
              /\ Owner(t) = req[h].of
              /\ req[h].manager \in Tenants \ cut' => t = req[h].manager,
           step = "connected" => t \in linked' \union cut'
    PROVE  Sound(h)'
<1>1. req[h].manager \in Tenants => req[h].manager \in Used
  BY HeldTenants DEF Used
<1>2. req'[h] = [step |-> step, kind |-> req[h].kind, of |-> req[h].of,
                 manager |-> req[h].manager, tenant |-> t]
  BY DEF Keeping, Holding, TypeInv, TypeOK
<1> QED
  BY <1>1, <1>2 DEF Sound, Frame

LEMMA SoundAnswered ==
    ASSUME TypeInv, NEW h \in Handlers, Answered(h) PROVE Sound(h)'
BY DefaultIsNoTenant DEF Answered, NoRequest, Sound, TypeInv, TypeOK

LEMMA OneMoves ==
    ASSUME TypeInv, NEW h \in Handlers, NEW g \in Handlers \ {h}, NEW step, NEW m, NEW t,
           Holding(h, step, m, t) \/ Answered(h)
    PROVE  req'[g] = req[g]
BY DEF Holding, Answered, TypeInv, TypeOK

\* start_download keeps the manager of the tenant in the pool, or the default.
LEMMA ManagerFound ==
    ASSUME TypeInv, NEW h \in Handlers, FindManager(h)
    PROVE  \E m \in Managers, step \in {"cancelling", "asking"} :
              /\ Holding(h, step, m, Default)
              /\ m = Default \/ (m \in pool /\ Owner(m) = req[h].of)
<1> DEFINE m == IF InPool(req[h].of) THEN TenantOf(req[h].of) ELSE Default
           step == IF Running(m) THEN "cancelling" ELSE "asking"
<1>1. Holding(h, step, m, Default)
  BY DEF FindManager
<1>2. m = Default \/ (m \in pool /\ Owner(m) = req[h].of)
  BY TenantFound
<1>3. m \in Managers /\ step \in {"cancelling", "asking"}
  BY TenantFound DEF Managers, Default, TypeInv, TypeOK
<1> HIDE DEF m, step
<1> QED
  BY <1>1, <1>2, <1>3

LEMMA SoundStep ==
    ASSUME TypeInv, PoolInv, KeptInv, Frame, Next
    PROVE  \A h \in Handlers : Sound(h)'
<1> USE DEF KeptInv
<1>1. ASSUME NEW h \in Handlers, Sound(h)', NEW step, NEW m, NEW t,
             Holding(h, step, m, t) \/ Answered(h)
      PROVE  \A g \in Handlers : Sound(g)'
  <2>1. ASSUME NEW g \in Handlers \ {h} PROVE Sound(g)'
    BY <1>1, OneMoves, SoundFrame
  <2> QED
    BY <1>1, <2>1
<1>2. ASSUME req' = req PROVE \A g \in Handlers : Sound(g)'
  BY <1>2, SoundFrame
<1>3. ASSUME NEW h \in Handlers, Answered(h) PROVE \A g \in Handlers : Sound(g)'
  BY <1>1, <1>3, SoundAnswered
<1>4. ASSUME NEW h \in Handlers, NEW k \in Kinds, NEW s \in Sids, Arrive(h, k, s)
      PROVE  \A g \in Handlers : Sound(g)'
  <2>1. Sound(h)'
    BY <1>4, DefaultIsNoTenant DEF Arrive, Sound, TypeInv, TypeOK
  <2>2. ASSUME NEW g \in Handlers \ {h} PROVE req'[g] = req[g]
    BY <1>4 DEF Arrive, TypeInv, TypeOK
  <2> QED
    BY <2>1, <2>2, SoundFrame
<1>5. ASSUME NEW h \in Handlers, FindManager(h) PROVE \A g \in Handlers : Sound(g)'
  <2>1. PICK m \in Managers, step \in {"cancelling", "asking"} :
           /\ Holding(h, step, m, Default)
           /\ m = Default \/ (m \in pool /\ Owner(m) = req[h].of)
    BY <1>5, ManagerFound
  <2>2. /\ req'[h] = [step |-> step, kind |-> req[h].kind, of |-> req[h].of,
                      manager |-> m, tenant |-> Default]
        /\ UNCHANGED <<pool, cut>>
    BY <1>5, <2>1 DEF FindManager, Holding, TypeInv, TypeOK
  <2>3. Sound(h)'
    BY <2>1, <2>2, DefaultIsNoTenant DEF Sound
  <2> QED
    BY <1>1, <2>1, <2>3
<1>6. ASSUME NEW h \in Handlers, CancelOver(h) PROVE \A g \in Handlers : Sound(g)'
  <2>1. Sound(h)'
    BY <1>6, SoundMove DEF CancelOver, Goto, Sound
  <2> QED
    BY <1>1, <1>6, <2>1 DEF CancelOver, Goto, Keeping
<1>7. ASSUME NEW h \in Handlers, Hit(h) PROVE \A g \in Handlers : Sound(g)'
  <2>1. PICK t \in pool : Owner(t) = req[h].of /\ Keeping(h, "serving", t)
    <3>1. TenantOf(req[h].of) \in pool /\ Owner(TenantOf(req[h].of)) = req[h].of
      BY <1>7, TenantFound DEF Hit
    <3> QED
      BY <1>7, <3>1 DEF Hit
  <2>2. UNCHANGED <<pool, cut>>
    BY <1>7 DEF Hit
  <2>3. req[h].manager \in Tenants \ cut => t = req[h].manager
    BY <2>1 DEF Sound, PoolInv, PoolBounded
  <2>4. Sound(h)'
    BY <2>1, <2>2, <2>3, SoundMove
  <2> QED
    BY <1>1, <2>1, <2>4 DEF Keeping
<1>8. ASSUME NEW h \in Handlers, NEW t \in Tenants, Make(h, t), ~InPool(req[h].of)
      PROVE  \A g \in Handlers : Sound(g)'
  <2>1. req[h].manager \notin Tenants \ cut
    BY <1>8 DEF Sound, InPool
  <2>2. req[h].manager \in Tenants => req[h].manager # t
    BY <1>8, HeldTenants DEF Make, Unused
  <2>3. /\ Keeping(h, "serving", t) /\ Owner(t) = req[h].of
        /\ t \in pool' /\ cut' = cut \ {t}
    BY <1>8 DEF Make
  <2>4. Sound(h)'
    BY <2>1, <2>2, <2>3, SoundMove
  <2> QED
    BY <1>1, <2>3, <2>4 DEF Keeping
<1>9. ASSUME NEW h \in Handlers, NEW t \in Tenants, Create(h, t)
      PROVE  \A g \in Handlers : Sound(g)'
  BY <1>8, <1>9 DEF Create, Missing
<1>10. ASSUME NEW h \in Handlers, NEW t \in Tenants, EvictDone(h, t)
       PROVE  \A g \in Handlers : Sound(g)'
  <2>1. ~InPool(req[h].of)
    BY <1>10, SessionPoolAssumption DEF EvictDone, PoolInv, LockHeld
  <2> QED
    BY <1>8, <1>10, <2>1 DEF EvictDone
<1>11. ASSUME NEW h \in Handlers, NEW t \in Tenants, Evict(h, t)
       PROVE  \A g \in Handlers : Sound(g)'
  <2>1. Keeping(h, "evicting", t)
    BY <1>11 DEF Evict
  <2>2. Sound(h)'
    BY <2>1, SoundMove
  <2> QED
    BY <1>1, <2>1, <2>2 DEF Keeping
<1>12. ASSUME NEW h \in Handlers, Connect(h) PROVE \A g \in Handlers : Sound(g)'
  <2>1. /\ Keeping(h, "connected", req[h].tenant) /\ req[h].step = "serving"
        /\ linked' = linked \union {req[h].tenant} /\ UNCHANGED <<pool, cut>>
    BY <1>12 DEF Connect, Goto
  <2>2. Sound(h)'
    BY <2>1, SoundMove DEF Sound
  <2> QED
    BY <1>1, <2>1, <2>2 DEF Keeping
<1>13. ASSUME NEW h \in Handlers, LogoutPop(h) PROVE \A g \in Handlers : Sound(g)'
  <2>1. PICK t : Keeping(h, "leaving", t)
    BY <1>13 DEF LogoutPop
  <2>2. Sound(h)'
    BY <2>1, SoundMove
  <2> QED
    BY <1>1, <2>1, <2>2 DEF Keeping
<1> QED
  BY <1>2, <1>3, <1>4, <1>5, <1>6, <1>7, <1>9, <1>10, <1>11, <1>12, <1>13
     DEF Next, UsesLock, GoesOn, Refused, Full, Answer, SignedIn, StartJob, LoggedOut,
         JobEnds, Sweep, SweepClose, GrowIdle

LEMMA ApartStep == ASSUME TypeInv, PoolInv, KeptInv, Next PROVE Apart'
<1> USE DEF KeptInv, Apart
<1>1. ASSUME NEW h \in Handlers, NEW step, NEW m, NEW t,
             Holding(h, step, m, t) \/ Answered(h),
             step \in {"evicting", "leaving"} => t \notin pool',
             closing' = closing, pool' \subseteq pool
      PROVE  Apart'
  <2>1. ASSUME NEW g \in Handlers, req'[g].step \in {"evicting", "leaving"}
        PROVE  req'[g].tenant \notin pool'
    BY <1>1, <2>1, OneMoves DEF Holding, Answered, NoRequest, TypeInv, TypeOK
  <2> QED
    BY <1>1, <2>1
<1>2. ASSUME req' = req, closing' \intersect pool' = {}, pool' \subseteq pool PROVE Apart'
  BY <1>2
<1>3. ASSUME NEW h \in Handlers, NEW k \in Kinds, NEW s \in Sids, Arrive(h, k, s) PROVE Apart'
  BY <1>3 DEF Arrive, TypeInv, TypeOK
<1>4. ASSUME NEW h \in Handlers, FindManager(h) PROVE Apart'
  <2>1. PICK m \in Managers, step \in {"cancelling", "asking"} : Holding(h, step, m, Default)
    BY <1>4, ManagerFound
  <2> QED
    BY <1>1, <1>4, <2>1 DEF FindManager
<1>5. ASSUME NEW h \in Handlers, Hit(h) PROVE Apart'
  BY <1>1, <1>5 DEF Hit, Keeping
<1>6. ASSUME NEW h \in Handlers, NEW t \in Tenants, Make(h, t), closing' = closing
      PROVE  Apart'
  <2>1. t \notin Held /\ t \notin closing
    BY <1>6 DEF Make, Unused
  <2>2. pool' = pool \union {t} /\ Keeping(h, "serving", t)
    BY <1>6 DEF Make
  <2>3. ASSUME NEW g \in Handlers, req'[g].step \in {"evicting", "leaving"}
        PROVE  req'[g].tenant \notin pool'
    <3>1. g # h
      BY <2>2, <2>3 DEF Keeping, Holding, TypeInv, TypeOK
    <3>2. req'[g] = req[g]
      BY <2>2, <3>1, OneMoves DEF Keeping
    <3>3. req[g].tenant # t
      BY <2>1, HeldTenants
    <3> QED
      BY <2>2, <2>3, <3>2, <3>3
  <2> QED
    BY <1>6, <2>1, <2>2, <2>3
<1>7. ASSUME NEW h \in Handlers, NEW t \in Tenants, Evict(h, t) PROVE Apart'
  BY <1>1, <1>7 DEF Evict, Keeping, Pop
<1>8. ASSUME NEW h \in Handlers, LogoutPop(h) PROVE Apart'
  <2>1. PICK gone, t : /\ Pop(gone) /\ Keeping(h, "leaving", t)
                       /\ t \in gone \/ t = Default
    <3>1. InPool(req[h].of) =>
             TenantOf(req[h].of) \in {u \in pool : Owner(u) = req[h].of}
      BY TenantFound
    <3> QED
      BY <1>8, <3>1 DEF LogoutPop, InPool
  <2>2. t \notin pool'
    BY <2>1, DefaultIsNoTenant DEF Pop, TypeInv, TypeOK
  <2> QED
    BY <1>1, <1>8, <2>1, <2>2 DEF LogoutPop, Keeping, Pop
<1>9. CASE Sweep
  BY <1>2, <1>9 DEF Sweep, Pop
<1>10. ASSUME NEW t, SweepClose(t) PROVE Apart'
  BY <1>2, <1>10 DEF SweepClose
<1>11. ASSUME NEW h \in Handlers, CancelOver(h) \/ Connect(h) PROVE Apart'
  BY <1>1, <1>11 DEF CancelOver, Connect, Goto, Keeping
<1>12. ASSUME NEW h \in Handlers,
              \/ Refused(h) \/ Full(h) \/ Answer(h) \/ SignedIn(h) \/ StartJob(h)
              \/ LoggedOut(h)
       PROVE  Apart'
  <2>1. Answered(h) /\ UNCHANGED <<pool, closing>>
    BY <1>12 DEF Refused, Full, Answer, SignedIn, StartJob, LoggedOut
  <2>2. ASSUME NEW g \in Handlers, req'[g].step \in {"evicting", "leaving"}
        PROVE  req'[g].tenant \notin pool'
    BY <2>1, <2>2, OneMoves DEF Answered, NoRequest, TypeInv, TypeOK
  <2> QED
    BY <2>1, <2>2
<1>13. ASSUME NEW t, JobEnds(t) \/ GrowIdle(t) PROVE Apart'
  BY <1>2, <1>13 DEF JobEnds, GrowIdle
<1> QED
  BY <1>3, <1>4, <1>5, <1>6, <1>7, <1>8, <1>9, <1>10, <1>11, <1>12, <1>13
     DEF Next, UsesLock, GoesOn, Create, EvictDone

LEMMA JobsStep ==
    ASSUME TypeInv, PoolInv, KeptInv, Frame, Next PROVE JobsKeepTheirTenant'
<1> USE DEF KeptInv, JobsKeepTheirTenant
<1>1. ASSUME job' = job PROVE JobsKeepTheirTenant'
  <2>1. ASSUME NEW t \in Tenants, Running(t), t \notin cut' PROVE t \in pool' /\ t \in linked'
    <3>1. t \in Used
      BY <2>1 DEF Used
    <3>2. t \notin cut /\ t \in pool /\ t \in linked
      BY <2>1, <3>1 DEF Frame
    <3> QED
      BY <2>1, <3>1, <3>2 DEF Frame
  <2>2. ASSUME NEW t \in Tenants, Running(t), t \notin cut'
        PROVE  job[t].client = t /\ job[t].home
    <3>1. t \notin cut
      BY <2>2 DEF Frame, Used
    <3> QED
      BY <2>2, <3>1
  <2> QED
    BY <1>1, <2>1, <2>2 DEF Running
<1>2. ASSUME NEW h \in Handlers, StartJob(h) PROVE JobsKeepTheirTenant'
  <2> DEFINE m == req[h].manager
  <2>1. /\ job' = [job EXCEPT ![m] = [client |-> req[h].tenant, home |-> InPool(req[h].of)]]
        /\ UNCHANGED <<pool, linked, cut>> /\ req[h].step = "connected"
    BY <1>2 DEF StartJob
  <2>2. ASSUME m \in Tenants, m \notin cut
        PROVE  /\ m \in pool /\ m \in linked /\ InPool(req[h].of) /\ req[h].tenant = m
    BY <2>1, <2>2 DEF Sound, InPool
  <2>3. m \in Managers
    BY DEF TypeInv, TypeOK, Request
  <2>4. ASSUME NEW t \in Tenants, t # m PROVE job'[t] = job[t]
    BY <2>1, <2>4 DEF TypeInv, TypeOK
  <2>5. job'[m] = [client |-> req[h].tenant, home |-> InPool(req[h].of)]
    BY <2>1, <2>3 DEF TypeInv, TypeOK
  <2> HIDE DEF m
  <2>6. ASSUME NEW t \in Tenants, Running(t)', t \notin cut'
        PROVE  t \in pool' /\ t \in linked' /\ job'[t].client = t /\ job'[t].home
    <3>1. CASE t = m
      BY <2>1, <2>2, <2>5, <2>6, <3>1
    <3>2. CASE t # m
      BY <2>1, <2>4, <2>6, <3>2 DEF Running
    <3> QED
      BY <3>1, <3>2
  <2> QED
    BY <2>6
<1>3. ASSUME NEW m \in Managers, JobEnds(m) PROVE JobsKeepTheirTenant'
  BY <1>3 DEF JobEnds, NoJob, Running, TypeInv, TypeOK
<1> QED
  BY <1>1, <1>2, <1>3
     DEF Next, UsesLock, GoesOn, Arrive, FindManager, CancelOver, Hit, Refused, Full,
         Create, Evict, EvictDone, Connect, Answer, SignedIn, LogoutPop, LoggedOut,
         Sweep, SweepClose, GrowIdle

LEMMA InitKept == Init => KeptInv
BY DefaultIsNoTenant
   DEF Init, KeptInv, Sound, Apart, JobsKeepTheirTenant, NoRequest, Running, NoJob, Managers

LEMMA KeptInvariant == Spec => []KeptInv
<1>1. TypeInv /\ PoolInv /\ KeptInv /\ Next => KeptInv'
  <2> SUFFICES ASSUME TypeInv, PoolInv, KeptInv, Next PROVE KeptInv'
    OBVIOUS
  <2>1. Frame
    BY FrameStep DEF KeptInv
  <2> QED
    BY <2>1, SoundStep, ApartStep, JobsStep DEF KeptInv
<1>2. KeptInv /\ UNCHANGED vars => KeptInv'
  BY DEF KeptInv, Sound, Apart, JobsKeepTheirTenant, Running, vars
<1> QED
  BY <1>1, <1>2, InitKept, TypeInvariant, PoolInvariant, PTL DEF Spec

\* A job keeps its tenant in the pool and connected, and uses that tenant's
\* client and directory, for any number of visitors, unless the tenant left the
\* pool while a request held it or its visitor logged out.
THEOREM JobsStayAtHome == Spec => []JobsKeepTheirTenant
<1>1. KeptInv => JobsKeepTheirTenant
  BY DEF KeptInv
<1> QED
  BY <1>1, KeptInvariant, PTL

-----------------------------------------------------------------------------
(* Clients and session files.                                              *)

\* Nothing a step leaves behind is lost sight of.
Watched == pool \union closing \union Held \union cut
Watches ==
    /\ pool \subseteq Watched' /\ cut \subseteq cut' \union pool'
    /\ closing \intersect linked' \subseteq closing'
    /\ \A h \in Handlers : req[h].step \in {"evicting", "leaving"} =>
          req'[h] = req[h] \/ req[h].tenant \notin linked'
    /\ linked' \subseteq linked \union Held'

LEMMA WatchStep == ASSUME TypeInv, PoolInv, KeptInv, Next PROVE Watches
<1>1. ASSUME pool \subseteq pool' \union closing' \union cut', cut \subseteq cut' \union pool',
             closing \subseteq closing', linked' \subseteq linked,
             \A h \in Handlers : req[h].step \in {"evicting", "leaving"} => req'[h] = req[h]
      PROVE  Watches
  BY <1>1 DEF Watches, Watched
<1>2. ASSUME NEW h \in Handlers, NEW step, NEW m, NEW t,
             Holding(h, step, m, t) \/ Answered(h),
             req[h].step \notin {"evicting", "leaving"}
      PROVE  \A g \in Handlers : req[g].step \in {"evicting", "leaving"} => req'[g] = req[g]
  BY <1>2, OneMoves
<1>3. ASSUME NEW h \in Handlers, NEW k \in Kinds, NEW s \in Sids, Arrive(h, k, s) PROVE Watches
  <2>1. \A g \in Handlers : req[g].step \in {"evicting", "leaving"} => req'[g] = req[g]
    BY <1>3 DEF Arrive, NoRequest, TypeInv, TypeOK
  <2> QED
    BY <1>1, <1>3, <2>1 DEF Arrive
<1>4. ASSUME NEW h \in Handlers, FindManager(h) PROVE Watches
  <2>1. PICK m \in Managers, step \in {"cancelling", "asking"} : Holding(h, step, m, Default)
    BY <1>4, ManagerFound
  <2> QED
    BY <1>1, <1>2, <1>4, <2>1 DEF FindManager
<1>5. ASSUME NEW h \in Handlers, Hit(h) \/ CancelOver(h) PROVE Watches
  BY <1>1, <1>2, <1>5 DEF Hit, Asking, CancelOver, Goto, Keeping
<1>6. ASSUME NEW h \in Handlers, NEW t \in Tenants, Create(h, t) PROVE Watches
  <2>1. Keeping(h, "serving", t) /\ req[h].step = "asking"
    BY <1>6 DEF Create, Make, Missing, Asking
  <2> QED
    BY <1>1, <1>2, <1>6, <2>1 DEF Create, Make, Keeping
<1>7. ASSUME NEW h \in Handlers, NEW t \in Tenants, Evict(h, t) PROVE Watches
  <2>1. Keeping(h, "evicting", t) /\ req[h].step = "asking"
    BY <1>7 DEF Evict, Missing, Asking
  <2>2. \A g \in Handlers : req[g].step \in {"evicting", "leaving"} => req'[g] = req[g]
    BY <1>2, <2>1 DEF Keeping
  <2>3. t \in Held'
    BY <2>1, DefaultIsNoTenant DEF Keeping, Holding, Held, HeldBy, TypeInv, TypeOK
  <2> QED
    BY <1>7, <2>2, <2>3 DEF Evict, Pop, Watches, Watched
<1>8. ASSUME NEW h \in Handlers, NEW t \in Tenants, EvictDone(h, t) PROVE Watches
  <2>1. Keeping(h, "serving", t) /\ linked' = linked \ {t, req[h].tenant}
    BY <1>8 DEF EvictDone, Make
  <2>2. ASSUME NEW g \in Handlers PROVE req'[g] = req[g] \/ req[g].tenant \notin linked'
    BY <2>1, OneMoves DEF Keeping
  <2> QED
    BY <1>8, <2>1, <2>2 DEF EvictDone, Make, Watches, Watched
<1>9. ASSUME NEW h \in Handlers, Connect(h) PROVE Watches
  <2>1. /\ Keeping(h, "connected", req[h].tenant) /\ req[h].step = "serving"
        /\ linked' = linked \union {req[h].tenant} /\ UNCHANGED <<pool, closing, cut>>
    BY <1>9 DEF Connect, Goto
  <2>2. req[h].tenant \in Tenants
    BY <2>1 DEF TypeInv, Attended
  <2>3. req[h].tenant \in Held'
    BY <2>1, <2>2, DefaultIsNoTenant DEF Keeping, Holding, Held, HeldBy, TypeInv, TypeOK
  <2>4. \A g \in Handlers : req[g].step \in {"evicting", "leaving"} => req'[g] = req[g]
    BY <1>2, <2>1 DEF Keeping
  <2>5. closing \intersect linked' \subseteq closing'
    BY <2>1
  <2> QED
    BY <2>1, <2>3, <2>4, <2>5 DEF Watches, Watched
<1>10. ASSUME NEW h \in Handlers, LogoutPop(h) PROVE Watches
  <2>1. PICK t : Keeping(h, "leaving", t)
    BY <1>10 DEF LogoutPop
  <2>2. \A g \in Handlers : req[g].step \in {"evicting", "leaving"} => req'[g] = req[g]
    BY <1>2, <1>10, <2>1 DEF Keeping, LogoutPop, Asking
  <2> QED
    BY <1>1, <1>10, <2>2 DEF LogoutPop, Pop
<1>11. ASSUME NEW h \in Handlers, LoggedOut(h) PROVE Watches
  <2>1. ASSUME NEW g \in Handlers PROVE req'[g] = req[g] \/ req[g].tenant \notin linked'
    BY <1>11, OneMoves DEF LoggedOut
  <2> QED
    BY <1>11, <2>1 DEF LoggedOut, Watches, Watched
<1>12. CASE Sweep
  BY <1>1, <1>12 DEF Sweep, Pop
<1>13. ASSUME NEW t, SweepClose(t) PROVE Watches
  BY <1>13 DEF SweepClose, Watches, Watched
<1>14. ASSUME NEW h \in Handlers,
              Refused(h) \/ Full(h) \/ Answer(h) \/ SignedIn(h) \/ StartJob(h)
       PROVE  Watches
  BY <1>1, <1>2, <1>14 DEF Refused, Full, Missing, Asking, Answer, SignedIn, StartJob
<1>15. ASSUME NEW t, JobEnds(t) \/ GrowIdle(t) PROVE Watches
  BY <1>1, <1>15 DEF JobEnds, GrowIdle
<1> QED
  BY <1>3, <1>4, <1>5, <1>6, <1>7, <1>8, <1>9, <1>10, <1>11, <1>12, <1>13, <1>14, <1>15
     DEF Next, UsesLock, GoesOn

LEMMA ForgottenStep ==
    ASSUME TypeInv, PoolInv, KeptInv, NoForgottenClient, Watches PROVE NoForgottenClient'
<1> SUFFICES ASSUME NEW t \in linked' PROVE t \in Watched'
  BY DEF NoForgottenClient, Watched
<1>1. CASE t \in pool \union cut
  BY <1>1 DEF Watches, Watched
<1>2. CASE t \in closing
  BY <1>2 DEF Watches, Watched
<1>3. CASE t \in Held \ (pool \union cut)
  <2>1. PICK h \in Handlers : t \in {req[h].tenant, req[h].manager} \ {Default}
    BY <1>3 DEF Held, HeldBy
  <2>2. t \in Tenants
    BY <2>1 DEF TypeInv, TypeOK, Request, Managers, Default
  <2>3. t = req[h].tenant /\ req[h].step \in {"evicting", "leaving"}
    BY <1>3, <2>1, <2>2 DEF KeptInv, Sound
  <2>4. req'[h] = req[h]
    BY <2>3 DEF Watches
  <2> QED
    BY <2>1, <2>4 DEF Watched, Held, HeldBy
<1>4. CASE t \in Held'
  BY <1>4 DEF Watched
<1> QED
  BY <1>1, <1>2, <1>3, <1>4 DEF Watches, NoForgottenClient

\* A connected client belongs to the pool, to the sweep that closes it or to a
\* request, or it left the pool while a request held it: no interleaving of
\* evictions, sweeps, sign-ins and logouts leaves one that nobody disconnects.
THEOREM NoneForgotten == Spec => []NoForgottenClient
<1>1. Init => NoForgottenClient
  BY DEF Init, NoForgottenClient
<1>2. TypeInv /\ PoolInv /\ KeptInv /\ NoForgottenClient /\ Next => NoForgottenClient'
  BY WatchStep, ForgottenStep
<1>3. NoForgottenClient /\ UNCHANGED vars => NoForgottenClient'
  BY DEF NoForgottenClient, Held, HeldBy, vars
<1> QED
  BY <1>1, <1>2, <1>3, TypeInvariant, PoolInvariant, KeptInvariant, PTL DEF Spec

GhostInv == NoGhost /\ Remade

LEMMA GhostStep == ASSUME TypeInv, GhostInv, Next PROVE GhostInv'
<1> USE DEF GhostInv, NoGhost, Remade
<1>1. ASSUME UNCHANGED <<pool, saved, revived>>,
             \A h \in Handlers : req'[h].step = "leaving" =>
                req[h].step = "leaving" /\ req'[h].of = req[h].of
      PROVE  GhostInv'
  BY <1>1
<1>2. ASSUME NEW h \in Handlers, NEW step, NEW m, NEW t,
             (Holding(h, step, m, t) /\ step # "leaving") \/ Answered(h),
             NEW g \in Handlers, req'[g].step = "leaving"
      PROVE  g # h /\ req'[g] = req[g]
  <2>1. g # h
    BY <1>2 DEF Holding, Answered, NoRequest, TypeInv, TypeOK
  <2> QED
    BY <1>2, <2>1, OneMoves
<1>3. ASSUME NEW h \in Handlers, NEW k \in Kinds, NEW s \in Sids, Arrive(h, k, s)
      PROVE  GhostInv'
  BY <1>1, <1>3 DEF Arrive, TypeInv, TypeOK
<1>4. ASSUME NEW h \in Handlers, FindManager(h) PROVE GhostInv'
  <2>1. PICK m \in Managers, step \in {"cancelling", "asking"} : Holding(h, step, m, Default)
    BY <1>4, ManagerFound
  <2> QED
    BY <1>1, <1>2, <1>4, <2>1 DEF FindManager
<1>5. ASSUME NEW h \in Handlers, Hit(h) \/ CancelOver(h) \/ Connect(h) PROVE GhostInv'
  BY <1>1, <1>2, <1>5 DEF Hit, CancelOver, Connect, Goto, Keeping
<1>6. ASSUME NEW h \in Handlers, NEW t \in Tenants, Make(h, t) PROVE GhostInv'
  <2>1. ASSUME NEW g \in Handlers, req'[g].step = "leaving" PROVE req'[g] = req[g]
    BY <1>2, <1>6, <2>1 DEF Make, Keeping
  <2>2. /\ pool' = pool \union {t} /\ saved' = saved \union {Owner(t)}
        /\ revived \subseteq revived'
        /\ (\E g \in Handlers : req[g].step = "leaving" /\ req[g].of = Owner(t)) => t \in revived'
    BY <1>6 DEF Make
  <2> QED
    BY <2>1, <2>2
<1>7. ASSUME NEW h \in Handlers, NEW t \in Tenants, Evict(h, t) PROVE GhostInv'
  <2>1. ASSUME NEW g \in Handlers, req'[g].step = "leaving" PROVE req'[g] = req[g]
    BY <1>2, <1>7, <2>1 DEF Evict, Keeping
  <2> QED
    BY <1>7, <2>1 DEF Evict, Pop
<1>8. ASSUME NEW h \in Handlers, LogoutPop(h) PROVE GhostInv'
  <2>1. PICK t : Keeping(h, "leaving", t)
    BY <1>8 DEF LogoutPop
  <2>2. ASSUME NEW g \in Handlers, g # h PROVE req'[g] = req[g]
    BY <2>1, <2>2, OneMoves DEF Keeping
  <2>3. req'[h].of = req[h].of
    BY <2>1 DEF Keeping, Holding, TypeInv, TypeOK
  <2>4. Pop({u \in pool : Owner(u) = req[h].of}) /\ saved' = saved
    BY <1>8 DEF LogoutPop
  <2> QED
    BY <2>2, <2>3, <2>4 DEF Pop
<1>9. ASSUME NEW h \in Handlers, LoggedOut(h) PROVE GhostInv'
  <2>1. ASSUME NEW g \in Handlers, req'[g].step = "leaving" PROVE req'[g] = req[g]
    BY <1>2, <1>9, <2>1 DEF LoggedOut
  <2> QED
    BY <1>9, <2>1 DEF LoggedOut
<1>10. CASE Sweep
  BY <1>10 DEF Sweep, Pop
<1>11. ASSUME NEW h \in Handlers,
              Refused(h) \/ Full(h) \/ Answer(h) \/ SignedIn(h) \/ StartJob(h)
       PROVE  GhostInv'
  BY <1>1, <1>2, <1>11 DEF Refused, Full, Answer, SignedIn, StartJob
<1>12. ASSUME NEW t, JobEnds(t) \/ SweepClose(t) \/ GrowIdle(t) PROVE GhostInv'
  BY <1>1, <1>12 DEF JobEnds, SweepClose, GrowIdle
<1> QED
  BY <1>3, <1>4, <1>5, <1>6, <1>7, <1>8, <1>9, <1>10, <1>11, <1>12
     DEF Next, UsesLock, GoesOn, Create, EvictDone

\* A tenant in the pool has its session file, except one made while a logout of
\* the same visitor was under way.
THEOREM FilesStay == Spec => []NoGhost
<1>1. Init => GhostInv
  BY DEF Init, GhostInv, NoGhost, Remade, NoRequest
<1>2. GhostInv /\ UNCHANGED vars => GhostInv'
  BY DEF GhostInv, NoGhost, Remade, vars
<1>3. GhostInv => NoGhost
  BY DEF GhostInv
<1> QED
  BY <1>1, <1>2, <1>3, GhostStep, TypeInvariant, PTL DEF Spec
=============================================================================
