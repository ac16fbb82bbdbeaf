-------------------------- MODULE ApiWorkers_proofs --------------------------
(***************************************************************************)
(* Theorems about ApiWorkers, for any numbers of workers and restarts, any *)
(* limits and any length of the window.                                    *)
(***************************************************************************)
EXTENDS ApiWorkers, FiniteSetTheorems, TLAPS

LEMMA LimitType ==
  /\ Routes = {"onboard", "webhook"}
  /\ \A r \in Routes : Limit[r] \in Nat \ {0}
  /\ Window \in Nat \ {0}
  BY LimitsAssumption DEF Routes

-----------------------------------------------------------------------------
(* OneTenantPerLife.  A number is answered is_new only by a worker that    *)
(* does not know it, and a worker forgets only by a restart.               *)

NotKnowing(n) == {w \in Workers : n \notin known[w]}

TenantInv ==
  /\ known \in [Workers -> SUBSET Numbers]
  /\ news \in [Numbers -> Nat]
  /\ restarts \in Nat
  /\ \A n \in Numbers :
       news[n] + Cardinality(NotKnowing(n)) <= Cardinality(Workers) + restarts

(* Sets of workers are finite.                                             *)
LEMMA WorkerSets ==
  ASSUME NEW S \in SUBSET Workers
  PROVE  /\ Cardinality(S) \in Nat
         /\ \A T \in SUBSET S : Cardinality(T) <= Cardinality(S)
         /\ \A w \in Workers : Cardinality(S \cup {w}) <= Cardinality(S) + 1
         /\ \A w \in S : Cardinality(S \ {w}) = Cardinality(S) - 1
<1>1. IsFiniteSet(S) /\ Cardinality(S) \in Nat
  BY WorkersAssumption, FS_Subset, FS_CardinalityType
<1>2. \A w \in Workers : Cardinality(S \cup {w}) = IF w \in S THEN Cardinality(S) ELSE Cardinality(S) + 1
  BY <1>1, FS_AddElement
<1>3. QED
  BY <1>1, <1>2, FS_Subset, FS_RemoveElement

LEMMA InitTenants == Init => TenantInv
<1> SUFFICES ASSUME Init PROVE TenantInv
  OBVIOUS
<1>1. \A n \in Numbers : NotKnowing(n) = Workers
  BY DEF Init, NotKnowing
<1>2. Cardinality(Workers) \in Nat
  BY WorkerSets
<1>3. \A n \in Numbers : Cardinality(NotKnowing(n)) = Cardinality(Workers)
  BY <1>1
<1>4. QED
  BY <1>2, <1>3 DEF Init, TenantInv

LEMMA StepTenants == TenantInv /\ [Next]_vars => TenantInv'
<1> SUFFICES ASSUME TenantInv, [Next]_vars PROVE TenantInv'
  OBVIOUS
<1>1. Cardinality(Workers) \in Nat /\ restarts \in Nat
  BY WorkerSets DEF TenantInv
<1>2. ASSUME UNCHANGED <<known, news, restarts>> PROVE TenantInv'
  BY <1>2 DEF TenantInv, NotKnowing
<1>3. ASSUME NEW w \in Workers, NEW n \in Numbers, ConnectWhatsapp(w, n) PROVE TenantInv'
  <2>1. /\ news' = IF n \in known[w] THEN news ELSE [news EXCEPT ![n] = @ + 1]
        /\ known' = [known EXCEPT ![w] = @ \cup {n}]
        /\ restarts' = restarts
    BY <1>3 DEF ConnectWhatsapp
  <2>2. known' \in [Workers -> SUBSET Numbers] /\ news' \in [Numbers -> Nat]
    BY <2>1 DEF TenantInv
  <2>3. ASSUME NEW k \in Numbers
        PROVE  news'[k] + Cardinality(NotKnowing(k)') <= Cardinality(Workers) + restarts
    <3> DEFINE S == NotKnowing(k)
               T == NotKnowing(k)'
    <3>1. /\ news[k] + Cardinality(S) <= Cardinality(Workers) + restarts
          /\ news[k] \in Nat
      BY DEF TenantInv
    <3>2. S \in SUBSET Workers /\ T \in SUBSET S
      BY <2>1 DEF NotKnowing, TenantInv
    <3>3. Cardinality(S) \in Nat /\ Cardinality(T) \in Nat /\ Cardinality(T) <= Cardinality(S)
      BY <3>2, WorkerSets
    <3>4. CASE news'[k] = news[k]
      BY <1>1, <3>1, <3>3, <3>4
    <3>5. CASE news'[k] # news[k]
      <4>1. k = n /\ n \notin known[w] /\ news'[k] = news[k] + 1
        BY <2>1, <3>5 DEF TenantInv
      <4>2. w \in S /\ T \in SUBSET (S \ {w})
        BY <2>1, <4>1 DEF NotKnowing, TenantInv
      <4>3. Cardinality(S \ {w}) = Cardinality(S) - 1
        BY <3>2, <4>2, WorkerSets
      <4>4. Cardinality(T) <= Cardinality(S \ {w})
        <5>1. S \ {w} \in SUBSET Workers
          BY <3>2
        <5>2. QED
          BY <4>2, <5>1, WorkerSets
      <4>5. QED
        BY <1>1, <3>1, <3>3, <4>1, <4>3, <4>4
    <3>6. QED
      BY <3>4, <3>5
  <2>4. QED
    BY <1>1, <2>1, <2>2, <2>3 DEF TenantInv
<1>4. ASSUME NEW w \in Workers, Restart(w) PROVE TenantInv'
  <2>1. /\ restarts' = restarts + 1 /\ news' = news
        /\ known' = [known EXCEPT ![w] = {}]
    BY <1>4 DEF Restart
  <2>2. ASSUME NEW k \in Numbers
        PROVE  news'[k] + Cardinality(NotKnowing(k)') <= Cardinality(Workers) + restarts'
    <3>1. NotKnowing(k) \in SUBSET Workers /\ NotKnowing(k)' = NotKnowing(k) \cup {w}
      BY <2>1 DEF NotKnowing, TenantInv
    <3>2. /\ Cardinality(NotKnowing(k) \cup {w}) <= Cardinality(NotKnowing(k)) + 1
          /\ NotKnowing(k) \cup {w} \in SUBSET Workers
          /\ Cardinality(NotKnowing(k)) \in Nat
      BY <3>1, WorkerSets
    <3>3. Cardinality(NotKnowing(k) \cup {w}) \in Nat
      BY <3>2, WorkerSets
    <3>4. news[k] + Cardinality(NotKnowing(k)) <= Cardinality(Workers) + restarts /\ news[k] \in Nat
      BY DEF TenantInv
    <3>5. Cardinality(NotKnowing(k)') = Cardinality(NotKnowing(k) \cup {w})
      BY <3>1, Zenon
    <3>6. QED
      BY <1>1, <2>1, <3>2, <3>3, <3>4, <3>5
  <2>3. QED
    BY <1>1, <2>1, <2>2 DEF TenantInv
<1>5. QED
  BY <1>2, <1>3, <1>4 DEF Next, Tick, WebhookReceive, Refuses, StorageFails, vars

(* However often Meta repeats a sign-up callback, and to whatever workers, *)
(* a number is answered is_new at most once in each life of a worker.      *)
THEOREM OneTenantPerLifeThm == Spec => []OneTenantPerLife
<1>1. TenantInv => OneTenantPerLife
  <2> SUFFICES ASSUME TenantInv, NEW n \in Numbers
               PROVE  news[n] <= Cardinality(Workers) + restarts
    BY DEF OneTenantPerLife, Lives
  <2>1. NotKnowing(n) \in SUBSET Workers
    BY DEF NotKnowing
  <2>2. Cardinality(NotKnowing(n)) \in Nat /\ Cardinality(Workers) \in Nat
    BY <2>1, WorkerSets
  <2>3. QED
    BY <2>2 DEF TenantInv
<1>2. QED
  BY <1>1, InitTenants, StepTenants, PTL DEF Spec

-----------------------------------------------------------------------------
(* AcceptedPerWindow.  Of a route's window that began a ticks ago, all     *)
(* accepted requests lie within the latest a + 1 ticks, and all but the    *)
(* first one within the latest a; before it, less than a limit's worth     *)
(* lies within the time the limiter forgot.                                *)

Within(c, recentR, limit) ==
  LET admitted == IF c.hits <= limit THEN c.hits ELSE limit
      age == Window - c.left
  IN IF c.left = 0
     THEN recentR[1] = 0 /\ \A i \in 1 .. Window : recentR[i] <= limit - 1
     ELSE /\ c.hits >= 1
          /\ recentR[age + 1] <= admitted
          /\ \A i \in 1 .. Window :
               /\ i <= age => recentR[i] <= admitted - 1
               /\ i > age + 1 => recentR[i] <= recentR[age + 1] + limit - 1

LimiterType ==
  /\ limiter \in [Routes -> [hits : Nat, left : 0 .. Window]]
  /\ recent \in [Routes -> [1 .. Window -> Nat]]

LimiterInv ==
  /\ LimiterType
  /\ \A r \in Routes : Within(limiter[r], recent[r], Limit[r])

LEMMA UnusedWithin ==
  ASSUME NEW limit \in Nat \ {0}
  PROVE  /\ Unused \in [hits : Nat, left : 0 .. Window]
         /\ Nothing \in [1 .. Window -> Nat]
         /\ Within(Unused, Nothing, limit)
  BY LimitType DEF Unused, Nothing, Within

(* The laws of one counter, one for each thing that happens to it.         *)
LEMMA HitAccepted ==
  ASSUME NEW limit \in Nat \ {0}, NEW hits \in Nat, NEW left \in 0 .. Window,
         NEW R \in [1 .. Window -> Nat],
         Within([hits |-> hits, left |-> left], R, limit),
         NEW c \in [hits : Nat, left : 0 .. Window],
         c = IF left = 0 THEN [hits |-> 1, left |-> Window] ELSE [hits |-> hits + 1, left |-> left],
         c.hits <= limit
  PROVE  Within(c, [i \in 1 .. Window |-> R[i] + 1], limit)
<1> DEFINE Q == [i \in 1 .. Window |-> R[i] + 1]
<1>1. Window \in Nat \ {0}
  BY LimitType
<1>2. \A i \in 1 .. Window : R[i] \in Nat /\ Q[i] = R[i] + 1
  OBVIOUS
<1> HIDE DEF Q
<1>3. CASE left = 0
  <2>1. c.hits = 1 /\ c.left = Window /\ Window - c.left + 1 = 1 /\ 1 \in 1 .. Window
    BY <1>1, <1>3
  <2>2. R[1] = 0 /\ \A i \in 1 .. Window : R[i] <= limit - 1
    BY <1>3 DEF Within
  <2>3. Q[1] = 1 /\ \A i \in 1 .. Window : Q[i] <= Q[1] + limit - 1
    BY <1>2, <2>1, <2>2
  <2>4. QED
    BY <1>1, <2>1, <2>3 DEF Within, Q
<1>4. CASE left # 0
  <2> DEFINE age == Window - left
  <2>1. c.hits = hits + 1 /\ c.left = left /\ hits + 1 <= limit
    BY <1>4
  <2>2. age + 1 \in 1 .. Window
    BY <1>1, <1>4
  <2>3. /\ hits >= 1
        /\ R[age + 1] <= hits
        /\ \A i \in 1 .. Window : /\ i <= age => R[i] <= hits - 1
                                  /\ i > age + 1 => R[i] <= R[age + 1] + limit - 1
    BY <1>4, <2>1 DEF Within
  <2>4. /\ Q[age + 1] <= hits + 1
        /\ \A i \in 1 .. Window : /\ i <= age => Q[i] <= hits
                                  /\ i > age + 1 => Q[i] <= Q[age + 1] + limit - 1
    BY <1>2, <2>2, <2>3
  <2>5. QED
    BY <1>4, <2>1, <2>4 DEF Within, Q
<1>5. QED
  BY <1>3, <1>4


LEMMA HitRefused ==
  ASSUME NEW limit \in Nat \ {0}, NEW hits \in Nat, NEW left \in 0 .. Window, left # 0,
         NEW R \in [1 .. Window -> Nat],
         Within([hits |-> hits, left |-> left], R, limit)
  PROVE  Within([hits |-> hits + 1, left |-> left], R, limit)
<1> DEFINE age == Window - left
           admitted == IF hits <= limit THEN hits ELSE limit
           later == IF hits + 1 <= limit THEN hits + 1 ELSE limit
<1>1. Window \in Nat \ {0} /\ age + 1 \in 1 .. Window /\ \A i \in 1 .. Window : R[i] \in Nat
  BY LimitType
<1>2. /\ hits >= 1
      /\ R[age + 1] <= admitted
      /\ \A i \in 1 .. Window : /\ i <= age => R[i] <= admitted - 1
                                /\ i > age + 1 => R[i] <= R[age + 1] + limit - 1
  BY DEF Within
<1>3. admitted <= later /\ admitted \in Nat /\ later \in Nat
  OBVIOUS
<1> HIDE DEF admitted, later, age
<1>4. /\ R[age + 1] <= later
      /\ \A i \in 1 .. Window : i <= age => R[i] <= later - 1
  BY <1>1, <1>2, <1>3
<1>5. QED
  BY <1>2, <1>4 DEF Within, later, age

(* A window may begin with a hit that is not accepted.                     *)
LEMMA HitLost ==
  ASSUME NEW limit \in Nat \ {0}, NEW hits \in Nat, NEW left \in 0 .. Window, left = 0,
         NEW R \in [1 .. Window -> Nat],
         Within([hits |-> hits, left |-> left], R, limit)
  PROVE  Within([hits |-> 1, left |-> Window], R, limit)
<1>1. Window \in Nat \ {0} /\ 1 \in 1 .. Window /\ \A i \in 1 .. Window : R[i] \in Nat
  BY LimitType
<1>2. R[1] = 0 /\ \A i \in 1 .. Window : R[i] <= limit - 1
  BY DEF Within
<1>3. Window - Window = 0 /\ \A i \in 1 .. Window : R[i] <= R[1] + limit - 1
  BY <1>1, <1>2
<1>4. QED
  BY <1>1, <1>2, <1>3 DEF Within

LEMMA TimePasses ==
  ASSUME NEW limit \in Nat \ {0}, NEW hits \in Nat, NEW left \in 0 .. Window,
         NEW R \in [1 .. Window -> Nat],
         Within([hits |-> hits, left |-> left], R, limit)
  PROVE  Within(IF left <= 1 THEN Unused ELSE [hits |-> hits, left |-> left - 1],
                [i \in 1 .. Window |-> IF i = 1 THEN 0 ELSE R[i - 1]], limit)
<1> DEFINE Q == [i \in 1 .. Window |-> IF i = 1 THEN 0 ELSE R[i - 1]]
           age == Window - left
           admitted == IF hits <= limit THEN hits ELSE limit
<1>1. Window \in Nat \ {0} /\ \A i \in 1 .. Window : R[i] \in Nat
  BY LimitType
<1>2. Q[1] = 0 /\ \A i \in 1 .. Window : i # 1 => i - 1 \in 1 .. Window /\ Q[i] = R[i - 1]
  BY <1>1
<1> HIDE DEF Q
<1>3. CASE left = 0
  <2>1. \A i \in 1 .. Window : R[i] <= limit - 1
    BY <1>3 DEF Within
  <2>2. \A i \in 1 .. Window : Q[i] <= limit - 1
    BY <1>1, <1>2, <2>1
  <2>3. QED
    BY <1>2, <1>3, <2>2 DEF Within, Unused, Q
<1>4. ASSUME left # 0
      PROVE  /\ hits >= 1
             /\ R[age + 1] <= admitted
             /\ \A i \in 1 .. Window : /\ i <= age => R[i] <= admitted - 1
                                       /\ i > age + 1 => R[i] <= R[age + 1] + limit - 1
  BY <1>4 DEF Within
<1>5. admitted \in Nat /\ admitted <= limit /\ (hits >= 1 => admitted >= 1)
  OBVIOUS
<1> HIDE DEF admitted
<1>6. CASE left = 1
  <2>1. age = Window - 1
    BY <1>6
  <2>2. \A i \in 1 .. Window : i # 1 => R[i - 1] <= admitted - 1
    BY <1>1, <1>2, <1>4, <1>6, <2>1
  <2>3. \A i \in 1 .. Window : Q[i] <= limit - 1
    <3> SUFFICES ASSUME NEW i \in 1 .. Window PROVE Q[i] <= limit - 1
      OBVIOUS
    <3>1. CASE i = 1
      BY <1>2, <3>1
    <3>2. CASE i # 1
      BY <1>1, <1>2, <1>5, <2>2, <3>2
    <3>3. QED
      BY <3>1, <3>2
  <2>4. QED
    BY <1>2, <1>6, <2>3 DEF Within, Unused, Q
<1>7. CASE left > 1
  <2> DEFINE later == Window - (left - 1)
  <2>1. /\ later = age + 1 /\ age + 1 \in 1 .. Window /\ later + 1 \in 1 .. Window
        /\ later + 1 # 1 /\ later + 1 - 1 = age + 1
    BY <1>1, <1>7
  <2>2. Q[later + 1] = R[age + 1]
    BY <1>2, <2>1
  <2>3. hits >= 1 /\ Q[later + 1] <= admitted
    BY <1>4, <1>7, <2>2
  <2>4. ASSUME NEW i \in 1 .. Window
        PROVE  /\ i <= later => Q[i] <= admitted - 1
               /\ i > later + 1 => Q[i] <= Q[later + 1] + limit - 1
    <3>1. CASE i = 1
      BY <1>1, <1>2, <1>5, <2>1, <2>3, <3>1
    <3>2. CASE i # 1
      <4>1. /\ i - 1 \in 1 .. Window /\ Q[i] = R[i - 1]
            /\ i <= later => i - 1 <= age
            /\ i > later + 1 => i - 1 > age + 1
        BY <1>1, <1>2, <2>1, <3>2
      <4>2. QED
        BY <1>4, <1>7, <2>2, <4>1
    <3>3. QED
      BY <3>1, <3>2
  <2> HIDE DEF age
  <2>5. QED
    BY <1>7, <2>3, <2>4 DEF Within, admitted, Q
<1>8. QED
  BY <1>3, <1>6, <1>7


LEMMA InitLimiter == Init => LimiterInv
<1> SUFFICES ASSUME Init PROVE LimiterInv
  OBVIOUS
<1>1. \A r \in Routes : Within(Unused, Nothing, Limit[r])
  BY LimitType, UnusedWithin
<1>2. Unused \in [hits : Nat, left : 0 .. Window] /\ Nothing \in [1 .. Window -> Nat]
  BY UnusedWithin
<1>3. QED
  BY <1>1, <1>2 DEF Init, LimiterInv, LimiterType

(* A counter as the record of its fields.                                  *)
LEMMA CounterFields ==
  ASSUME LimiterType, NEW r \in Routes
  PROVE  /\ limiter[r] = [hits |-> limiter[r].hits, left |-> limiter[r].left]
         /\ limiter[r].hits \in Nat /\ limiter[r].left \in 0 .. Window
         /\ recent[r] \in [1 .. Window -> Nat]
         /\ Limit[r] \in Nat \ {0}
<1>1. limiter[r] \in [hits : Nat, left : 0 .. Window] /\ recent[r] \in [1 .. Window -> Nat]
  BY DEF LimiterType
<1>2. QED
  BY <1>1, LimitType

(* What a hit makes of a counter.                                          *)
LEMMA CountedCases ==
  ASSUME LimiterType, NEW r \in Routes
  PROVE  LET c == limiter[r] IN
         /\ Counted(r) \in [hits : Nat, left : 0 .. Window]
         /\ c.left = 0 => Counted(r) = [hits |-> 1, left |-> Window]
         /\ c.left # 0 /\ c.hits <= Limit[r] => Counted(r) = [hits |-> c.hits + 1, left |-> c.left]
         /\ c.left # 0 /\ c.hits > Limit[r] => Counted(r) = c
<1> DEFINE c == limiter[r]
<1>1. c \in [hits : Nat, left : 0 .. Window] /\ c = [hits |-> c.hits, left |-> c.left]
      /\ c.hits \in Nat /\ c.left \in 0 .. Window
      /\ Limit[r] \in Nat \ {0} /\ Window \in Nat \ {0}
  BY CounterFields, LimitType DEF LimiterType
<1>2. Counted(r) = IF c.left = 0 THEN [hits |-> 1, left |-> Window]
                      ELSE [c EXCEPT !.hits = IF c.hits > Limit[r] THEN c.hits ELSE c.hits + 1]
  BY DEF Counted
<1> HIDE DEF c
<1>3. CASE c.left = 0
  <2>1. Counted(r) = [hits |-> 1, left |-> Window]
    BY <1>2, <1>3
  <2>2. QED
    BY <1>1, <1>3, <2>1 DEF c
<1>4. CASE c.left # 0 /\ c.hits <= Limit[r]
  <2>1. Counted(r) = [c EXCEPT !.hits = c.hits + 1]
    BY <1>1, <1>2, <1>4
  <2>2. [c EXCEPT !.hits = c.hits + 1] = [hits |-> c.hits + 1, left |-> c.left]
    BY <1>1
  <2>3. QED
    BY <1>1, <1>4, <2>1, <2>2 DEF c
<1>5. CASE c.left # 0 /\ c.hits > Limit[r]
  <2>1. Counted(r) = [c EXCEPT !.hits = c.hits]
    BY <1>1, <1>2, <1>5
  <2>2. [c EXCEPT !.hits = c.hits] = c
    BY <1>1
  <2>3. QED
    BY <1>1, <1>5, <2>1, <2>2 DEF c
<1>6. QED
  BY <1>1, <1>3, <1>4, <1>5 DEF c

LEMMA StepLimiter == LimiterInv /\ [Next]_vars => LimiterInv'
<1> SUFFICES ASSUME LimiterInv, [Next]_vars PROVE LimiterInv'
  OBVIOUS
<1>1. LimiterType /\ Window \in Nat \ {0}
  BY LimitType DEF LimiterInv
<1>2. \A r \in Routes : Within(limiter[r], recent[r], Limit[r])
  BY DEF LimiterInv
<1>3. ASSUME UNCHANGED <<limiter, recent>> PROVE LimiterInv'
  BY <1>1, <1>2, <1>3 DEF LimiterInv, LimiterType
<1>4. ASSUME NEW r \in Routes, Accepts(r) PROVE LimiterInv'
  <2> DEFINE c == Counted(r)
             more == [i \in 1 .. Window |-> recent[r][i] + 1]
  <2>1. /\ c.hits <= Limit[r]
        /\ limiter' = [limiter EXCEPT ![r] = c]
        /\ recent' = [recent EXCEPT ![r] = more]
    BY <1>4 DEF Accepts, Hit, OneMore
  <2>2. /\ c \in [hits : Nat, left : 0 .. Window]
        /\ recent[r] \in [1 .. Window -> Nat]
    BY <1>1, CountedCases, CounterFields
  <2>3. more \in [1 .. Window -> Nat]
    <3> DEFINE R == recent[r]
    <3>1. R \in [1 .. Window -> Nat]
      BY <2>2
    <3> HIDE DEF R
    <3>2. \A i \in 1 .. Window : R[i] + 1 \in Nat
      BY <3>1
    <3>3. QED
      BY <3>2 DEF R
  <2>4. Within(c, more, Limit[r])
    <3> DEFINE hits == limiter[r].hits
               left == limiter[r].left
    <3>1. /\ hits \in Nat /\ left \in 0 .. Window /\ Limit[r] \in Nat \ {0}
          /\ Within([hits |-> hits, left |-> left], recent[r], Limit[r])
      BY <1>1, <1>2, CounterFields
    <3>2. c = IF left = 0 THEN [hits |-> 1, left |-> Window] ELSE [hits |-> hits + 1, left |-> left]
      <4>1. CASE left # 0 /\ hits > Limit[r]
        <5>1. c.hits = hits
          BY <1>1, <4>1, CountedCases
        <5>2. QED
          BY <2>1, <3>1, <4>1, <5>1
      <4>2. CASE ~ (left # 0 /\ hits > Limit[r])
        BY <1>1, <3>1, <4>2, CountedCases
      <4>3. QED
        BY <4>1, <4>2
    <3> HIDE DEF hits, left, c
    <3>3. QED
      BY <2>1, <2>2, <3>1, <3>2, HitAccepted
  <2> HIDE DEF c, more
  <2>5. LimiterType'
    BY <1>1, <2>1, <2>2, <2>3 DEF LimiterType
  <2>6. ASSUME NEW s \in Routes
        PROVE  Within(limiter'[s], recent'[s], Limit[s])
    <3>1. CASE s = r
      <4>1. limiter'[s] = c /\ recent'[s] = more
        BY <1>1, <2>1, <3>1 DEF LimiterType
      <4>2. QED
        BY <2>4, <3>1, <4>1
    <3>2. CASE s # r
      <4>1. limiter'[s] = limiter[s] /\ recent'[s] = recent[s]
        BY <1>1, <2>1, <3>2 DEF LimiterType
      <4>2. QED
        BY <1>2, <4>1
    <3>3. QED
      BY <3>1, <3>2
  <2>7. QED
    BY <2>5, <2>6 DEF LimiterInv
<1>5. ASSUME NEW r \in Routes, Hit(r), UNCHANGED recent PROVE LimiterInv'
  <2> DEFINE c == Counted(r)
             hits == limiter[r].hits
             left == limiter[r].left
  <2>1. /\ limiter' = [limiter EXCEPT ![r] = c]
        /\ recent' = recent
    BY <1>5 DEF Hit
  <2>2. /\ c \in [hits : Nat, left : 0 .. Window]
        /\ limiter[r] = [hits |-> hits, left |-> left]
        /\ hits \in Nat /\ left \in 0 .. Window /\ Limit[r] \in Nat \ {0}
        /\ recent[r] \in [1 .. Window -> Nat]
        /\ Within([hits |-> hits, left |-> left], recent[r], Limit[r])
    BY <1>1, <1>2, CountedCases, CounterFields
  <2>3. /\ left = 0 => c = [hits |-> 1, left |-> Window]
        /\ left # 0 /\ hits <= Limit[r] => c = [hits |-> hits + 1, left |-> left]
        /\ left # 0 /\ hits > Limit[r] => c = [hits |-> hits, left |-> left]
    BY <1>1, <2>2, CountedCases
  <2> HIDE DEF c, hits, left
  <2>4. Window \in Nat \ {0} /\ 1 \in 1 .. Window
    BY <1>1
  <2>5. Within(c, recent[r], Limit[r])
    <3>1. CASE left = 0
      <4>1. Within([hits |-> 1, left |-> Window], recent[r], Limit[r])
        BY <2>2, <3>1, HitLost
      <4>2. QED
        BY <2>3, <3>1, <4>1
    <3>2. CASE left # 0 /\ hits <= Limit[r]
      <4>1. c = [hits |-> hits + 1, left |-> left]
        BY <2>3, <3>2
      <4>2. Within([hits |-> hits + 1, left |-> left], recent[r], Limit[r])
        BY <2>2, <3>2, HitRefused
      <4>3. QED
        BY <4>1, <4>2
    <3>3. CASE left # 0 /\ hits > Limit[r]
      BY <2>2, <2>3, <3>3
    <3>4. QED
      BY <2>2, <3>1, <3>2, <3>3
  <2>6. LimiterType'
    BY <1>1, <2>1, <2>2 DEF LimiterType
  <2>7. ASSUME NEW s \in Routes
        PROVE  Within(limiter'[s], recent'[s], Limit[s])
    <3>1. CASE s = r
      <4>1. limiter'[s] = c /\ recent'[s] = recent[r]
        BY <1>1, <2>1, <3>1 DEF LimiterType
      <4>2. QED
        BY <2>5, <3>1, <4>1
    <3>2. CASE s # r
      <4>1. limiter'[s] = limiter[s] /\ recent'[s] = recent[s]
        BY <1>1, <2>1, <3>2 DEF LimiterType
      <4>2. QED
        BY <1>2, <4>1
    <3>3. QED
      BY <3>1, <3>2
  <2>8. QED
    BY <2>6, <2>7 DEF LimiterInv
<1>6. ASSUME Tick PROVE LimiterInv'
  <2>1. ASSUME NEW r \in Routes
        PROVE  /\ limiter'[r] \in [hits : Nat, left : 0 .. Window]
               /\ recent'[r] \in [1 .. Window -> Nat]
               /\ Within(limiter'[r], recent'[r], Limit[r])
    <3> DEFINE hits == limiter[r].hits
               left == limiter[r].left
               R == recent[r]
               Q == [i \in 1 .. Window |-> IF i = 1 THEN 0 ELSE R[i - 1]]
               d == IF left <= 1 THEN Unused ELSE [hits |-> hits, left |-> left - 1]
    <3>1. /\ limiter[r] = [hits |-> hits, left |-> left]
          /\ hits \in Nat /\ left \in 0 .. Window /\ Limit[r] \in Nat \ {0}
          /\ R \in [1 .. Window -> Nat]
          /\ Within([hits |-> hits, left |-> left], R, Limit[r])
      BY <1>1, <1>2, CounterFields
    <3>2. /\ limiter'[r] = IF left <= 1 THEN Unused ELSE [limiter[r] EXCEPT !.left = left - 1]
          /\ recent'[r] = Q
      BY <1>6 DEF Tick
    <3> HIDE DEF hits, left, R
    <3>3. limiter'[r] = d
      <4>1. [limiter[r] EXCEPT !.left = left - 1] = [hits |-> hits, left |-> left - 1]
        BY <3>1
      <4>2. QED
        BY <3>2, <4>1
    <3>4. Within(d, Q, Limit[r])
      BY <3>1, TimePasses
    <3>5. d \in [hits : Nat, left : 0 .. Window] /\ Q \in [1 .. Window -> Nat]
      BY <1>1, <3>1, UnusedWithin, LimitType
    <3> HIDE DEF d, Q
    <3>6. QED
      BY <3>2, <3>3, <3>4, <3>5
  <2>2. /\ limiter' = [r \in Routes |-> limiter'[r]]
        /\ recent' = [r \in Routes |-> recent'[r]]
    BY <1>6 DEF Tick
  <2>3. LimiterType'
    <3>1. limiter' \in [Routes -> [hits : Nat, left : 0 .. Window]]
      BY <2>1, <2>2
    <3>2. recent' \in [Routes -> [1 .. Window -> Nat]]
      BY <2>1, <2>2
    <3>3. QED
      BY <3>1, <3>2 DEF LimiterType
  <2>4. QED
    BY <2>1, <2>3 DEF LimiterInv
<1>7. ASSUME NEW r \in Routes, StorageFails(r) PROVE LimiterInv'
  <2>1. CASE UNCHANGED limiter
    BY <1>3, <1>7, <2>1 DEF StorageFails
  <2>2. CASE Hit(r)
    <3>1. recent' = recent
      BY <1>7 DEF StorageFails
    <3>2. QED
      BY <1>5, <2>2, <3>1
  <2>3. QED
    BY <1>7, <2>1, <2>2 DEF StorageFails
<1>8. "onboard" \in Routes /\ "webhook" \in Routes
  BY LimitType
<1>9. ASSUME NEW r \in Routes, Refuses(r) PROVE LimiterInv'
  BY <1>5, <1>9 DEF Refuses
<1>10. QED
  BY <1>3, <1>4, <1>6, <1>7, <1>8, <1>9 DEF Next, ConnectWhatsapp, WebhookReceive, Restart, vars

(* Within any time as long as a window, the workers together admit less    *)
(* than twice the limit of a route, whichever of them restart.             *)
THEOREM AcceptedPerWindowThm == Spec => []AcceptedPerWindow
<1>1. LimiterInv => AcceptedPerWindow
  <2> SUFFICES ASSUME LimiterInv, NEW r \in Routes
               PROVE  recent[r][Window] <= 2 * Limit[r] - 1
    BY DEF AcceptedPerWindow
  <2> DEFINE hits == limiter[r].hits
             left == limiter[r].left
             R == recent[r]
             limit == Limit[r]
             age == Window - left
  <2>1. /\ hits \in Nat /\ left \in 0 .. Window /\ limit \in Nat \ {0}
        /\ R \in [1 .. Window -> Nat]
        /\ Within(limiter[r], R, limit)
    BY CounterFields DEF LimiterInv
  <2>2. Window \in Nat \ {0} /\ Window \in 1 .. Window /\ R[Window] \in Nat
    BY <2>1, LimitType
  <2>3. CASE left = 0
    <3>1. R[Window] <= limit - 1
      BY <2>1, <2>2, <2>3 DEF Within
    <3>2. QED
      BY <2>1, <2>2, <3>1
  <2>4. CASE left # 0
    <3>1. /\ R[age + 1] <= IF hits <= limit THEN hits ELSE limit
          /\ Window > age + 1 => R[Window] <= R[age + 1] + limit - 1
      <4>1. left # 0 => /\ R[age + 1] <= IF hits <= limit THEN hits ELSE limit
                        /\ \A i \in 1 .. Window : i > age + 1 => R[i] <= R[age + 1] + limit - 1
        BY <2>1 DEF Within
      <4>2. QED
        BY <2>2, <2>4, <4>1
    <3>2. age + 1 \in 1 .. Window /\ R[age + 1] \in Nat
      <4>1. age + 1 \in 1 .. Window
        BY <2>1, <2>2, <2>4
      <4> HIDE DEF R, age
      <4>2. QED
        BY <2>1, <4>1
    <3> HIDE DEF hits, left, R, limit, age
    <3>3. R[age + 1] <= limit
      BY <2>1, <3>1, <3>2
    <3> SUFFICES R[Window] <= 2 * limit - 1
      BY DEF R, limit
    <3>4. CASE Window = age + 1
      <4>1. R[Window] <= limit
        BY <3>3, <3>4
      <4>2. QED
        BY <2>1, <2>2, <4>1
    <3>5. CASE Window > age + 1
      BY <2>1, <2>2, <3>1, <3>2, <3>3, <3>5
    <3>6. QED
      BY <2>2, <3>2, <3>4, <3>5
  <2>5. QED
    BY <2>3, <2>4
<1>2. QED
  BY <1>1, InitLimiter, StepLimiter, PTL DEF Spec
=============================================================================
