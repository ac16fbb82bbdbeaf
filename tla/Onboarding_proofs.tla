------------------------- MODULE Onboarding_proofs -------------------------
(***************************************************************************)
(* Theorems about Onboarding, for any numbers of callbacks, operators,     *)
(* phone numbers and tenants.                                              *)
(*                                                                         *)
(* The safety properties are not inductive: they hold because of what the  *)
(* suspended coroutines still hold in their hands.  IInv adds that.        *)
(***************************************************************************)
EXTENDS Onboarding, FiniteSetTheorems, SequenceTheorems, WellFoundedInduction, TLAPS

-----------------------------------------------------------------------------
(* Facts about the operators of module TenantRepository, for any           *)
(* repository.                                                             *)

(* A set of ids or of suffix numbers has a least element.                  *)
LEMMA MinOfNaturals ==
  ASSUME NEW S \in SUBSET Nat, S # {}
  PROVE  Min(S) \in S /\ \A n \in S : Min(S) <= n
<1>1. PICK m \in S : \A n \in S : ~ (<<n, m>> \in OpToRel(<, Nat))
  BY NatLessThanWellFounded, WFMin
<1>2. \A n \in S : m <= n
  <2> SUFFICES ASSUME NEW n \in S, n < m PROVE FALSE
    OBVIOUS
  <2>1. <<n, m>> \in Nat \X Nat /\ <<n, m>>[1] < <<n, m>>[2]
    OBVIOUS
  <2>2. QED
    BY <1>1, <2>1, Zenon DEF OpToRel
<1>3. QED
  BY <1>2 DEF Min

(* Adding a tenant leaves the others in place.                             *)
LEMMA AddProperties ==
  ASSUME NEW tenants \in Seq(Tenant), NEW tenant \in Tenant
  PROVE  /\ Add(tenants, tenant) \in Seq(Tenant)
         /\ Len(Add(tenants, tenant)) = Len(tenants) + 1
         /\ Ids(Add(tenants, tenant)) = Ids(tenants) \cup {Len(tenants) + 1}
         /\ \A i \in Ids(tenants) : Add(tenants, tenant)[i] = tenants[i]
         /\ Add(tenants, tenant)[Len(tenants) + 1] = tenant
<1>1. Len(tenants) \in Nat
  BY LenProperties
<1>2. QED
  BY <1>1, AppendProperties DEF Add, Ids

(* Updating a tenant leaves the others, and every place, alone.            *)
LEMMA UpdateProperties ==
  ASSUME NEW tenants \in Seq(Tenant), NEW id \in Ids(tenants), NEW tenant \in Tenant
  PROVE  /\ Update(tenants, id, tenant) \in Seq(Tenant)
         /\ Ids(Update(tenants, id, tenant)) = Ids(tenants)
         /\ \A i \in Ids(tenants) : Update(tenants, id, tenant)[i] = IF i = id THEN tenant ELSE tenants[i]
  BY ExceptSeq DEF Update, Ids

(* A candidate of a legal base is a legal slug.                            *)
LEMMA CandidateIsSlug ==
  ASSUME NEW base \in Slug, NEW n \in Nat
  PROVE  Candidate(base, n) \in Slug
  BY AppendProperties DEF Candidate, Slug

(* Different suffixes make different slugs.                                *)
LEMMA CandidatesDiffer ==
  ASSUME NEW base \in Slug, NEW m \in Nat, NEW n \in Nat, Candidate(base, m) = Candidate(base, n)
  PROVE  m = n
<1> DEFINE T == Words \cup Nat
<1>1. base \in Seq(T) /\ Len(base) \in Nat
  BY LenProperties DEF Slug
<1>2. Len(Append(base, m)) = Len(base) + 1 /\ Len(Append(base, n)) = Len(base) + 1
  BY <1>1, AppendProperties
<1>3. Append(base, m) = Append(base, n) => m = n
  BY <1>1, AppendInjective
<1>4. base # Append(base, m) /\ base # Append(base, n)
  <2>1. Len(base) # Len(base) + 1
    BY <1>1
  <2>2. QED
    BY <1>2, <2>1, Zenon
<1>5. QED
  BY <1>3, <1>4, Zenon DEF Candidate

(* The size of an interval that starts at 1.                               *)
LEMMA IntervalSize ==
  ASSUME NEW n \in Nat
  PROVE  IsFiniteSet(1 .. n) /\ Cardinality(1 .. n) = n
<1>1. 1 \in Int /\ n \in Int
  OBVIOUS
<1>2. IsFiniteSet(1 .. n) /\ Cardinality(1 .. n) = IF 1 > n THEN 0 ELSE n - 1 + 1
  BY <1>1, FS_Interval
<1>3. (IF 1 > n THEN 0 ELSE n - 1 + 1) = n
  OBVIOUS
<1>4. QED
  BY <1>2, <1>3

(* The loop of _unique_slug ends, whatever the repository holds, and on a  *)
(* slug nobody has: create never raises in the onboarding flow.            *)
THEOREM UniqueSlugIsFree ==
  ASSUME NEW tenants \in Seq(Tenant), NEW base \in Slug
  PROVE  UniqueSlug(tenants, base) \in Slug /\ ~ SlugTaken(tenants, UniqueSlug(tenants, base))
<1> DEFINE L == Len(tenants)
           Free == {n \in 1 .. L + 1 : ~ SlugTaken(tenants, Candidate(base, n))}
           holder == [n \in 1 .. L + 1 |-> CHOOSE i \in 1 .. L : tenants[i].slug = Candidate(base, n)]
<1>1. L \in Nat
  BY LenProperties
<1>2. Free # {}
  <2> SUFFICES ASSUME Free = {} PROVE FALSE
    OBVIOUS
  <2>1. \A n \in 1 .. L + 1 : \E i \in 1 .. L : tenants[i].slug = Candidate(base, n)
    BY DEF SlugTaken, Ids
  <2>2. \A n \in 1 .. L + 1 : holder[n] \in 1 .. L /\ tenants[holder[n]].slug = Candidate(base, n)
    BY <2>1
  <2>3. holder \in [1 .. L + 1 -> 1 .. L]
    BY <2>2
  <2>4. IsFiniteSet(1 .. L + 1) /\ Cardinality(1 .. L + 1) = L + 1
    <3>1. L + 1 \in Nat
      BY <1>1
    <3> HIDE DEF L
    <3>2. QED
      BY <3>1, IntervalSize
  <2>5. IsFiniteSet(1 .. L) /\ Cardinality(1 .. L) = L
    <3> HIDE DEF L
    <3>1. QED
      BY <1>1, IntervalSize
  <2>6. Cardinality(1 .. L) < Cardinality(1 .. L + 1)
    BY <1>1, <2>4, <2>5
  <2> HIDE DEF L, holder
  <2>7. PICK m, n \in 1 .. L + 1 : m # n /\ holder[m] = holder[n]
    <3> DEFINE S == 1 .. L + 1
               H == 1 .. L
    <3>1. IsFiniteSet(S) /\ IsFiniteSet(H) /\ Cardinality(H) < Cardinality(S) /\ holder \in [S -> H]
      BY <2>3, <2>4, <2>5, <2>6
    <3> HIDE DEF S, H
    <3>2. \E m, n \in S : m # n /\ holder[m] = holder[n]
      BY <3>1, FS_PigeonHole
    <3>3. QED
      BY <3>2 DEF S
  <2>8. Candidate(base, m) = Candidate(base, n)
    BY <2>2, <2>7
  <2>9. QED
    BY <1>1, <2>7, <2>8, CandidatesDiffer
<1>3. Free \in SUBSET Nat
  BY <1>1
<1>4. Min(Free) \in Free
  BY <1>2, <1>3, MinOfNaturals
<1>5. QED
  BY <1>1, <1>4, CandidateIsSlug DEF UniqueSlug

-----------------------------------------------------------------------------
(* The onboarding flow.                                                    *)

(* The coroutines that created the tenant they work on.                    *)
Creating == Up \cup {"publishing", "created", "failed"}

(* Where a coroutine of each kind can be, and that it works on a tenant    *)
(* from its first await on.                                                *)
CallInv ==
  /\ \A d \in Deliveries : pc[d] \notin Down
  /\ \A o \in Operators : pc[o] \in {"idle"} \cup Up \cup Down
  /\ \A p \in Processes : pc[p] \in InFlight \cup (Answers \ {"rejected"}) => target[p] \in Ids(repo)

(* A copy held over an await has the slug of the stored tenant, and its    *)
(* number unless an administrator wrote it: writing it back is harmless.   *)
CopyInv ==
  \A p \in Processes : pc[p] \in Up \cup Down =>
    /\ copy[p].slug = repo[target[p]].slug
    /\ target[p] \notin touched => copy[p].phone = repo[target[p]].phone

(* No two callbacks created the same tenant.                               *)
CreatorInv ==
  \A d, e \in Deliveries :
    pc[d] \in Creating /\ pc[e] \in Creating /\ target[d] = target[e] => d = e

(* A tenant is announced exactly when its callback has activated it.       *)
EventInv ==
  /\ \A d \in Deliveries : pc[d] \in Up => ~ Announced(target[d])
  /\ \A d \in Deliveries : pc[d] \in {"publishing", "created"} =>
       Announced(target[d]) /\ repo[target[d]].status # "PROVISIONING"

IInv ==
  /\ TypeOK
  /\ CallInv
  /\ CopyInv
  /\ SlugsUnique
  /\ UntouchedNumbersUnique
  /\ CreatorInv
  /\ EventInv
  /\ AnnouncedOnce
-----------------------------------------------------------------------------
(* Values the actions write.                                               *)

(* A Tenant made with defaults is well typed.                              *)
LEMMA NewTenantType ==
  ASSUME NEW slug \in Slug, NEW phone \in Phones \cup {NoPhone}
  PROVE  NewTenant(slug, phone) \in Tenant
  BY DEF NewTenant, Tenant, TenantStatus

(* So is the copy of a coroutine that holds none.                          *)
LEMMA BlankTenantType == BlankTenant \in Tenant
<1>1. <<>> \in Slug
  BY EmptySeq DEF Slug
<1>2. QED
  BY <1>1, NewTenantType DEF BlankTenant

(* Writing a status keeps a tenant well typed.                             *)
LEMMA StatusWriteType ==
  ASSUME NEW tenant \in Tenant, NEW status \in TenantStatus
  PROVE  [tenant EXCEPT !.status = status] \in Tenant
  BY DEF Tenant

(* Writing a number keeps a tenant well typed.                             *)
LEMMA PhoneWriteType ==
  ASSUME NEW tenant \in Tenant, NEW phone \in Phones
  PROVE  [tenant EXCEPT !.phone = phone] \in Tenant
  BY DEF Tenant

(* What was announced about the tenants there are, was announced about     *)
(* tenants there will be.                                                  *)
LEMMA EventsKeepType ==
  ASSUME NEW S, NEW T, S \subseteq T, NEW es \in Seq(S)
  PROVE  es \in Seq(T)
  BY SeqMonotonic

-----------------------------------------------------------------------------
(* A named case for each action.                                           *)
LEMMA NextCases ==
  ASSUME Next
  PROVE  \/ \E d \in Deliveries, phone \in SignupPhones : Replay(d, phone)
         \/ \E d \in Deliveries, phone \in SignupPhones, base \in Bases : Provision(d, phone, base)
         \/ \E d \in Deliveries : DeliveryActivates(d)
         \/ \E d \in Deliveries : HandlersReturn(d)
         \/ \E d \in Deliveries : HandlerRaises(d)
         \/ \E o \in Operators, id \in Ids(repo) : Enter(o, id, "spawning", Down)
         \/ \E o \in Operators, id \in Ids(repo) : Enter(o, id, "stopping", Up)
         \/ \E o \in Operators : OperatorActivates(o)
         \/ \E o \in Operators : OperatorSuspends(o)
         \/ \E o \in Operators : StopTakesEffect(o)
         \/ \E p \in Processes : SpawnTakesEffect(p)
         \/ \E p \in Processes : SpawnerFails(p)
         \/ \E slug \in Bases, phone \in AdminPhones \cup {NoPhone} : CreateTenant(slug, phone)
         \/ \E id \in Ids(repo), phone \in AdminPhones : UpdateTenant(id, phone)
  BY DEF Next, DeliveryStep, Callback, OperatorStep, BringUp, Activate, BringDown, AdminStep
-----------------------------------------------------------------------------
(* Types, and where each coroutine can be.                                 *)
LEMMA InitTypes == Init => TypeOK /\ CallInv
<1> SUFFICES ASSUME Init PROVE TypeOK /\ CallInv
  OBVIOUS
<1>1. repo \in Seq(Tenant) /\ events \in Seq(Ids(repo))
  BY EmptySeq DEF Init
<1>2. QED
  BY <1>1, BlankTenantType DEF Init, TypeOK, CallInv, Processes, InFlight, Answers, Up, Down

(* Every step keeps the types, and each coroutine where its kind can be.   *)
LEMMA StepTypes ==
  ASSUME TypeOK, CallInv, [Next]_vars
  PROVE  TypeOK' /\ CallInv'
<1> USE ProcessesAssumption, PhonesAssumption DEF Processes
<1> USE DEF InFlight, Answers, Up, Down
<1>0. Len(repo) \in Nat /\ Len(repo) + 1 \notin Ids(repo) /\ None \notin Ids(repo)
  BY LenProperties DEF TypeOK, Ids, None
<1>1. ASSUME NEW d \in Deliveries, NEW phone \in SignupPhones, Replay(d, phone)
      PROVE  TypeOK' /\ CallInv'
  <2>1. ByPhone(repo, phone) \in Ids(repo)
    <3>1. Owners(repo, phone) # {}
      BY <1>1 DEF Replay
    <3>2. Owners(repo, phone) \subseteq Ids(repo)
      BY DEF Owners
    <3>3. Owners(repo, phone) \in SUBSET Nat
      BY <1>0, <3>2 DEF Ids
    <3>4. Min(Owners(repo, phone)) \in Owners(repo, phone)
      BY <3>1, <3>3, MinOfNaturals
    <3>5. QED
      BY <3>1, <3>2, <3>4 DEF ByPhone
  <2>2. QED
    BY <1>1, <2>1 DEF Replay, TypeOK, CallInv
<1>2. ASSUME NEW d \in Deliveries, NEW phone \in SignupPhones, NEW base \in Bases, Provision(d, phone, base)
      PROVE  TypeOK' /\ CallInv'
  <2> DEFINE slug == UniqueSlug(repo, base)
             tenant == NewTenant(slug, phone)
  <2>1. tenant \in Tenant /\ ~ SlugTaken(repo, slug)
    BY UniqueSlugIsFree, BasesAssumption, NewTenantType DEF TypeOK
  <2>2. /\ repo' = Add(repo, tenant)
        /\ pc' = [pc EXCEPT ![d] = "spawning"]
        /\ target' = [target EXCEPT ![d] = Len(repo) + 1]
        /\ copy' = [copy EXCEPT ![d] = tenant]
        /\ UNCHANGED <<running, events, touched, disturbed>>
    BY <1>2, <2>1 DEF Provision
  <2> HIDE DEF slug, tenant
  <2>3. repo' \in Seq(Tenant) /\ Ids(repo') = Ids(repo) \cup {Len(repo) + 1}
    BY <2>1, <2>2, AddProperties DEF TypeOK
  <2>4. events' \in Seq(Ids(repo'))
    BY <2>2, <2>3, EventsKeepType DEF TypeOK
  <2>5. QED
    BY <2>1, <2>2, <2>3, <2>4 DEF TypeOK, CallInv
<1>3. ASSUME NEW p \in Processes, pc[p] \in Up \cup Down, NEW status \in TenantStatus, WriteCopy(p, status)
      PROVE  repo' \in Seq(Tenant) /\ Ids(repo') = Ids(repo) /\ copy' \in [Processes -> Tenant]
  <2>1. [copy[p] EXCEPT !.status = status] \in Tenant
    BY StatusWriteType DEF TypeOK
  <2>2. target[p] \in Ids(repo)
    BY <1>3 DEF CallInv
  <2>3. QED
    BY <1>3, <2>1, <2>2, UpdateProperties, BlankTenantType DEF WriteCopy, TypeOK
<1>4. ASSUME NEW d \in Deliveries, DeliveryActivates(d) PROVE TypeOK' /\ CallInv'
  <2>1. repo' \in Seq(Tenant) /\ Ids(repo') = Ids(repo) /\ copy' \in [Processes -> Tenant]
    BY <1>3, <1>4 DEF DeliveryActivates, TenantStatus
  <2>2. target[d] \in Ids(repo)
    BY <1>4 DEF DeliveryActivates, CallInv
  <2>3. events' \in Seq(Ids(repo))
    BY <1>4, <2>2, AppendProperties DEF DeliveryActivates, TypeOK
  <2>4. QED
    BY <1>4, <2>1, <2>2, <2>3 DEF DeliveryActivates, TypeOK, CallInv
<1>5. ASSUME NEW d \in Deliveries, HandlersReturn(d) PROVE TypeOK' /\ CallInv'
  BY <1>5 DEF HandlersReturn, TypeOK, CallInv
<1>6. ASSUME NEW d \in Deliveries, HandlerRaises(d) PROVE TypeOK' /\ CallInv'
  BY <1>6 DEF HandlerRaises, TypeOK, CallInv
<1>7. ASSUME NEW o \in Operators, NEW id \in Ids(repo), NEW phase \in {"spawning", "stopping"},
             NEW opposite, Enter(o, id, phase, opposite)
      PROVE  TypeOK' /\ CallInv'
  <2>1. repo[id] \in Tenant
    BY ElementOfSeq DEF TypeOK, Ids
  <2>2. QED
    BY <1>7, <2>1 DEF Enter, TypeOK, CallInv
<1>8. ASSUME NEW o \in Operators, OperatorActivates(o) PROVE TypeOK' /\ CallInv'
  <2>1. repo' \in Seq(Tenant) /\ Ids(repo') = Ids(repo) /\ copy' \in [Processes -> Tenant]
    BY <1>3, <1>8 DEF OperatorActivates, TenantStatus
  <2>2. QED
    BY <1>8, <2>1 DEF OperatorActivates, TypeOK, CallInv
<1>9. ASSUME NEW o \in Operators, OperatorSuspends(o) PROVE TypeOK' /\ CallInv'
  <2>1. repo' \in Seq(Tenant) /\ Ids(repo') = Ids(repo) /\ copy' \in [Processes -> Tenant]
    BY <1>3, <1>9 DEF OperatorSuspends, TenantStatus
  <2>2. QED
    BY <1>9, <2>1 DEF OperatorSuspends, TypeOK, CallInv
<1>10. ASSUME NEW o \in Operators, StopTakesEffect(o) PROVE TypeOK' /\ CallInv'
  BY <1>10 DEF StopTakesEffect, TypeOK, CallInv
<1>11. ASSUME NEW p \in Processes, SpawnTakesEffect(p) PROVE TypeOK' /\ CallInv'
  BY <1>11 DEF SpawnTakesEffect, TypeOK, CallInv
<1>12. ASSUME NEW p \in Processes, SpawnerFails(p) PROVE TypeOK' /\ CallInv'
  BY <1>12, BlankTenantType DEF SpawnerFails, TypeOK, CallInv
<1>13. ASSUME NEW slug \in Bases, NEW phone \in AdminPhones \cup {NoPhone}, CreateTenant(slug, phone)
       PROVE  TypeOK' /\ CallInv'
  <2>1. NewTenant(slug, phone) \in Tenant
    BY BasesAssumption, NewTenantType
  <2>2. repo' \in Seq(Tenant) /\ Ids(repo') = Ids(repo) \cup {Len(repo) + 1}
    BY <1>13, <2>1, AddProperties DEF CreateTenant, TypeOK
  <2>3. events' \in Seq(Ids(repo'))
    BY <1>13, <2>2, EventsKeepType DEF CreateTenant, TypeOK
  <2>4. QED
    BY <1>13, <2>2, <2>3 DEF CreateTenant, TypeOK, CallInv
<1>14. ASSUME NEW id \in Ids(repo), NEW phone \in AdminPhones, UpdateTenant(id, phone)
       PROVE  TypeOK' /\ CallInv'
  <2>1. [repo[id] EXCEPT !.phone = phone] \in Tenant
    BY ElementOfSeq, PhoneWriteType DEF TypeOK, Ids
  <2>2. repo' \in Seq(Tenant) /\ Ids(repo') = Ids(repo)
    BY <1>14, <2>1, UpdateProperties DEF UpdateTenant, TypeOK
  <2>3. QED
    BY <1>14, <2>2 DEF UpdateTenant, TypeOK, CallInv
<1>15. CASE UNCHANGED vars
  BY <1>15 DEF vars, TypeOK, CallInv, Ids
<1>16. QED
  BY <1>1, <1>2, <1>4, <1>5, <1>6, <1>7, <1>8, <1>9, <1>10, <1>11, <1>12, <1>13, <1>14, <1>15,
     NextCases

(* The types of Onboarding's variables hold in every behaviour.            *)
THEOREM TypeCorrect == Spec => []TypeOK
<1>1. TypeOK /\ CallInv /\ [Next]_vars => (TypeOK /\ CallInv)'
  BY StepTypes
<1>2. QED
  BY InitTypes, <1>1, PTL DEF Spec
-----------------------------------------------------------------------------
(* What one step may do to the stored tenants: those that exist keep their *)
(* slug, their number unless an administrator wrote it, and do not return  *)
(* to provisioning; a new one comes with a fresh slug and, unless an       *)
(* administrator chose it, a number nobody holds.                          *)
RepoStep ==
  /\ touched \subseteq touched'
  /\ \A i \in Ids(repo) :
       /\ i \in Ids(repo')
       /\ repo'[i].slug = repo[i].slug
       /\ repo[i].status # "PROVISIONING" => repo'[i].status # "PROVISIONING"
       /\ i \notin touched' => repo'[i].phone = repo[i].phone
  /\ \A i \in Ids(repo') \ Ids(repo) :
       /\ i = Len(repo) + 1
       /\ ~ SlugTaken(repo, repo'[i].slug)
       /\ i \notin touched' => repo'[i].phone = NoPhone \/ Owners(repo, repo'[i].phone) = {}

(* What writing the repository does to its tenants.                        *)
LEMMA AddStep ==
  ASSUME TypeOK, NEW tenant \in Tenant, repo' = Add(repo, tenant)
  PROVE  /\ Ids(repo') = Ids(repo) \cup {Len(repo) + 1}
         /\ \A i \in Ids(repo) : repo'[i] = repo[i]
         /\ repo'[Len(repo) + 1] = tenant
  BY AddProperties DEF TypeOK

(* Overwriting one tenant leaves every other tenant as it was.             *)
LEMMA UpdateStep ==
  ASSUME TypeOK, NEW id \in Ids(repo), NEW tenant \in Tenant, repo' = Update(repo, id, tenant)
  PROVE  /\ Ids(repo') = Ids(repo)
         /\ \A i \in Ids(repo) : repo'[i] = IF i = id THEN tenant ELSE repo[i]
  BY UpdateProperties DEF TypeOK

(* What a step does to the repository: see RepoStep.                       *)
LEMMA StepRepo ==
  ASSUME TypeOK, CallInv, CopyInv, [Next]_vars
  PROVE  RepoStep
<1> USE ProcessesAssumption, PhonesAssumption DEF Processes
<1> USE DEF Up, Down
<1>0. \A i \in Ids(repo) : repo[i] \in Tenant
  BY ElementOfSeq DEF TypeOK, Ids
<1>1. ASSUME UNCHANGED <<repo, touched>> PROVE RepoStep
  BY <1>1 DEF RepoStep, Ids
<1>2. ASSUME NEW d \in Deliveries, NEW phone \in SignupPhones, NEW base \in Bases, Provision(d, phone, base)
      PROVE  RepoStep
  <2> DEFINE tenant == NewTenant(UniqueSlug(repo, base), phone)
  <2>1. tenant \in Tenant /\ ~ SlugTaken(repo, UniqueSlug(repo, base))
    BY UniqueSlugIsFree, BasesAssumption, NewTenantType DEF TypeOK
  <2>2. repo' = Add(repo, tenant) /\ Owners(repo, phone) = {} /\ touched' = touched
    BY <1>2, <2>1 DEF Provision
  <2>3. tenant.slug = UniqueSlug(repo, base) /\ tenant.phone = phone
    BY DEF NewTenant
  <2> HIDE DEF tenant
  <2>4. /\ Ids(repo') = Ids(repo) \cup {Len(repo) + 1}
        /\ \A i \in Ids(repo) : repo'[i] = repo[i]
        /\ repo'[Len(repo) + 1] = tenant
    BY <2>1, <2>2, AddStep
  <2>5. QED
    BY <2>1, <2>2, <2>3, <2>4 DEF RepoStep
<1>3. ASSUME NEW p \in Processes, pc[p] \in Up \cup Down, NEW status \in {"ACTIVE", "SUSPENDED"},
             WriteCopy(p, status), touched' = touched
      PROVE  RepoStep
  <2> DEFINE tenant == [copy[p] EXCEPT !.status = status]
  <2>1. tenant \in Tenant /\ tenant.status = status
        /\ tenant.slug = copy[p].slug /\ tenant.phone = copy[p].phone
    BY StatusWriteType DEF TypeOK, TenantStatus, Tenant
  <2>2. target[p] \in Ids(repo) /\ repo' = Update(repo, target[p], tenant)
    BY <1>3 DEF CallInv, WriteCopy, InFlight
  <2>3. copy[p].slug = repo[target[p]].slug
        /\ (target[p] \notin touched => copy[p].phone = repo[target[p]].phone)
    BY <1>3 DEF CopyInv
  <2> HIDE DEF tenant
  <2>4. /\ Ids(repo') = Ids(repo)
        /\ \A i \in Ids(repo) : repo'[i] = IF i = target[p] THEN tenant ELSE repo[i]
    BY <2>1, <2>2, UpdateStep
  <2>5. QED
    BY <1>3, <2>1, <2>2, <2>3, <2>4 DEF RepoStep
<1>4. ASSUME NEW slug \in Bases, NEW phone \in AdminPhones \cup {NoPhone}, CreateTenant(slug, phone)
      PROVE  RepoStep
  <2>1. NewTenant(slug, phone) \in Tenant
        /\ NewTenant(slug, phone).slug = slug /\ NewTenant(slug, phone).phone = phone
    BY BasesAssumption, NewTenantType DEF NewTenant
  <2>2. /\ Ids(repo') = Ids(repo) \cup {Len(repo) + 1}
        /\ \A i \in Ids(repo) : repo'[i] = repo[i]
        /\ repo'[Len(repo) + 1] = NewTenant(slug, phone)
    BY <1>4, <2>1, AddStep DEF CreateTenant
  <2>3. QED
    BY <1>4, <2>1, <2>2 DEF CreateTenant, RepoStep
<1>5. ASSUME NEW id \in Ids(repo), NEW phone \in AdminPhones, UpdateTenant(id, phone)
      PROVE  RepoStep
  <2> DEFINE tenant == [repo[id] EXCEPT !.phone = phone]
  <2>1. tenant \in Tenant /\ tenant.slug = repo[id].slug /\ tenant.status = repo[id].status
    BY <1>0, PhoneWriteType DEF Tenant
  <2> HIDE DEF tenant
  <2>2. repo' = Update(repo, id, tenant) /\ touched' = touched \cup {id}
    BY <1>5 DEF UpdateTenant, tenant
  <2>3. /\ Ids(repo') = Ids(repo)
        /\ \A i \in Ids(repo) : repo'[i] = IF i = id THEN tenant ELSE repo[i]
    BY <2>1, <2>2, UpdateStep
  <2>4. QED
    BY <2>1, <2>2, <2>3 DEF RepoStep
<1>6. ASSUME NEW d \in Deliveries, DeliveryActivates(d) PROVE RepoStep
  BY <1>3, <1>6 DEF DeliveryActivates
<1>7. ASSUME NEW o \in Operators, OperatorActivates(o) \/ OperatorSuspends(o) PROVE RepoStep
  BY <1>3, <1>7 DEF OperatorActivates, OperatorSuspends
<1>8. QED
  BY <1>1, <1>2, <1>4, <1>5, <1>6, <1>7, NextCases
     DEF vars, Replay, HandlersReturn, HandlerRaises, Enter, StopTakesEffect, SpawnTakesEffect, SpawnerFails

(* Slugs and numbers stay unique under such a step.                        *)
LEMMA RepoStepKeepsUnique ==
  ASSUME TypeOK, TypeOK', RepoStep, SlugsUnique, UntouchedNumbersUnique
  PROVE  SlugsUnique' /\ UntouchedNumbersUnique'
<1>1. SlugsUnique'
  BY DEF RepoStep, SlugsUnique, SlugTaken
<1>2. UntouchedNumbersUnique'
  BY DEF RepoStep, UntouchedNumbersUnique, Owners
<1>3. QED
  BY <1>1, <1>2
-----------------------------------------------------------------------------
(* A coroutine that awaits the spawner after a step either awaited it      *)
(* before, with the same tenant and copy, or has just read its copy.       *)
LEMMA StepHolds ==
  ASSUME TypeOK, CallInv, [Next]_vars,
         NEW q \in Processes, pc'[q] \in Up \cup Down
  PROVE  \/ pc[q] \in Up \cup Down /\ target'[q] = target[q] /\ copy'[q] = copy[q]
         \/ pc[q] = "idle" /\ target'[q] \in Ids(repo') /\ copy'[q] = repo'[target'[q]]
<1> DEFINE Goal == \/ pc[q] \in Up \cup Down /\ target'[q] = target[q] /\ copy'[q] = copy[q]
                   \/ pc[q] = "idle" /\ target'[q] \in Ids(repo') /\ copy'[q] = repo'[target'[q]]
<1> USE DEF Processes, Up, Down
<1>0. q \in Processes /\ pc \in [Processes -> {"idle"} \cup InFlight \cup Answers]
      /\ target \in [Processes -> {None} \cup Ids(repo)] /\ copy \in [Processes -> Tenant]
  BY DEF TypeOK
<1>1. ASSUME NEW d \in Deliveries, NEW phone \in SignupPhones, Replay(d, phone) PROVE Goal
  BY <1>0, <1>1 DEF Replay
<1>2. ASSUME NEW d \in Deliveries, NEW phone \in SignupPhones, NEW base \in Bases, Provision(d, phone, base)
      PROVE  Goal
  <2> DEFINE tenant == NewTenant(UniqueSlug(repo, base), phone)
  <2>1. tenant \in Tenant /\ ~ SlugTaken(repo, UniqueSlug(repo, base))
    BY UniqueSlugIsFree, BasesAssumption, NewTenantType, PhonesAssumption DEF TypeOK
  <2>2. /\ repo' = Add(repo, tenant)
        /\ pc[d] = "idle"
        /\ pc' = [pc EXCEPT ![d] = "spawning"]
        /\ target' = [target EXCEPT ![d] = Len(repo) + 1]
        /\ copy' = [copy EXCEPT ![d] = tenant]
    BY <1>2, <2>1 DEF Provision
  <2> HIDE DEF tenant
  <2>3. Len(repo) + 1 \in Ids(repo') /\ repo'[Len(repo) + 1] = tenant
    BY <2>1, <2>2, AddStep
  <2>4. QED
    BY <1>0, <2>2, <2>3
<1>3. ASSUME NEW p \in Processes, WriteCopy(p, "ACTIVE") \/ WriteCopy(p, "SUSPENDED"),
             NEW next \in {"idle", "publishing"}, pc' = [pc EXCEPT ![p] = next],
             NEW id, target' = [target EXCEPT ![p] = id]
      PROVE  Goal
  BY <1>0, <1>3 DEF WriteCopy
<1>4. ASSUME NEW d \in Deliveries, DeliveryActivates(d) PROVE Goal
  <2>1. target' = [target EXCEPT ![d] = target[d]]
    BY <1>0, <1>4 DEF DeliveryActivates
  <2>2. QED
    BY <1>3, <1>4, <2>1 DEF DeliveryActivates
<1>5. ASSUME NEW d \in Deliveries, HandlersReturn(d) \/ HandlerRaises(d) PROVE Goal
  BY <1>0, <1>5 DEF HandlersReturn, HandlerRaises
<1>6. ASSUME NEW o \in Operators, NEW id \in Ids(repo), NEW phase, NEW opposite, Enter(o, id, phase, opposite)
      PROVE  Goal
  BY <1>0, <1>6 DEF Enter
<1>7. ASSUME NEW o \in Operators, OperatorActivates(o) \/ OperatorSuspends(o) PROVE Goal
  BY <1>3, <1>7 DEF OperatorActivates, OperatorSuspends
<1>8. ASSUME NEW p \in Processes, StopTakesEffect(p) \/ SpawnTakesEffect(p) PROVE Goal
  BY <1>0, <1>8 DEF StopTakesEffect, SpawnTakesEffect
<1>9. ASSUME NEW p \in Processes, SpawnerFails(p) PROVE Goal
  BY <1>0, <1>9 DEF SpawnerFails
<1>10. CASE UNCHANGED <<pc, target, copy>>
  BY <1>10
<1>11. QED
  BY <1>1, <1>2, <1>4, <1>5, <1>6, <1>7, <1>8, <1>9, <1>10, NextCases DEF vars, CreateTenant, UpdateTenant

(* Copies held over an await stay harmless, whatever others write          *)
(* meanwhile.                                                              *)
LEMMA StepCopy ==
  ASSUME TypeOK, CallInv, CopyInv, RepoStep, [Next]_vars
  PROVE  CopyInv'
<1> SUFFICES ASSUME NEW q \in Processes, pc'[q] \in Up \cup Down
             PROVE  /\ copy'[q].slug = repo'[target'[q]].slug
                    /\ target'[q] \notin touched' => copy'[q].phone = repo'[target'[q]].phone
  BY DEF CopyInv
<1>1. CASE pc[q] \in Up \cup Down /\ target'[q] = target[q] /\ copy'[q] = copy[q]
  <2>1. target[q] \in Ids(repo)
    BY <1>1 DEF CallInv, InFlight
  <2>2. QED
    BY <1>1, <2>1 DEF CopyInv, RepoStep
<1>2. QED
  BY <1>1, StepHolds
-----------------------------------------------------------------------------
(* A callback that has created its tenant after a step had created it      *)
(* before, or creates it in this step under a new id.                      *)
LEMMA StepCreates ==
  ASSUME TypeOK, CallInv, [Next]_vars,
         NEW e \in Deliveries, pc'[e] \in Creating
  PROVE  \/ pc[e] \in Creating /\ target'[e] = target[e]
         \/ /\ pc[e] = "idle" /\ pc'[e] = "spawning"
            /\ target'[e] = Len(repo) + 1
            /\ \A d \in Deliveries \ {e} : pc'[d] = pc[d] /\ target'[d] = target[d]
<1> DEFINE Goal == \/ pc[e] \in Creating /\ target'[e] = target[e]
                   \/ /\ pc[e] = "idle" /\ pc'[e] = "spawning"
                      /\ target'[e] = Len(repo) + 1
                      /\ \A d \in Deliveries \ {e} : pc'[d] = pc[d] /\ target'[d] = target[d]
<1> USE ProcessesAssumption DEF Processes, Creating, Up, Down
<1>0. pc \in [Processes -> {"idle"} \cup InFlight \cup Answers]
      /\ target \in [Processes -> {None} \cup Ids(repo)]
      /\ \A d \in Deliveries : pc[d] \notin Down
      /\ \A o \in Operators : pc[o] \in {"idle"} \cup Up \cup Down
  BY DEF TypeOK, CallInv
<1>1. ASSUME NEW d \in Deliveries, NEW phone \in SignupPhones, Replay(d, phone) PROVE Goal
  BY <1>0, <1>1 DEF Replay
<1>2. ASSUME NEW d \in Deliveries, NEW phone \in SignupPhones, NEW base \in Bases, Provision(d, phone, base)
      PROVE  Goal
  <2>1. ~ SlugTaken(repo, UniqueSlug(repo, base))
    BY UniqueSlugIsFree, BasesAssumption DEF TypeOK
  <2>2. /\ pc[d] = "idle"
        /\ pc' = [pc EXCEPT ![d] = "spawning"]
        /\ target' = [target EXCEPT ![d] = Len(repo) + 1]
    BY <1>2, <2>1 DEF Provision
  <2>3. QED
    BY <1>0, <2>2
<1>3. ASSUME NEW d \in Deliveries, DeliveryActivates(d) \/ HandlersReturn(d) \/ HandlerRaises(d) PROVE Goal
  BY <1>0, <1>3 DEF DeliveryActivates, HandlersReturn, HandlerRaises
<1>4. ASSUME NEW o \in Operators, NEW id \in Ids(repo), NEW phase, NEW opposite, Enter(o, id, phase, opposite)
      PROVE  Goal
  BY <1>0, <1>4 DEF Enter
<1>5. ASSUME NEW o \in Operators, OperatorActivates(o) \/ OperatorSuspends(o) \/ StopTakesEffect(o)
      PROVE  Goal
  BY <1>0, <1>5 DEF OperatorActivates, OperatorSuspends, StopTakesEffect
<1>6. ASSUME NEW p \in Processes, SpawnTakesEffect(p) \/ SpawnerFails(p) PROVE Goal
  BY <1>0, <1>6 DEF SpawnTakesEffect, SpawnerFails
<1>7. CASE UNCHANGED <<pc, target>>
  BY <1>7
<1>8. QED
  BY <1>1, <1>2, <1>3, <1>4, <1>5, <1>6, <1>7, NextCases DEF vars, CreateTenant, UpdateTenant

(* A callback creates its tenant under an identifier nobody works on.      *)
LEMMA StepCreators ==
  ASSUME TypeOK, CallInv, CreatorInv, [Next]_vars
  PROVE  CreatorInv'
<1> SUFFICES ASSUME NEW d \in Deliveries, NEW e \in Deliveries, d # e,
                    pc'[d] \in Creating, pc'[e] \in Creating, target'[d] = target'[e]
             PROVE  FALSE
  BY DEF CreatorInv
<1>1. \A c \in Deliveries : pc[c] \in Creating => target[c] \in Ids(repo)
  BY DEF CallInv, Creating, InFlight, Answers, Processes
<1>2. Len(repo) + 1 \notin Ids(repo)
  BY LenProperties DEF TypeOK, Ids
<1>3. CASE pc[d] \in Creating /\ target'[d] = target[d] /\ pc[e] \in Creating /\ target'[e] = target[e]
  BY <1>3 DEF CreatorInv
<1>4. QED
  BY <1>1, <1>2, <1>3, StepCreates

(* The events after a step are those before it, and the tenant of a        *)
(* callback that was being brought up and now awaits the handlers.         *)
LEMMA StepPublishes ==
  ASSUME TypeOK, CallInv, [Next]_vars
  PROVE  \/ /\ events' = events
            /\ \A e \in Deliveries : pc'[e] \in {"publishing", "created"} =>
                 pc[e] \in {"publishing", "created"} /\ target'[e] = target[e]
         \/ \E d \in Deliveries :
              /\ events' = Append(events, target[d])
              /\ pc[d] \in Up /\ repo'[target[d]].status = "ACTIVE"
              /\ pc' = [pc EXCEPT ![d] = "publishing"] /\ target' = target
<1> DEFINE Quiet == /\ events' = events
                    /\ \A e \in Deliveries : pc'[e] \in {"publishing", "created"} =>
                         pc[e] \in {"publishing", "created"} /\ target'[e] = target[e]
<1> USE ProcessesAssumption DEF Processes, Up, Down
<1>0. pc \in [Processes -> {"idle"} \cup InFlight \cup Answers]
      /\ target \in [Processes -> {None} \cup Ids(repo)]
      /\ \A d \in Deliveries : pc[d] \notin Down
      /\ \A o \in Operators : pc[o] \in {"idle"} \cup Up \cup Down
  BY DEF TypeOK, CallInv
<1>1. ASSUME NEW d \in Deliveries, NEW phone \in SignupPhones, Replay(d, phone) PROVE Quiet
  BY <1>0, <1>1 DEF Replay
<1>2. ASSUME NEW d \in Deliveries, NEW phone \in SignupPhones, NEW base \in Bases, Provision(d, phone, base)
      PROVE  Quiet
  <2>1. ~ SlugTaken(repo, UniqueSlug(repo, base))
    BY UniqueSlugIsFree, BasesAssumption DEF TypeOK
  <2>2. /\ events' = events
        /\ pc' = [pc EXCEPT ![d] = "spawning"]
        /\ target' = [target EXCEPT ![d] = Len(repo) + 1]
    BY <1>2, <2>1 DEF Provision
  <2>3. QED
    BY <1>0, <2>2
<1>3. ASSUME NEW d \in Deliveries, HandlersReturn(d) \/ HandlerRaises(d) PROVE Quiet
  BY <1>0, <1>3 DEF HandlersReturn, HandlerRaises
<1>4. ASSUME NEW o \in Operators, NEW id \in Ids(repo), NEW phase, NEW opposite, Enter(o, id, phase, opposite)
      PROVE  Quiet
  BY <1>0, <1>4 DEF Enter
<1>5. ASSUME NEW o \in Operators, OperatorActivates(o) \/ OperatorSuspends(o) \/ StopTakesEffect(o)
      PROVE  Quiet
  BY <1>0, <1>5 DEF OperatorActivates, OperatorSuspends, StopTakesEffect
<1>6. ASSUME NEW p \in Processes, SpawnTakesEffect(p) \/ SpawnerFails(p) PROVE Quiet
  BY <1>0, <1>6 DEF SpawnTakesEffect, SpawnerFails
<1>7. CASE UNCHANGED <<events, pc, target>>
  BY <1>7
<1>8. ASSUME NEW d \in Deliveries, DeliveryActivates(d)
      PROVE  /\ events' = Append(events, target[d])
             /\ pc[d] \in Up /\ repo'[target[d]].status = "ACTIVE"
             /\ pc' = [pc EXCEPT ![d] = "publishing"] /\ target' = target
  <2> DEFINE tenant == [copy[d] EXCEPT !.status = "ACTIVE"]
  <2>0. copy[d] \in Tenant
    BY DEF TypeOK
  <2>1. tenant \in Tenant /\ tenant.status = "ACTIVE"
    BY <2>0 DEF TenantStatus, Tenant
  <2> HIDE DEF tenant
  <2>2. target[d] \in Ids(repo) /\ repo' = Update(repo, target[d], tenant)
    BY <1>8 DEF DeliveryActivates, WriteCopy, CallInv, InFlight, tenant
  <2>3. repo'[target[d]] = tenant
    BY <2>1, <2>2, UpdateStep
  <2>4. QED
    BY <1>8, <2>1, <2>3 DEF DeliveryActivates
<1>9. QED
  BY <1>1, <1>2, <1>3, <1>4, <1>5, <1>6, <1>7, <1>8, NextCases DEF vars, CreateTenant, UpdateTenant

(* A tenant is announced by its creator alone, in the step that activates  *)
(* it.                                                                     *)
LEMMA StepEvents ==
  ASSUME TypeOK, CallInv, CreatorInv, EventInv, AnnouncedOnce, RepoStep, [Next]_vars
  PROVE  EventInv' /\ AnnouncedOnce'
<1> DEFINE Quiet == /\ events' = events
                    /\ \A e \in Deliveries : pc'[e] \in {"publishing", "created"} =>
                         pc[e] \in {"publishing", "created"} /\ target'[e] = target[e]
<1>1. \A e \in Deliveries : pc[e] \in Creating => target[e] \in Ids(repo)
  BY DEF CallInv, Creating, InFlight, Answers, Processes
<1>2. Len(repo) + 1 \notin Ids(repo) /\ \A a \in Ids(events) : events[a] \in Ids(repo)
  BY LenProperties, ElementOfSeq DEF TypeOK, Ids
<1>3. ASSUME NEW e \in Deliveries, pc'[e] \in Up
      PROVE  \/ pc[e] \in Up /\ target'[e] = target[e]
             \/ target'[e] = Len(repo) + 1
  <2>1. CASE pc[e] \in Creating /\ target'[e] = target[e]
    BY <1>3, <2>1, StepHolds DEF Creating, Processes, Up, Down, CallInv
  <2>2. QED
    BY <1>3, <2>1, StepCreates DEF Creating
<1>4. CASE Quiet
  <2>1. \A id : Announced(id)' <=> Announced(id)
    BY <1>4 DEF Announced
  <2>2. AnnouncedOnce'
    BY <1>4 DEF AnnouncedOnce
  <2>3. ASSUME NEW e \in Deliveries, pc'[e] \in Up PROVE ~ Announced(target[e])'
    BY <1>2, <1>3, <1>4, <2>3 DEF EventInv, Announced
  <2>4. ASSUME NEW e \in Deliveries, pc'[e] \in {"publishing", "created"}
        PROVE  Announced(target[e])' /\ repo'[target'[e]].status # "PROVISIONING"
    <3>1. pc[e] \in {"publishing", "created"} /\ target'[e] = target[e] /\ target[e] \in Ids(repo)
      BY <1>1, <1>4, <2>4 DEF Creating
    <3>2. Announced(target[e]) /\ repo[target[e]].status # "PROVISIONING"
      BY <3>1 DEF EventInv
    <3>3. QED
      BY <1>4, <3>1, <3>2 DEF RepoStep, Announced
  <2>5. QED
    BY <2>2, <2>3, <2>4 DEF EventInv
<1>5. ASSUME NEW d \in Deliveries,
             events' = Append(events, target[d]),
             pc[d] \in Up, repo'[target[d]].status = "ACTIVE",
             pc' = [pc EXCEPT ![d] = "publishing"], target' = target
      PROVE  EventInv' /\ AnnouncedOnce'
  <2>1. target[d] \in Ids(repo) /\ ~ Announced(target[d])
    BY <1>1, <1>5 DEF Creating, EventInv
  <2>2. /\ Len(events) \in Nat
        /\ Ids(events') = Ids(events) \cup {Len(events) + 1}
        /\ \A a \in Ids(events) : events'[a] = events[a]
        /\ events'[Len(events) + 1] = target[d]
    BY <1>5, <2>1, LenProperties, AppendProperties DEF TypeOK, Ids
  <2>3. AnnouncedOnce'
    BY <2>1, <2>2 DEF AnnouncedOnce, Announced
  <2>4. \A e \in Deliveries : pc'[e] = IF e = d THEN "publishing" ELSE pc[e]
    BY <1>5 DEF TypeOK, Processes
  <2>5. ASSUME NEW e \in Deliveries, pc'[e] \in Up PROVE ~ Announced(target[e])'
    <3>1. e # d /\ pc[e] \in Up
      BY <2>4, <2>5 DEF Up
    <3>2. target[e] # target[d] /\ ~ Announced(target[e])
      BY <1>5, <3>1 DEF CreatorInv, Creating, EventInv
    <3>3. QED
      BY <1>5, <2>2, <3>2 DEF Announced
  <2>6. ASSUME NEW e \in Deliveries, pc'[e] \in {"publishing", "created"}
        PROVE  Announced(target[e])' /\ repo'[target'[e]].status # "PROVISIONING"
    <3>1. CASE e = d
      BY <1>5, <2>2, <3>1 DEF Announced
    <3>2. CASE e # d
      <4>1. pc[e] \in {"publishing", "created"} /\ target[e] \in Ids(repo)
        BY <1>1, <2>4, <2>6, <3>2 DEF Creating
      <4>2. Announced(target[e]) /\ repo[target[e]].status # "PROVISIONING"
        BY <4>1 DEF EventInv
      <4>3. QED
        BY <1>5, <2>2, <4>1, <4>2 DEF RepoStep, Announced
    <3>3. QED
      BY <3>1, <3>2
  <2>7. QED
    BY <2>3, <2>5, <2>6 DEF EventInv
<1>6. QED
  BY <1>4, <1>5, StepPublishes
-----------------------------------------------------------------------------
(* The invariant holds before any callback arrives.                        *)
LEMMA InitInv == Init => IInv
<1> SUFFICES ASSUME Init PROVE IInv
  OBVIOUS
<1>1. Ids(repo) = {} /\ Ids(events) = {}
  BY DEF Init, Ids
<1>2. \A p \in Processes : pc[p] = "idle"
  BY DEF Init
<1>3. QED
  BY <1>1, <1>2, InitTypes
     DEF IInv, CopyInv, SlugsUnique, UntouchedNumbersUnique, CreatorInv, EventInv, AnnouncedOnce,
         Creating, Up, Down, Processes

(* Every step preserves the invariant.                                     *)
LEMMA StepInv == IInv /\ [Next]_vars => IInv'
<1> SUFFICES ASSUME IInv, [Next]_vars PROVE IInv'
  OBVIOUS
<1>1. TypeOK' /\ CallInv'
  BY StepTypes DEF IInv
<1>2. RepoStep
  BY StepRepo DEF IInv
<1>3. CopyInv'
  BY <1>2, StepCopy DEF IInv
<1>4. SlugsUnique' /\ UntouchedNumbersUnique'
  BY <1>1, <1>2, RepoStepKeepsUnique DEF IInv
<1>5. CreatorInv'
  BY StepCreators DEF IInv
<1>6. EventInv' /\ AnnouncedOnce'
  BY <1>2, StepEvents DEF IInv
<1>7. QED
  BY <1>1, <1>3, <1>4, <1>5, <1>6 DEF IInv

(* The inductive invariant holds in every behaviour of the API process.    *)
THEOREM Invariance == Spec => []IInv
  BY InitInv, StepInv, PTL DEF Spec

(* No two tenants of a process ever share a slug.                          *)
THEOREM SlugsUniqueThm == Spec => []SlugsUnique
<1>1. IInv => SlugsUnique
  BY DEF IInv
<1>2. QED
  BY <1>1, Invariance, PTL

(* Callbacks, retried and overlapping, never give a number to two tenants. *)
THEOREM UntouchedNumbersUniqueThm == Spec => []UntouchedNumbersUnique
<1>1. IInv => UntouchedNumbersUnique
  BY DEF IInv
<1>2. QED
  BY <1>1, Invariance, PTL

(* A tenant is announced at most once.                                     *)
THEOREM AnnouncedOnceThm == Spec => []AnnouncedOnce
<1>1. IInv => AnnouncedOnce
  BY DEF IInv
<1>2. QED
  BY <1>1, Invariance, PTL

(* is_new = True is said once per tenant, and only after the tenant was    *)
(* activated and announced.                                                *)
THEOREM CreatedMeansOnboardedThm == Spec => []CreatedMeansOnboarded
<1>1. IInv => CreatedMeansOnboarded
  BY DEF IInv, CreatedMeansOnboarded, EventInv, CreatorInv, Creating
<1>2. QED
  BY <1>1, Invariance, PTL

(* Tenants stay, keep their slug and never return to provisioning.         *)
THEOREM TenantsPersistThm == Spec => TenantsPersist
<1>1. IInv /\ [Next]_vars => RepoStep
  BY StepRepo DEF IInv
<1>2. RepoStep =>
        \A id \in Ids(repo) :
          /\ id \in Ids(repo')
          /\ repo'[id].slug = repo[id].slug
          /\ repo[id].status # "PROVISIONING" => repo'[id].status # "PROVISIONING"
  BY DEF RepoStep
<1>3. QED
  BY <1>1, <1>2, Invariance, PTL DEF Spec, TenantsPersist
(* A callback is never answered 422.                                       *)
THEOREM NeverRejectedThm == Spec => []NeverRejected
<1>1. Init => NeverRejected
  BY DEF Init, NeverRejected, Processes
<1>2. IInv /\ NeverRejected /\ [Next]_vars => NeverRejected'
  <2> SUFFICES ASSUME TypeOK, NeverRejected, [Next]_vars PROVE NeverRejected'
    BY DEF IInv
  <2> USE DEF Processes
  <2>0. pc \in [Processes -> {"idle"} \cup InFlight \cup Answers]
    BY DEF TypeOK
  <2>1. ASSUME NEW p \in Processes, NEW next, pc' = [pc EXCEPT ![p] = next], next # "rejected"
        PROVE  NeverRejected'
    BY <2>0, <2>1 DEF NeverRejected
  <2>2. ASSUME NEW d \in Deliveries, NEW phone \in SignupPhones, NEW base \in Bases, Provision(d, phone, base)
        PROVE  NeverRejected'
    <3>1. ~ SlugTaken(repo, UniqueSlug(repo, base))
      BY UniqueSlugIsFree, BasesAssumption DEF TypeOK
    <3>2. QED
      BY <2>1, <2>2, <3>1 DEF Provision
  <2>3. ASSUME NEW o \in Operators, NEW id, NEW phase \in {"spawning", "stopping"}, NEW opposite,
               Enter(o, id, phase, opposite)
        PROVE  NeverRejected'
    BY <2>1, <2>3 DEF Enter
  <2>4. ASSUME NEW d \in Deliveries, NEW phone \in SignupPhones, Replay(d, phone) PROVE NeverRejected'
    BY <2>1, <2>4 DEF Replay
  <2>5. ASSUME NEW d \in Deliveries, DeliveryActivates(d) \/ HandlersReturn(d) \/ HandlerRaises(d)
        PROVE  NeverRejected'
    BY <2>1, <2>5 DEF DeliveryActivates, HandlersReturn, HandlerRaises
  <2>6. ASSUME NEW o \in Operators, OperatorActivates(o) \/ OperatorSuspends(o) \/ StopTakesEffect(o)
        PROVE  NeverRejected'
    BY <2>1, <2>6 DEF OperatorActivates, OperatorSuspends, StopTakesEffect
  <2>7. ASSUME NEW p \in Processes, SpawnTakesEffect(p) \/ SpawnerFails(p) PROVE NeverRejected'
    BY <2>1, <2>7 DEF SpawnTakesEffect, SpawnerFails
  <2>8. CASE UNCHANGED pc
    BY <2>8 DEF NeverRejected
  <2>9. QED
    BY <2>2, <2>3, <2>4, <2>5, <2>6, <2>7, <2>8, NextCases DEF vars, CreateTenant, UpdateTenant
<1>3. QED
  BY <1>1, <1>2, Invariance, PTL DEF Spec

(* The router keeps sending a number's messages to the same tenant, unless *)
(* an administrator wrote that tenant's number or gave the number to an    *)
(* older tenant.                                                           *)
THEOREM RoutesStickThm == Spec => RoutesStick
<1>1. ASSUME TypeOK, TypeOK', RepoStep, NEW phone \in Phones,
             ByPhone(repo, phone) \notin touched' \cup {None}
      PROVE  LET before == ByPhone(repo, phone)
                 after  == ByPhone(repo', phone)
             IN  after = before \/ (after \in touched' /\ after < before)
  <2> DEFINE before == ByPhone(repo, phone)
             after  == ByPhone(repo', phone)
  <2>1. Owners(repo, phone) \in SUBSET Nat /\ Owners(repo', phone) \in SUBSET Nat
    BY LenProperties DEF TypeOK, Owners, Ids
  <2>2. before \in Owners(repo, phone) /\ \A i \in Owners(repo, phone) : before <= i
    BY <1>1, <2>1, MinOfNaturals DEF ByPhone
  <2>3. before \in Owners(repo', phone)
    BY <1>1, <2>2 DEF Owners, RepoStep
  <2>4. after \in Owners(repo', phone) /\ after <= before
    BY <2>1, <2>3, MinOfNaturals DEF ByPhone
  <2> HIDE DEF before, after
  <2>5. SUFFICES ASSUME after # before PROVE after \in touched' /\ after < before
    BY DEF before, after
  <2>6. after \in Nat /\ before \in Nat /\ after < before
    BY <2>1, <2>2, <2>4, <2>5
  <2>7. after \in Ids(repo) /\ after \notin Owners(repo, phone)
    BY <2>2, <2>4, <2>6, LenProperties DEF Owners, Ids, TypeOK
  <2>8. QED
    BY <1>1, <2>4, <2>6, <2>7 DEF Owners, RepoStep
<1>2. IInv /\ IInv' /\ [Next]_vars =>
        \A phone \in Phones :
          LET before == ByPhone(repo, phone)
              after  == ByPhone(repo', phone)
          IN before \notin touched' \cup {None} =>
               after = before \/ (after \in touched' /\ after < before)
  BY <1>1, StepRepo DEF IInv
<1>3. QED
  BY <1>2, Invariance, PTL DEF Spec, RoutesStick
-----------------------------------------------------------------------------
(* Status and containers.  A status speaks of the container because        *)
(* nobody's call on an undisturbed tenant is contradicted, and because a   *)
(* call whose spawner has done its work still finds the container as the   *)
(* spawner left it.                                                        *)
Calm(id) ==
  /\ ~ (Contradicted(id, Up) /\ Contradicted(id, Down))
  /\ \A p \in Processes : target[p] = id =>
       /\ pc[p] = "spawned" => id \in running
       /\ pc[p] = "stopped" => id \notin running

LifeInv == \A id \in Ids(repo) \ disturbed : Calm(id)

(* A step of one coroutine: the others stay where they are.                *)
Moves(p, phase, id) ==
  /\ pc' = [pc EXCEPT ![p] = phase]
  /\ target' = [target EXCEPT ![p] = id]

(* What a step means for a tenant's lifecycle: nothing; or a coroutine     *)
(* enters a call, is answered by the spawner, or ends a call; or a tenant  *)
(* is new.                                                                 *)
Unmoved(id) ==
  /\ id \in Ids(repo)
  /\ repo'[id].status = repo[id].status
  /\ id \in running' <=> id \in running
  /\ \A p \in Processes :
       /\ target[p] = id /\ pc[p] \in Up \cup Down => target'[p] = id /\ pc'[p] = pc[p]
       /\ target'[p] = id /\ pc'[p] \in Up \cup Down => target[p] = id /\ pc[p] = pc'[p]

Enters(id) ==
  \E p \in Processes, phase \in {"spawning", "stopping"} :
    /\ id \in Ids(repo)
    /\ repo' = repo /\ running' = running
    /\ pc[p] = "idle" /\ Moves(p, phase, id)
    /\ ~ Contradicted(id, IF phase = "spawning" THEN Down ELSE Up)

TakesEffect(id) ==
  \E p \in Processes :
    /\ id \in Ids(repo) /\ target[p] = id
    /\ repo' = repo
    /\ \/ pc[p] = "spawning" /\ Moves(p, "spawned", id) /\ running' = running \cup {id}
       \/ pc[p] = "stopping" /\ Moves(p, "stopped", id) /\ running' = running \ {id}

Ends(id) ==
  \E p \in Processes :
    /\ id \in Ids(repo) /\ target[p] = id
    /\ running' = running
    /\ \E next \in {"idle", "publishing"}, t \in {None, id} : Moves(p, next, t)
    /\ \/ pc[p] = "spawned" /\ repo'[id].status = "ACTIVE"
       \/ pc[p] = "stopped" /\ repo'[id].status = "SUSPENDED"

IsNew(id) ==
  /\ id = Len(repo) + 1
  /\ repo'[id].status = "PROVISIONING"
  /\ running' = running
  /\ \/ pc' = pc /\ target' = target
     \/ \E d \in Deliveries : Moves(d, "spawning", id)

(* No tenant becomes undisturbed.                                          *)
LEMMA StepDisturbs == [Next]_vars => disturbed \subseteq disturbed'
  BY NextCases
     DEF vars, Replay, Provision, DeliveryActivates, HandlersReturn, HandlerRaises, Enter,
         OperatorActivates, OperatorSuspends, StopTakesEffect, SpawnTakesEffect, SpawnerFails,
         CreateTenant, UpdateTenant

(* Every step is one of these, for every tenant it leaves undisturbed.     *)
LEMMA StepLife ==
  ASSUME TypeOK, CallInv, [Next]_vars, NEW id \in Ids(repo') \ disturbed'
  PROVE  Unmoved(id) \/ Enters(id) \/ TakesEffect(id) \/ Ends(id) \/ IsNew(id)
<1> DEFINE Goal == Unmoved(id) \/ Enters(id) \/ TakesEffect(id) \/ Ends(id) \/ IsNew(id)
<1> USE ProcessesAssumption, PhonesAssumption DEF Processes
<1>0. /\ pc \in [Processes -> {"idle"} \cup InFlight \cup Answers]
      /\ target \in [Processes -> {None} \cup Ids(repo)]
      /\ \A p \in Processes : pc[p] \in Up \cup Down => target[p] \in Ids(repo)
      /\ None \notin Ids(repo) \cup Ids(repo')
  <2>1. None \notin Ids(repo) \cup Ids(repo')
    BY LenProperties, StepTypes DEF TypeOK, Ids, None
  <2>2. QED
    BY <2>1 DEF TypeOK, CallInv, InFlight
<1>1. ASSUME NEW p \in Processes, pc[p] \notin Up \cup Down,
             NEW phase, phase \notin Up \cup Down,
             pc' = [pc EXCEPT ![p] = phase],
             \A q \in Processes \ {p} : target'[q] = target[q],
             repo' = repo, running' = running
      PROVE  Goal
  BY <1>0, <1>1 DEF Unmoved, Ids
<1>2. ASSUME NEW d \in Deliveries, NEW phone \in SignupPhones, Replay(d, phone) PROVE Goal
  BY <1>0, <1>1, <1>2 DEF Replay, Up, Down
<1>3. ASSUME NEW d \in Deliveries, HandlersReturn(d) \/ HandlerRaises(d) PROVE Goal
  BY <1>0, <1>1, <1>3 DEF HandlersReturn, HandlerRaises, Up, Down
<1>4. ASSUME NEW tenant \in Tenant, repo' = Add(repo, tenant), tenant.status = "PROVISIONING",
             running' = running,
             \/ pc' = pc /\ target' = target
             \/ \E d \in Deliveries : pc[d] = "idle" /\ Moves(d, "spawning", Len(repo) + 1)
      PROVE  Goal
  <2>1. /\ Ids(repo') = Ids(repo) \cup {Len(repo) + 1}
        /\ \A i \in Ids(repo) : repo'[i] = repo[i]
        /\ repo'[Len(repo) + 1] = tenant
    BY <1>4, AddStep
  <2>2. CASE id = Len(repo) + 1
    BY <1>4, <2>1, <2>2 DEF IsNew
  <2>3. CASE id # Len(repo) + 1
    <3>1. id \in Ids(repo) /\ repo'[id].status = repo[id].status
      BY <2>1, <2>3
    <3>2. CASE pc' = pc /\ target' = target
      BY <1>4, <3>1, <3>2 DEF Unmoved
    <3>3. ASSUME NEW d \in Deliveries, pc[d] = "idle", Moves(d, "spawning", Len(repo) + 1) PROVE Goal
      <4>1. \A q \in Processes : /\ pc'[q] = IF q = d THEN "spawning" ELSE pc[q]
                                 /\ target'[q] = IF q = d THEN Len(repo) + 1 ELSE target[q]
        BY <1>0, <3>3 DEF Moves
      <4>2. QED
        BY <1>4, <2>3, <3>1, <3>3, <4>1 DEF Unmoved, Up, Down
    <3>4. QED
      BY <1>4, <3>2, <3>3
  <2>4. QED
    BY <2>2, <2>3
<1>5. ASSUME NEW d \in Deliveries, NEW phone \in SignupPhones, NEW base \in Bases, Provision(d, phone, base)
      PROVE  Goal
  <2> DEFINE tenant == NewTenant(UniqueSlug(repo, base), phone)
  <2>1. tenant \in Tenant /\ ~ SlugTaken(repo, UniqueSlug(repo, base))
    BY UniqueSlugIsFree, BasesAssumption, NewTenantType DEF TypeOK
  <2>2. tenant.status = "PROVISIONING"
    BY DEF NewTenant
  <2>3. repo' = Add(repo, tenant) /\ running' = running
        /\ pc[d] = "idle" /\ Moves(d, "spawning", Len(repo) + 1)
    BY <1>5, <2>1 DEF Provision, Moves
  <2> HIDE DEF tenant
  <2>4. QED
    BY <1>4, <2>1, <2>2, <2>3
<1>6. ASSUME NEW slug \in Bases, NEW phone \in AdminPhones \cup {NoPhone}, CreateTenant(slug, phone)
      PROVE  Goal
  <2>1. NewTenant(slug, phone) \in Tenant /\ NewTenant(slug, phone).status = "PROVISIONING"
    BY BasesAssumption, NewTenantType DEF NewTenant
  <2>2. QED
    BY <1>4, <1>6, <2>1 DEF CreateTenant
<1>7. ASSUME NEW i \in Ids(repo), NEW phone \in AdminPhones, UpdateTenant(i, phone) PROVE Goal
  <2> DEFINE tenant == [repo[i] EXCEPT !.phone = phone]
  <2>1. repo[i] \in Tenant
    BY ElementOfSeq DEF TypeOK, Ids
  <2>2. tenant \in Tenant /\ tenant.status = repo[i].status
    BY <2>1, PhoneWriteType DEF Tenant
  <2>3. repo' = Update(repo, i, tenant) /\ UNCHANGED <<running, pc, target>>
    BY <1>7 DEF UpdateTenant
  <2> HIDE DEF tenant
  <2>4. /\ Ids(repo') = Ids(repo)
        /\ \A j \in Ids(repo) : repo'[j] = IF j = i THEN tenant ELSE repo[j]
    BY <2>2, <2>3, UpdateStep
  <2>5. QED
    BY <2>2, <2>3, <2>4 DEF Unmoved
<1>8. ASSUME NEW o \in Operators, NEW i \in Ids(repo), NEW phase \in {"spawning", "stopping"},
             Enter(o, i, phase, IF phase = "spawning" THEN Down ELSE Up)
      PROVE  Goal
  <2>1. CASE i = id
    <3>1. ~ Contradicted(id, IF phase = "spawning" THEN Down ELSE Up)
      BY <1>8, <2>1 DEF Enter
    <3>2. pc[o] = "idle" /\ Moves(o, phase, id) /\ repo' = repo /\ running' = running
      BY <1>8, <2>1 DEF Enter, Moves
    <3>3. QED
      BY <2>1, <3>1, <3>2 DEF Enters
  <2>2. CASE i # id
    <3>1. \A q \in Processes : /\ pc'[q] = IF q = o THEN phase ELSE pc[q]
                               /\ target'[q] = IF q = o THEN i ELSE target[q]
      BY <1>0, <1>8 DEF Enter
    <3>2. repo' = repo /\ running' = running /\ pc[o] = "idle"
      BY <1>8 DEF Enter
    <3>3. QED
      BY <2>2, <3>1, <3>2 DEF Unmoved, Up, Down, Ids
  <2>3. QED
    BY <2>1, <2>2
<1>9. ASSUME NEW p \in Processes, SpawnTakesEffect(p) \/ StopTakesEffect(p) PROVE Goal
  <2>1. target[p] \in Ids(repo) /\ target' = [target EXCEPT ![p] = target[p]] /\ repo' = repo
    BY <1>0, <1>9 DEF SpawnTakesEffect, StopTakesEffect, Up, Down
  <2>2. CASE target[p] = id
    BY <1>9, <2>1, <2>2 DEF SpawnTakesEffect, StopTakesEffect, TakesEffect, Moves
  <2>3. CASE target[p] # id
    <3>1. \A q \in Processes \ {p} : pc'[q] = pc[q] /\ target'[q] = target[q]
      BY <1>0, <1>9 DEF SpawnTakesEffect, StopTakesEffect
    <3>2. target'[p] = target[p]
      BY <1>0, <2>1
    <3>3. id \in running' <=> id \in running
      BY <1>9, <2>3 DEF SpawnTakesEffect, StopTakesEffect
    <3>4. QED
      BY <2>1, <2>3, <3>1, <3>2, <3>3 DEF Unmoved, Ids
  <2>4. QED
    BY <2>2, <2>3
<1>10. ASSUME NEW p \in Processes,
              \/ pc[p] = "spawned" /\ WriteCopy(p, "ACTIVE")
              \/ pc[p] = "stopped" /\ WriteCopy(p, "SUSPENDED"),
              NEW next \in {"idle", "publishing"}, NEW t \in {None, target[p]}, Moves(p, next, t),
              running' = running
       PROVE  Goal
  <2>1. PICK status \in {"ACTIVE", "SUSPENDED"} :
          /\ pc[p] = IF status = "ACTIVE" THEN "spawned" ELSE "stopped"
          /\ WriteCopy(p, status)
    BY <1>10
  <2> DEFINE tenant == [copy[p] EXCEPT !.status = status]
  <2>2. copy[p] \in Tenant
    BY DEF TypeOK
  <2>3. tenant \in Tenant /\ tenant.status = status
    BY <2>2, StatusWriteType DEF TenantStatus, Tenant
  <2>4. target[p] \in Ids(repo) /\ repo' = Update(repo, target[p], tenant)
    BY <1>0, <2>1 DEF WriteCopy, Up, Down
  <2> HIDE DEF tenant
  <2>5. /\ Ids(repo') = Ids(repo)
        /\ \A j \in Ids(repo) : repo'[j] = IF j = target[p] THEN tenant ELSE repo[j]
    BY <2>3, <2>4, UpdateStep
  <2>6. CASE target[p] = id
    BY <1>10, <2>1, <2>3, <2>4, <2>5, <2>6 DEF Ends
  <2>7. CASE target[p] # id
    <3>1. \A q \in Processes : /\ pc'[q] = IF q = p THEN next ELSE pc[q]
                               /\ target'[q] = IF q = p THEN t ELSE target[q]
      BY <1>0, <1>10 DEF Moves
    <3>2. id \in Ids(repo) /\ repo'[id] = repo[id]
      BY <2>5, <2>7
    <3>3. next \notin Up \cup Down
      BY <1>10 DEF Up, Down
    <3>4. QED
      BY <1>10, <2>7, <3>1, <3>2, <3>3 DEF Unmoved
  <2>8. QED
    BY <2>6, <2>7
<1>11. ASSUME NEW d \in Deliveries, DeliveryActivates(d) PROVE Goal
  <2>1. Moves(d, "publishing", target[d])
    BY <1>0, <1>11 DEF DeliveryActivates, Moves
  <2>2. QED
    BY <1>10, <1>11, <2>1 DEF DeliveryActivates
<1>12. ASSUME NEW o \in Operators, OperatorActivates(o) \/ OperatorSuspends(o) PROVE Goal
  BY <1>10, <1>12 DEF OperatorActivates, OperatorSuspends, Moves
<1>13. ASSUME NEW p \in Processes, SpawnerFails(p) PROVE Goal
  <2>1. target[p] # id /\ repo' = repo /\ running' = running
    BY <1>13 DEF SpawnerFails
  <2>2. \A q \in Processes \ {p} : pc'[q] = pc[q] /\ target'[q] = target[q]
    BY <1>0, <1>13 DEF SpawnerFails
  <2>3. pc'[p] \notin Up \cup Down
    BY <1>0, <1>13 DEF SpawnerFails, Up, Down
  <2>4. QED
    BY <2>1, <2>2, <2>3 DEF Unmoved, Ids
<1>14. CASE UNCHANGED vars
  BY <1>14 DEF vars, Unmoved, Ids
<1>15. QED
  BY <1>2, <1>3, <1>5, <1>6, <1>7, <1>8, <1>9, <1>11, <1>12, <1>13, <1>14, NextCases

(* The status and the container of an undisturbed tenant agree.            *)
StatusAgrees(id) ==
  /\ repo[id].status = "ACTIVE" /\ ~ Contradicted(id, Down) => id \in running
  /\ repo[id].status # "ACTIVE" /\ ~ Contradicted(id, Up) => id \notin running

(* Whatever happens to such a tenant, it stays calm and its status true.   *)
LEMMA CalmStays ==
  ASSUME TypeOK, CallInv, [Next]_vars, NEW id \in Ids(repo') \ disturbed',
         id \in Ids(repo) => Calm(id) /\ StatusAgrees(id)
  PROVE  Calm(id)' /\ StatusAgrees(id)'
<1> USE DEF Contradicted, Up, Down
<1>0. /\ pc \in [Processes -> {"idle"} \cup InFlight \cup Answers]
      /\ target \in [Processes -> {None} \cup Ids(repo)]
      /\ None \notin Ids(repo) /\ Len(repo) + 1 \notin Ids(repo) \cup {None}
      /\ running \subseteq Ids(repo)
      /\ Deliveries \subseteq Processes
  BY LenProperties DEF TypeOK, Ids, None, Processes
<1>1. CASE Unmoved(id)
  BY <1>1 DEF Unmoved, Calm, StatusAgrees
<1>2. ASSUME NEW p \in Processes, NEW phase, NEW t, Moves(p, phase, t)
      PROVE  \A q \in Processes : /\ pc'[q] = IF q = p THEN phase ELSE pc[q]
                                  /\ target'[q] = IF q = p THEN t ELSE target[q]
  BY <1>0, <1>2 DEF Moves
<1>3. CASE Enters(id)
  BY <1>2, <1>3 DEF Enters, Calm, StatusAgrees
<1>4. CASE TakesEffect(id)
  BY <1>2, <1>4 DEF TakesEffect, Calm, StatusAgrees
<1>5. CASE Ends(id)
  BY <1>2, <1>5 DEF Ends, Calm, StatusAgrees
<1>6. CASE IsNew(id)
  BY <1>0, <1>2, <1>6 DEF IsNew, Calm, StatusAgrees
<1>7. QED
  BY <1>1, <1>3, <1>4, <1>5, <1>6, StepLife

(* A status tells whether the container runs, for every tenant whose       *)
(* lifecycle calls all succeeded and never contradicted each other.        *)
THEOREM StatusTellsLivenessThm == Spec => []StatusTellsLiveness
<1>1. Init => LifeInv /\ StatusTellsLiveness
  BY DEF Init, LifeInv, StatusTellsLiveness, Ids
<1>2. IInv /\ LifeInv /\ StatusTellsLiveness /\ [Next]_vars => LifeInv' /\ StatusTellsLiveness'
  <2> SUFFICES ASSUME TypeOK, CallInv, LifeInv, StatusTellsLiveness, [Next]_vars,
                      NEW id \in Ids(repo') \ disturbed'
               PROVE  Calm(id)' /\ StatusAgrees(id)'
    BY Zenon DEF IInv, LifeInv, StatusTellsLiveness, StatusAgrees
  <2>1. id \in Ids(repo) => Calm(id) /\ StatusAgrees(id)
    BY StepDisturbs DEF LifeInv, StatusTellsLiveness, StatusAgrees
  <2>2. QED
    BY <2>1, CalmStays
<1>3. QED
  BY <1>1, <1>2, Invariance, PTL DEF Spec
=============================================================================
