----------------------------- MODULE Onboarding -----------------------------
(***************************************************************************)
(* Tenants in one API process: the onboarding flow behind                  *)
(* POST /tenants/connect-whatsapp, the supervisor that brings tenants up   *)
(* and down, the admin endpoints that create and edit tenants, the spawner *)
(* and the event bus they call.                                            *)
(*                                                                         *)
(* A process is an asyncio coroutine: a delivery of Meta's sign-up         *)
(* callback, or an operator's call of the supervisor.  Coroutines share    *)
(* one event loop and interleave only where one of them awaits: between    *)
(* two awaits everything is a single action.  The awaited calls here are   *)
(* the spawner's (a container runtime behind a network) and the event      *)
(* handlers'.  The admin endpoints await nothing and are single actions.   *)
(***************************************************************************)
EXTENDS TenantRepository

CONSTANTS Deliveries,    \* deliveries of Meta's callback, retries included
          Operators,     \* callers of the supervisor
          SignupPhones,  \* numbers that sign up through the callback
          AdminPhones,   \* numbers administrators write
          MaxTenants     \* bound: tenants

ASSUME PhonesAssumption == SignupPhones \subseteq Phones /\ AdminPhones \subseteq Phones
ASSUME ProcessesAssumption == Deliveries \cap Operators = {}
ASSUME MaxTenantsAssumption == MaxTenants \in Nat

Processes == Deliveries \cup Operators

VARIABLES
  repo,       \* the repository's dict
  running,    \* the containers that run, by tenant id
  events,     \* the tenants announced by tenant.onboarded, in order
  pc,         \* where each coroutine is suspended, or how it was answered
  target,     \* the tenant id a coroutine works on
  copy,       \* the Tenant object a coroutine read before it awaited
  touched,    \* history: tenants whose number an administrator wrote
  disturbed   \* history: tenants with a failed or contradicted lifecycle call

vars == <<repo, running, events, pc, target, copy, touched, disturbed>>

Up        == {"spawning", "spawned"}   \* awaiting spawner.spawn
Down      == {"stopping", "stopped"}   \* awaiting spawner.stop
InFlight  == Up \cup Down \cup {"publishing"}
Answers   == {"created", "replayed", "failed", "rejected"}

Announced(id) == \E a \in Ids(events) : events[a] = id

BlankTenant == NewTenant(<<>>, NoPhone)

TypeOK ==
  /\ repo \in Seq(Tenant)
  /\ running \subseteq Ids(repo)
  /\ events \in Seq(Ids(repo))
  /\ pc \in [Processes -> {"idle"} \cup InFlight \cup Answers]
  /\ target \in [Processes -> {None} \cup Ids(repo)]
  /\ copy \in [Processes -> Tenant]
  /\ touched \subseteq Ids(repo)
  /\ disturbed \subseteq Ids(repo)

Init ==
  /\ repo = <<>>
  /\ running = {}
  /\ events = <<>>
  /\ pc = [p \in Processes |-> "idle"]
  /\ target = [p \in Processes |-> None]
  /\ copy = [p \in Processes |-> BlankTenant]
  /\ touched = {}
  /\ disturbed = {}

-----------------------------------------------------------------------------
(* The onboarding flow, from the callback to its first await.              *)

(* A defective Replay that resumes the provisioning it finds unfinished,   *)
(* while another delivery may still be at it.                              *)
Replay_Resumes(d, phone) ==
  LET id == ByPhone(repo, phone) IN
  /\ pc[d] = "idle"
  /\ Owners(repo, phone) # {}
  /\ pc' = [pc EXCEPT ![d] = IF repo[id].status = "ACTIVE" THEN "replayed" ELSE "spawning"]
  /\ target' = [target EXCEPT ![d] = id]
  /\ copy' = [copy EXCEPT ![d] = repo[id]]
  /\ UNCHANGED <<repo, running, events, touched, disturbed>>

(* A callback for a number some tenant holds changes nothing: it is        *)
(* answered 201 with is_new = False.                                       *)
Replay(d, phone) ==
  /\ pc[d] = "idle"
  /\ Owners(repo, phone) # {}
  /\ pc' = [pc EXCEPT ![d] = "replayed"]
  /\ target' = [target EXCEPT ![d] = ByPhone(repo, phone)]
  /\ UNCHANGED <<repo, running, events, copy, touched, disturbed>>

(* A callback for a number nobody holds creates the tenant, gives it the   *)
(* number, renders its SOUL and enters bring_up, which reads the tenant    *)
(* back and awaits the spawner.  create would answer 422 to a taken slug.  *)
Provision(d, phone, base) ==
  LET slug   == UniqueSlug(repo, base)
      tenant == NewTenant(slug, phone)
  IN /\ pc[d] = "idle"
     /\ Len(repo) < MaxTenants
     /\ Owners(repo, phone) = {}
     /\ IF SlugTaken(repo, slug)
        THEN /\ pc' = [pc EXCEPT ![d] = "rejected"]
             /\ UNCHANGED <<repo, target, copy>>
        ELSE /\ repo' = Add(repo, tenant)
             /\ pc' = [pc EXCEPT ![d] = "spawning"]
             /\ target' = [target EXCEPT ![d] = Len(repo) + 1]
             /\ copy' = [copy EXCEPT ![d] = tenant]
     /\ UNCHANGED <<running, events, touched, disturbed>>

Callback(d) ==
  \E phone \in SignupPhones :
    \/ Replay(d, phone)
    \/ \E base \in Bases : Provision(d, phone, base)

-----------------------------------------------------------------------------
(* The supervisor.  bring_up, bring_down and TenantManager.activate read   *)
(* the tenant, await the spawner and write their own copy back.            *)

(* Two lifecycle calls contradict each other when one of them starts a     *)
(* tenant while the other one stops it.                                    *)
Contradicted(id, phases) ==
  \E p \in Processes : target[p] = id /\ pc[p] \in phases

Enter(o, id, phase, opposite) ==
  /\ pc[o] = "idle"
  /\ pc' = [pc EXCEPT ![o] = phase]
  /\ target' = [target EXCEPT ![o] = id]
  /\ copy' = [copy EXCEPT ![o] = repo[id]]
  /\ disturbed' = IF Contradicted(id, opposite) THEN disturbed \cup {id} ELSE disturbed
  /\ UNCHANGED <<repo, running, events, touched>>

(* A defective bring_down that does not wait for the spawner to stop.      *)
BringDown_NotAwaited(o, id) == Enter(o, id, "stopped", Up)

BringUp(o, id)   == Enter(o, id, "spawning", Down)
Activate(o, id)  == Enter(o, id, "spawning", Down)
BringDown(o, id) == Enter(o, id, "stopping", Up)

(* The spawner's effects happen some time before the caller resumes.       *)
SpawnTakesEffect(p) ==
  /\ pc[p] = "spawning"
  /\ running' = running \cup {target[p]}
  /\ pc' = [pc EXCEPT ![p] = "spawned"]
  /\ UNCHANGED <<repo, events, target, copy, touched, disturbed>>

StopTakesEffect(p) ==
  /\ pc[p] = "stopping"
  /\ running' = running \ {target[p]}
  /\ pc' = [pc EXCEPT ![p] = "stopped"]
  /\ UNCHANGED <<repo, events, target, copy, touched, disturbed>>

(* A defective supervisor that writes back a new Tenant without a number.  *)
WriteCopy_LosesNumber(p, status) ==
  /\ repo' = Update(repo, target[p], [copy[p] EXCEPT !.status = status, !.phone = NoPhone])
  /\ copy' = [copy EXCEPT ![p] = BlankTenant]

(* The end of a supervisor call: the caller's copy, with the new status,   *)
(* replaces whatever the repository holds by now.                          *)
WriteCopy(p, status) ==
  /\ repo' = Update(repo, target[p], [copy[p] EXCEPT !.status = status])
  /\ copy' = [copy EXCEPT ![p] = BlankTenant]

OperatorActivates(o) ==
  /\ pc[o] = "spawned"
  /\ WriteCopy(o, "ACTIVE")
  /\ pc' = [pc EXCEPT ![o] = "idle"]
  /\ target' = [target EXCEPT ![o] = None]
  /\ UNCHANGED <<running, events, touched, disturbed>>

OperatorSuspends(o) ==
  /\ pc[o] = "stopped"
  /\ WriteCopy(o, "SUSPENDED")
  /\ pc' = [pc EXCEPT ![o] = "idle"]
  /\ target' = [target EXCEPT ![o] = None]
  /\ UNCHANGED <<running, events, touched, disturbed>>

(* In the flow the write is followed, with no await between, by publish,   *)
(* which records the event and then awaits the handlers.                   *)
DeliveryActivates(d) ==
  /\ pc[d] = "spawned"
  /\ WriteCopy(d, "ACTIVE")
  /\ events' = Append(events, target[d])
  /\ pc' = [pc EXCEPT ![d] = "publishing"]
  /\ UNCHANGED <<running, target, touched, disturbed>>

(* A defective flow that swallows the spawner's exception and reports      *)
(* success.                                                                *)
SpawnerFails_Swallowed(p) ==
  /\ pc[p] \in Up \cup Down
  /\ copy' = [copy EXCEPT ![p] = BlankTenant]
  /\ disturbed' = disturbed \cup {target[p]}
  /\ IF p \in Deliveries
     THEN pc' = [pc EXCEPT ![p] = "created"] /\ UNCHANGED target
     ELSE pc' = [pc EXCEPT ![p] = "idle"] /\ target' = [target EXCEPT ![p] = None]
  /\ UNCHANGED <<repo, running, events, touched>>

(* The spawner raises, before its effect or after it.  Nothing catches the *)
(* exception: a callback is answered 500, an operator's call raises.       *)
SpawnerFails(p) ==
  /\ pc[p] \in Up \cup Down
  /\ copy' = [copy EXCEPT ![p] = BlankTenant]
  /\ disturbed' = disturbed \cup {target[p]}
  /\ IF p \in Deliveries
     THEN pc' = [pc EXCEPT ![p] = "failed"] /\ UNCHANGED target
     ELSE pc' = [pc EXCEPT ![p] = "idle"] /\ target' = [target EXCEPT ![p] = None]
  /\ UNCHANGED <<repo, running, events, touched>>

(* The handlers of tenant.onboarded all return, and the callback is        *)
(* answered 201 with is_new = True; or one of them raises: 500.            *)
HandlersReturn(d) ==
  /\ pc[d] = "publishing"
  /\ pc' = [pc EXCEPT ![d] = "created"]
  /\ UNCHANGED <<repo, running, events, target, copy, touched, disturbed>>

HandlerRaises(d) ==
  /\ pc[d] = "publishing"
  /\ pc' = [pc EXCEPT ![d] = "failed"]
  /\ UNCHANGED <<repo, running, events, target, copy, touched, disturbed>>

-----------------------------------------------------------------------------
(* The admin endpoints.                                                    *)

(* POST /tenants: 409 on a taken slug, no look at who holds the number.    *)
CreateTenant(slug, phone) ==
  /\ Len(repo) < MaxTenants
  /\ ~ SlugTaken(repo, slug)
  /\ repo' = Add(repo, NewTenant(slug, phone))
  /\ touched' = IF phone = NoPhone THEN touched ELSE touched \cup {Len(repo) + 1}
  /\ UNCHANGED <<running, events, pc, target, copy, disturbed>>

(* A defective PATCH that builds a fresh Tenant around the new number.     *)
UpdateTenant_Rebuilds(id, phone) ==
  /\ repo' = Update(repo, id, NewTenant(repo[id].slug, phone))
  /\ touched' = touched \cup {id}
  /\ UNCHANGED <<running, events, pc, target, copy, disturbed>>

(* PATCH /tenants/{id} with a number: read, change, write, no await and no *)
(* look at who holds the number.                                           *)
UpdateTenant(id, phone) ==
  /\ repo' = Update(repo, id, [repo[id] EXCEPT !.phone = phone])
  /\ touched' = touched \cup {id}
  /\ UNCHANGED <<running, events, pc, target, copy, disturbed>>

-----------------------------------------------------------------------------
DeliveryStep(d) ==
  \/ Callback(d)
  \/ DeliveryActivates(d)
  \/ HandlersReturn(d)
  \/ HandlerRaises(d)

OperatorStep(o) ==
  \/ \E id \in Ids(repo) : BringUp(o, id) \/ Activate(o, id) \/ BringDown(o, id)
  \/ OperatorActivates(o)
  \/ OperatorSuspends(o)
  \/ StopTakesEffect(o)

AdminStep ==
  \/ \E slug \in Bases, phone \in AdminPhones \cup {NoPhone} : CreateTenant(slug, phone)
  \/ \E id \in Ids(repo), phone \in AdminPhones : UpdateTenant(id, phone)

Next ==
  \/ \E d \in Deliveries : DeliveryStep(d)
  \/ \E o \in Operators : OperatorStep(o)
  \/ \E p \in Processes : SpawnTakesEffect(p) \/ SpawnerFails(p)
  \/ AdminStep

Spec == Init /\ [][Next]_vars
-----------------------------------------------------------------------------
(* Safety properties.                                                      *)

(* No two tenants share a slug, whichever of POST /tenants and the         *)
(* callback created them and however the calls interleave: the slug names  *)
(* the tenant's buyers in the memory (buyer_id_for).                       *)
SlugsUnique ==
  \A i, j \in Ids(repo) : repo[i].slug = repo[j].slug => i = j

(* The suffix loop always ends on a slug that create accepts, also when a  *)
(* business name already ends in a number: no callback is answered 422.    *)
NeverRejected == \A d \in Deliveries : pc[d] # "rejected"

(* Callbacks alone never give one number to two tenants, although the flow *)
(* writes stale copies back and deliveries of one sign-up overlap: of two  *)
(* tenants with the same number an administrator wrote the number of one.  *)
UntouchedNumbersUnique ==
  \A i, j \in Ids(repo) :
    /\ repo[i].phone = repo[j].phone
    /\ repo[i].phone # NoPhone
    /\ {i, j} \cap touched = {}
    => i = j

(* A tenant is announced once, however often Meta repeats its callback.    *)
AnnouncedOnce ==
  \A a, b \in Ids(events) : events[a] = events[b] => a = b

(* A callback answered is_new = True provisioned its tenant to the end,    *)
(* and no other callback got that answer for the same tenant.              *)
CreatedMeansOnboarded ==
  \A d \in Deliveries : pc[d] = "created" =>
    /\ Announced(target[d])
    /\ repo[target[d]].status # "PROVISIONING"
    /\ \A e \in Deliveries : pc[e] = "created" /\ target[e] = target[d] => e = d

(* The recorded status tells whether the container runs, unless a          *)
(* lifecycle call failed or an opposite one overlapped it: an active       *)
(* tenant nobody is stopping runs, and one that is not active and nobody   *)
(* is starting does not.                                                   *)
StatusTellsLiveness ==
  \A id \in Ids(repo) \ disturbed :
    /\ repo[id].status = "ACTIVE" /\ ~ Contradicted(id, Down) => id \in running
    /\ repo[id].status # "ACTIVE" /\ ~ Contradicted(id, Up) => id \notin running

(* Tenants stay, keep their slug and never return to provisioning: no      *)
(* stale copy undoes those, although it may undo a change of the number.   *)
TenantsPersist ==
  [][\A id \in Ids(repo) :
       /\ id \in Ids(repo')
       /\ repo'[id].slug = repo[id].slug
       /\ repo[id].status # "PROVISIONING" => repo'[id].status # "PROVISIONING"]_vars

(* The messages of a number go to one tenant for ever, unless an           *)
(* administrator wrote that tenant's number or gave the number to an older *)
(* tenant, which the router then prefers.                                  *)
RoutesStick ==
  [][\A phone \in Phones :
       LET before == ByPhone(repo, phone)
           after  == ByPhone(repo', phone)
       IN before \notin touched' \cup {None} =>
            after = before \/ (after \in touched' /\ after < before)]_vars

-----------------------------------------------------------------------------
(* What the repository's documentation claims and the code does not do.    *)

(* "Idempotent on phone_number_id ... we must NOT create duplicates"       *)
(* (onboarding/flow.py): a number that signs up through the callback, and  *)
(* that no administrator ever writes, belongs to one tenant at most.       *)
SignupNumbersUnique ==
  \A i, j \in Ids(repo) :
    repo[i].phone = repo[j].phone /\ repo[i].phone \in SignupPhones \ AdminPhones => i = j

(* "False = already onboarded (no-op)" (onboarding/flow.py): when no       *)
(* callback is in progress, a replayed one had a predecessor that was      *)
(* answered is_new = True, unless an administrator wrote the number.       *)
ReplayMeansOnboarded ==
  (\A d \in Deliveries : pc[d] \notin InFlight) =>
    \A d \in Deliveries : pc[d] = "replayed" /\ target[d] \notin touched =>
      \E e \in Deliveries : pc[e] = "created" /\ target[e] = target[d]
=============================================================================
