-------------------------- MODULE TenantRepository --------------------------
(***************************************************************************)
(* The in-memory tenant repository (src/src/sample/tenant/repository.py)   *)
(* and what TenantManager and OnboardingFlow compute from it in one        *)
(* synchronous call.  The event loop cannot run another coroutine in the   *)
(* middle of one of these calls, so they are operators on the repository's *)
(* value, not actions.                                                     *)
(*                                                                         *)
(* The repository is a Python dict keyed by a fresh uuid.  A dict keeps    *)
(* its insertion order, overwriting a key keeps the key's place, and no    *)
(* operation deletes a key: the dict is a sequence of tenants, and the id  *)
(* of a tenant is its position in it.  A Tenant keeps the fields the       *)
(* system tells tenants apart by.                                          *)
(***************************************************************************)
EXTENDS Naturals, Sequences, FiniteSetsExt

CONSTANTS Phones,    \* Meta's phone_number_ids
          NoPhone,   \* whatsapp_phone_number_id = None
          Words,     \* the words slugs are made of
          Bases      \* what slugify makes of the business names

ASSUME NoPhoneAssumption == NoPhone \notin Phones

(* The slug "acme" is <<acme>> and "acme-2" is <<acme, 2>>.                *)
Slug == Seq(Words \cup Nat)

(* "Acme" and "Acme 2" are both legal names: a base may end in a number,   *)
(* and so collide with the suffix given to another tenant.                 *)
ASSUME BasesAssumption == Bases \subseteq Slug

TenantStatus == {"PROVISIONING", "ACTIVE", "SUSPENDED"}

Tenant == [slug : Slug, phone : Phones \cup {NoPhone}, status : TenantStatus]

-----------------------------------------------------------------------------
(* Look-ups.                                                               *)

None == 0

Ids(repo) == 1 .. Len(repo)

(* A defective by_slug that overlooks tenants without a number.            *)
SlugTaken_OnlyRouted(repo, slug) ==
  \E i \in Ids(repo) : repo[i].slug = slug /\ repo[i].phone # NoPhone

(* by_slug(slug) is not None                                               *)
SlugTaken(repo, slug) == \E i \in Ids(repo) : repo[i].slug = slug

(* A defective look-up that overlooks tenants that are not active yet.     *)
Owners_OnlyActive(repo, phone) ==
  {i \in Ids(repo) : repo[i].phone = phone /\ repo[i].status = "ACTIVE"}

(* The tenants that hold a phone number.                                   *)
Owners(repo, phone) == {i \in Ids(repo) : repo[i].phone = phone}

(* by_phone_number_id scans the dict in insertion order and returns the    *)
(* first tenant that holds the number, whatever its status: an inbound     *)
(* message for the number goes to that tenant (TenantRouter.try_resolve).  *)
ByPhone(repo, phone) ==
  IF Owners(repo, phone) = {} THEN None ELSE Min(Owners(repo, phone))

-----------------------------------------------------------------------------
(* Writes.                                                                 *)

(* A defective Tenant: an empty string where there is no number.           *)
NewTenant_EmptyNumber(slug, phone) ==
  [slug |-> slug, phone |-> IF phone = NoPhone THEN "" ELSE phone, status |-> "PROVISIONING"]

(* A Tenant with its defaults.                                             *)
NewTenant(slug, phone) ==
  [slug |-> slug, phone |-> phone, status |-> "PROVISIONING"]

(* A created tenant goes to the end of the dict.                           *)
Add(repo, tenant) == Append(repo, tenant)

(* update(tenant) replaces the whole stored tenant by the caller's copy.   *)
Update(repo, id, tenant) == [repo EXCEPT ![id] = tenant]

-----------------------------------------------------------------------------
(* Slugs.                                                                  *)

(* base, base-2, base-3, ...                                               *)
Candidate(base, n) == IF n = 1 THEN base ELSE Append(base, n)

(* A defective flow that takes the business name's slug as it is.         *)
UniqueSlug_NoSuffix(repo, base) == base

(* _unique_slug: the first candidate nobody holds.  There is one among     *)
(* Len(repo) + 1 candidates, so the loop ends (UniqueSlugIsFree).          *)
UniqueSlug(repo, base) ==
  Candidate(base, Min({n \in 1 .. Len(repo) + 1 : ~ SlugTaken(repo, Candidate(base, n))}))
=============================================================================
