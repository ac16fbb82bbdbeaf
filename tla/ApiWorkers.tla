----------------------------- MODULE ApiWorkers -----------------------------
(***************************************************************************)
(* The API as docker-compose.prod.yml runs it: several uvicorn workers     *)
(* behind one port, each with a Client of its own in memory.  They share   *)
(* the rate limiter's counters, which APP_RATE_LIMIT_STORAGE puts into     *)
(* Redis.  A request goes to whichever worker accepts it.  A worker that   *)
(* is restarted (restart: always, or uvicorn's own supervision) starts     *)
(* from nothing; the counters stay.                                        *)
(*                                                                         *)
(* Redis counts a hit in one step.  With the adapters main.py builds, what *)
(* a worker does after it runs to the answer without suspending and on the *)
(* worker's own state, so a request is one action; what overlaps inside    *)
(* one worker is the subject of Onboarding and Webhook.  All requests come *)
(* from one address, as Meta's do behind one proxy.                        *)
(***************************************************************************)
EXTENDS Integers, FiniteSets

CONSTANTS Workers,     \* uvicorn's processes
          Numbers,     \* phone_number_ids signed up by a callback
          Messages,    \* deliveries of one message each
          NumberOf,    \* the number each message was sent to
          Limit,       \* requests per window, of each limited route
          Window,      \* length of a window, in ticks of the clock
          MaxRestarts, \* bound: restarts of a worker
          MaxErrors    \* bound: requests that Redis fails

ASSUME WorkersAssumption == IsFiniteSet(Workers) /\ Workers # {}
ASSUME MessagesAssumption == NumberOf \in [Messages -> Numbers]
ASSUME LimitsAssumption ==
  /\ Limit \in [{"onboard", "webhook"} -> Nat \ {0}]
  /\ Window \in Nat \ {0}
  /\ {MaxRestarts, MaxErrors} \subseteq Nat

Routes == DOMAIN Limit

VARIABLES
  known,     \* the numbers the tenants of each worker hold
  limiter,   \* of each route: the hits counted, and how long they count yet
  recent,    \* history: requests accepted on each route in the latest i ticks
  news,      \* history: how often each number was answered is_new
  answer,    \* what Meta was answered for each message
  restarts,  \* restarts so far
  errors     \* requests that Redis failed so far

vars == <<known, limiter, recent, news, answer, restarts, errors>>

Unused == [hits |-> 0, left |-> 0]
Nothing == [i \in 1 .. Window |-> 0]

Init ==
  /\ known = [w \in Workers |-> {}]
  /\ limiter = [r \in Routes |-> Unused]
  /\ recent = [r \in Routes |-> Nothing]
  /\ news = [n \in Numbers |-> 0]
  /\ answer = [m \in Messages |-> "none"]
  /\ restarts = 0
  /\ errors = 0

-----------------------------------------------------------------------------
(* The limiter: slowapi's fixed windows in the storage of limits.          *)

(* A hit is counted before it is judged, and the first one of a window     *)
(* starts it.  Hits beyond the first refused one tell nothing apart.       *)
Counted(r) ==
  LET c == limiter[r] IN
  IF c.left = 0 THEN [hits |-> 1, left |-> Window]
                ELSE [c EXCEPT !.hits = IF @ > Limit[r] THEN @ ELSE @ + 1]

Hit(r) == limiter' = [limiter EXCEPT ![r] = Counted(r)]

(* One request more within any time up to now.                             *)
OneMore(r) ==
  recent' = [recent EXCEPT ![r] = [i \in 1 .. Window |-> recent[r][i] + 1]]

Accepts(r) ==
  /\ Counted(r).hits <= Limit[r]
  /\ Hit(r)
  /\ OneMore(r)

(* RateLimitExceeded is answered 429: nothing happened.                    *)
Refuses(r) ==
  /\ Counted(r).hits > Limit[r]
  /\ Hit(r)
  /\ UNCHANGED <<known, recent, news, answer, restarts, errors>>

(* Redis does not answer, perhaps after it counted the hit; the limiter    *)
(* swallows no errors: the request is answered 500.                        *)
StorageFails(r) ==
  /\ errors < MaxErrors
  /\ errors' = errors + 1
  /\ Hit(r) \/ UNCHANGED limiter
  /\ UNCHANGED <<known, recent, news, answer, restarts>>

(* Time passes, and windows end.                                           *)
Tick ==
  /\ limiter' = [r \in Routes |->
       LET c == limiter[r] IN IF c.left <= 1 THEN Unused ELSE [c EXCEPT !.left = @ - 1]]
  /\ recent' = [r \in Routes |->
       [i \in 1 .. Window |-> IF i = 1 THEN 0 ELSE recent[r][i - 1]]]
  /\ UNCHANGED <<known, news, answer, restarts, errors>>

-----------------------------------------------------------------------------
(* The requests.                                                           *)

(* A defective callback that does not look the number up.                  *)
ConnectWhatsapp_Always(w, n) ==
  /\ Accepts("onboard")
  /\ news' = [news EXCEPT ![n] = @ + 1]
  /\ known' = [known EXCEPT ![w] = @ \cup {n}]
  /\ UNCHANGED <<answer, restarts, errors>>

(* The callback of a sign-up, which Meta may repeat at any time: the       *)
(* worker's own repository decides whether it is a replay.                 *)
ConnectWhatsapp(w, n) ==
  /\ Accepts("onboard")
  /\ news' = IF n \in known[w] THEN news ELSE [news EXCEPT ![n] = @ + 1]
  /\ known' = [known EXCEPT ![w] = @ \cup {n}]
  /\ UNCHANGED <<answer, restarts, errors>>

(* A defective early return that answers what makes Meta repeat.           *)
WebhookReceive_Refuses(w, m) ==
  /\ answer[m] = "none"
  /\ Accepts("webhook")
  /\ answer' = IF NumberOf[m] \in known[w] THEN [answer EXCEPT ![m] = "replied"] ELSE answer
  /\ UNCHANGED <<known, news, restarts, errors>>

(* A message Meta has no 200 for: the worker replies to it, or drops it    *)
(* for want of a tenant; both are answered 200.                            *)
WebhookReceive(w, m) ==
  /\ answer[m] = "none"
  /\ Accepts("webhook")
  /\ answer' = [answer EXCEPT ![m] = IF NumberOf[m] \in known[w] THEN "replied" ELSE "dropped"]
  /\ UNCHANGED <<known, news, restarts, errors>>

(* A defective deployment without APP_RATE_LIMIT_STORAGE: the counters are *)
(* in memory and go with the process.                                      *)
Restart_MemoryStorage(w) ==
  /\ restarts < MaxRestarts
  /\ restarts' = restarts + 1
  /\ known' = [known EXCEPT ![w] = {}]
  /\ limiter' = [r \in Routes |-> Unused]
  /\ UNCHANGED <<recent, news, answer, errors>>

(* A worker starts again, with a new Client; Redis goes on.                *)
Restart(w) ==
  /\ restarts < MaxRestarts
  /\ restarts' = restarts + 1
  /\ known' = [known EXCEPT ![w] = {}]
  /\ UNCHANGED <<limiter, recent, news, answer, errors>>

-----------------------------------------------------------------------------
(* Callbacks come at any time, messages until they are answered.           *)
Requested(r) == r = "onboard" \/ \E m \in Messages : answer[m] = "none"

Next ==
  \/ Tick
  \/ \E r \in Routes : Requested(r) /\ (Refuses(r) \/ StorageFails(r))
  \/ \E w \in Workers :
       \/ \E n \in Numbers : ConnectWhatsapp(w, n)
       \/ \E m \in Messages : WebhookReceive(w, m)
       \/ Restart(w)

Spec == Init /\ [][Next]_vars

(* The clock goes on, and Meta repeats what it has no 200 for: of whatever *)
(* requests reach a worker first, a repetition is one now and then.        *)
Fairness ==
  /\ WF_vars(Tick)
  /\ \A m \in Messages : WF_vars(\E w \in Workers : WebhookReceive(w, m))

FairSpec == Spec /\ Fairness

-----------------------------------------------------------------------------
(* Properties.                                                             *)

(* Lives of workers: each starts from nothing.                             *)
Lives == Cardinality(Workers) + restarts

(* A limit of so many per minute admits, within any minute, nearly twice   *)
(* as many (the end of one window and the start of the next), but never    *)
(* more, over all workers and whatever restarts come between.              *)
AcceptedPerWindow == \A r \in Routes : recent[r][Window] <= 2 * Limit[r] - 1

(* However often a callback is repeated, over whatever workers, it makes a *)
(* tenant once in every life of a worker at most: what is left of the      *)
(* flow's idempotence (SignupsIdempotent) between processes.               *)
OneTenantPerLife == \A n \in Numbers : news[n] <= Lives

(* Every message is answered 200 in the end, although the limiter refuses  *)
(* deliveries and counts the refused ones, too, and Redis may fail some.   *)
EventuallyAnswered == \A m \in Messages : <>(answer[m] # "none")

-----------------------------------------------------------------------------
(* "Idempotent on phone_number_id" (services/api/main.py), "we must NOT    *)
(* create duplicates" (onboarding/flow.py): a number is signed up once.    *)
SignupsIdempotent == \A n \in Numbers : news[n] <= 1
=============================================================================
