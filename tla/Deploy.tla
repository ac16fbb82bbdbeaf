------------------------------- MODULE Deploy -------------------------------
(***************************************************************************)
(* The deployment of one host: infra/scripts/update.sh and rollback.sh,    *)
(* their gate healthcheck.sh, and the systemd unit that starts the stack   *)
(* at boot.  The scripts run with set -e: the first command that fails     *)
(* ends them.  An action is one of their commands that changes the host,   *)
(* with the tests around it; a failing command, a killed script and a      *)
(* reboot come between any two.  One script runs at a time.  A git command *)
(* does all of its work or none.                                           *)
(*                                                                         *)
(* Commits of the main branch are numbered; git and docker are services    *)
(* known by what the scripts ask of them.                                  *)
(***************************************************************************)
EXTENDS Naturals

CONSTANTS MaxCommit,   \* bound: commits of the main branch
          Broken,      \* commits whose API never becomes healthy
          MaxFailures  \* bound: failed commands, killed scripts, reboots

ASSUME CommitsAssumption == MaxCommit \in Nat \ {0} /\ Broken \subseteq 2 .. MaxCommit
ASSUME DeployBoundsAssumption == MaxFailures \in Nat

Commits == 1 .. MaxCommit
None == 0

VARIABLES
  origin,     \* the tip of the main branch at the remote
  head,       \* the commit that is checked out
  detached,   \* HEAD is a commit, no branch
  lastGood,   \* what .last_good_sha holds, None when missing or empty
  image,      \* the commit app-api:latest was built from
  container,  \* the commit the api container runs
  health,     \* docker's health of the api container
  script,     \* the script that runs, or ran last
  pc,         \* its next command
  sha,        \* TAG_BEFORE, or TARGET
  exit,       \* how the last script ended
  ranBefore,  \* history: what ran when the record was written
  skewed,     \* history: a script ended between git and docker
  failures    \* failures so far

vars == <<origin, head, detached, lastGood, image, container, health,
          script, pc, sha, exit, ranBefore, skewed, failures>>

TypeOK ==
  /\ origin \in Commits
  /\ head \in Commits
  /\ detached \in BOOLEAN
  /\ lastGood \in Commits \cup {None}
  /\ image \in Commits
  /\ container \in Commits \cup {None}
  /\ health \in {"starting", "healthy", "unhealthy", "missing"}
  /\ script \in {"deploy", "update", "rollback"}
  /\ pc \in {"idle", "record", "pull", "checkout", "build", "up", "gate"}
  /\ sha \in Commits \cup {None}
  /\ exit \in {"zero", "nonzero"}
  /\ ranBefore \in Commits \cup {None}
  /\ skewed \in BOOLEAN
  /\ failures \in 0 .. MaxFailures

(* deploy.sh has built and started the first commit.                       *)
Init ==
  /\ origin = 1 /\ head = 1 /\ image = 1 /\ container = 1
  /\ detached = FALSE
  /\ lastGood = None
  /\ health = "starting"
  /\ script = "deploy"
  /\ pc = "idle"
  /\ sha = None
  /\ exit = "zero"
  /\ ranBefore = None
  /\ skewed = FALSE
  /\ failures = 0

-----------------------------------------------------------------------------
(* healthcheck.sh.                                                         *)

Services == {"postgres", "redis", "api", "nginx"}

(* The compose file calls its containers app-postgres and so on; the       *)
(* script inspects sample-postgres and so on.                              *)
ContainerName(svc) == <<"app", svc>>
InspectedName(svc) == <<"sample", svc>>

Status(svc) == IF svc = "api" THEN health ELSE "healthy"

(* docker inspect || echo missing                                          *)
Inspect(name) ==
  IF \E svc \in Services : name = ContainerName(svc) THEN Status(name[2]) ELSE "missing"

(* The containers' part of the check; that of nginx, certificate and disk  *)
(* may fail on its own.                                                    *)
ContainersPass == \A svc \in Services : Inspect(InspectedName(svc)) = "healthy"

-----------------------------------------------------------------------------
(* update.sh.                                                              *)

Update ==
  /\ pc = "idle"
  /\ script' = "update"
  /\ sha' = head
  /\ pc' = "record"
  /\ UNCHANGED <<origin, head, detached, lastGood, image, container, health,
                 exit, ranBefore, skewed, failures>>

(* A defective script that records the tip it is about to pull.            *)
Record_Origin ==
  /\ pc = "record"
  /\ lastGood' = origin
  /\ ranBefore' = container
  /\ pc' = "pull"
  /\ UNCHANGED <<origin, head, detached, image, container, health,
                 script, sha, exit, skewed, failures>>

(* The script notes HEAD as the last good commit before it knows of it.    *)
Record ==
  /\ pc = "record"
  /\ lastGood' = sha
  /\ ranBefore' = container
  /\ pc' = "pull"
  /\ UNCHANGED <<origin, head, detached, image, container, health,
                 script, sha, exit, skewed, failures>>

(* git pull --ff-only needs a branch.  Nothing new: exit 0.                *)
Pull ==
  /\ pc = "pull"
  /\ IF detached
     THEN pc' = "idle" /\ exit' = "nonzero" /\ UNCHANGED head
     ELSE /\ head' = origin
          /\ IF origin = sha
             THEN pc' = "idle" /\ exit' = "zero"
             ELSE pc' = "build" /\ UNCHANGED exit
  /\ UNCHANGED <<origin, detached, lastGood, image, container, health,
                 script, sha, ranBefore, skewed, failures>>

-----------------------------------------------------------------------------
(* rollback.sh.                                                            *)

(* A defective script that does not look whether there is a record.        *)
Rollback_NoRecord ==
  /\ pc = "idle"
  /\ script' = "rollback"
  /\ sha' = lastGood
  /\ pc' = "checkout"
  /\ UNCHANGED <<origin, head, detached, lastGood, image, container, health,
                 exit, ranBefore, skewed, failures>>

(* No record: exit 1.  HEAD is at the record already: exit 0.              *)
Rollback ==
  /\ pc = "idle"
  /\ script' = "rollback"
  /\ sha' = lastGood
  /\ \/ lastGood = None /\ exit' = "nonzero" /\ UNCHANGED pc
     \/ lastGood = head /\ exit' = "zero" /\ UNCHANGED pc
     \/ lastGood \notin {None, head} /\ pc' = "checkout" /\ UNCHANGED exit
  /\ UNCHANGED <<origin, head, detached, lastGood, image, container, health,
                 ranBefore, skewed, failures>>

(* git checkout of a commit leaves the branch.                             *)
Checkout ==
  /\ pc = "checkout"
  /\ head' = sha
  /\ detached' = TRUE
  /\ pc' = "build"
  /\ UNCHANGED <<origin, lastGood, image, container, health,
                 script, sha, exit, ranBefore, skewed, failures>>

-----------------------------------------------------------------------------
(* Both scripts.                                                           *)

(* A defective build that takes the branch of the remote.                  *)
Build_Origin ==
  /\ pc = "build"
  /\ image' = origin
  /\ pc' = "up"
  /\ UNCHANGED <<origin, head, detached, lastGood, container, health,
                 script, sha, exit, ranBefore, skewed, failures>>

(* docker compose build api                                                *)
Build ==
  /\ pc = "build"
  /\ image' = head
  /\ pc' = "up"
  /\ UNCHANGED <<origin, head, detached, lastGood, container, health,
                 script, sha, exit, ranBefore, skewed, failures>>

(* docker compose up -d --no-deps --force-recreate api                     *)
Up ==
  /\ pc = "up"
  /\ container' = image
  /\ health' = "starting"
  /\ pc' = "gate"
  /\ UNCHANGED <<origin, head, detached, lastGood, image,
                 script, sha, exit, ranBefore, skewed, failures>>

(* The gate's exit code is the script's.                                   *)
Gate ==
  /\ pc = "gate"
  /\ pc' = "idle"
  /\ exit' \in IF ContainersPass THEN {"zero", "nonzero"} ELSE {"nonzero"}
  /\ UNCHANGED <<origin, head, detached, lastGood, image, container, health,
                 script, sha, ranBefore, skewed, failures>>

(* A record that is cut off is an empty file.                              *)
RecordCut == lastGood' = lastGood \/ (pc = "record" /\ lastGood' = None)

(* A command fails or the script is killed.  A recreation that fails may   *)
(* leave the old container, the new one or none.                           *)
Stops ==
  /\ pc \in {"record", "pull", "checkout", "build", "up"}
  /\ failures < MaxFailures
  /\ failures' = failures + 1
  /\ pc' = "idle"
  /\ exit' = "nonzero"
  /\ skewed' = (skewed \/ pc \in {"build", "up"})
  /\ \/ UNCHANGED <<container, health>>
     \/ pc = "up" /\ container' = image /\ health' = "starting"
     \/ pc = "up" /\ container' = None /\ health' = "missing"
  /\ RecordCut
  /\ UNCHANGED <<origin, head, detached, image, script, sha, ranBefore>>

-----------------------------------------------------------------------------
(* Around the scripts.                                                     *)

(* The host reboots: systemd starts containers of the latest image.        *)
Reboot ==
  /\ failures < MaxFailures
  /\ failures' = failures + 1
  /\ container' = image
  /\ health' = "starting"
  /\ pc' = "idle"
  /\ exit' = IF pc = "idle" THEN exit ELSE "nonzero"
  /\ skewed' = (skewed \/ pc = "build")
  /\ RecordCut
  /\ UNCHANGED <<origin, head, detached, image, script, sha, ranBefore>>

(* Somebody pushes to main.                                                *)
Push ==
  /\ origin < MaxCommit
  /\ origin' = origin + 1
  /\ UNCHANGED <<head, detached, lastGood, image, container, health,
                 script, pc, sha, exit, ranBefore, skewed, failures>>

(* Docker's own health check of the api container.                         *)
Probe ==
  /\ health = "starting"
  /\ health' = IF container \in Broken THEN "unhealthy" ELSE "healthy"
  /\ UNCHANGED <<origin, head, detached, lastGood, image, container,
                 script, pc, sha, exit, ranBefore, skewed, failures>>

Next ==
  \/ Update \/ Record \/ Pull \/ Rollback \/ Checkout
  \/ Build \/ Up \/ Gate \/ Stops \/ Reboot \/ Push \/ Probe

Spec == Init /\ [][Next]_vars

-----------------------------------------------------------------------------
(* Properties.                                                             *)

(* Between scripts the host runs what is checked out, unless a script      *)
(* ended after it moved HEAD and before it recreated the container: pulls  *)
(* that fail, failed gates and reboots do not matter.                      *)
RunsWhatIsCheckedOut ==
  pc = "idle" /\ ~ skewed => container = head /\ image = head

(* After a rollback the host runs what it ran when the record was written, *)
(* under the same condition, however often either script was called; or    *)
(* HEAD is elsewhere (the checkout failed), and the exit code says so.     *)
RollbackUndoesUpdate ==
  pc = "idle" /\ ~ skewed /\ script = "rollback" /\ lastGood # None =>
    IF head = lastGood THEN container = ranBefore ELSE exit = "nonzero"

-----------------------------------------------------------------------------
(* "revert to the last known-good sha (saved by update.sh) ... Safe to run *)
(* after an update.sh that failed healthchecks" (rollback.sh): a rollback  *)
(* that exits 0 does not leave an unhealthy API.                           *)
RollbackLeavesGood ==
  pc = "idle" /\ script = "rollback" /\ exit = "zero" => container \notin Broken
=============================================================================
