---------------------------- MODULE Initializer ----------------------------
(***************************************************************************)
(* scripts/init.py turns a copy of the template into a project: it stamps  *)
(* the answers into the placeholder files, renames the package, patches    *)
(* the imports, starts a new git history and deletes itself.  It walks     *)
(* the files one by one, may stop anywhere (an unreadable file, no git, a  *)
(* refusal, Ctrl-C), and is then run again, perhaps with another slug.  A  *)
(* file is written as a whole.                                             *)
(***************************************************************************)
CONSTANTS Forms,         \* files that hold {{ placeholder }} tokens
          Sources,       \* Python files that import the package
          Slugs          \* the slugs _SLUG_RE admits, "sample" among them

ASSUME SlugsAssumption == "sample" \in Slugs /\ "placeholder" \notin Slugs

VARIABLES
  stamp,    \* the slug stamped into each form
  imports,  \* the package each Python file imports
  package,  \* the name of the package's directory under src/
  others,   \* other directories under src/
  git,      \* the history the repository has
  script,   \* scripts/init.py is there
  pc,       \* what the running script is at, "off" when none runs
  slug,     \* the answer of the latest run
  left,     \* files the present walk still has before it
  answers,  \* history: the slugs answered in any run
  stopped   \* history: where runs stopped early

vars == <<stamp, imports, package, others, git, script, pc, slug, left, answers, stopped>>

Phases == {"off", "substitute", "imports", "git", "init", "delete"}

TypeOK ==
  /\ stamp \in [Forms -> Slugs \cup {"placeholder"}]
  /\ imports \in [Sources -> Slugs]
  /\ package \in Slugs
  /\ others \subseteq Slugs
  /\ git \in {"template", "none", "fresh"}
  /\ script \in BOOLEAN
  /\ pc \in Phases
  /\ slug \in Slugs
  /\ left \subseteq CASE pc = "substitute" -> Forms [] pc = "imports" -> Sources [] OTHER -> {}
  /\ answers \subseteq Slugs
  /\ stopped \subseteq Phases

Init ==
  /\ stamp = [f \in Forms |-> "placeholder"]
  /\ imports = [f \in Sources |-> "sample"]
  /\ package = "sample"
  /\ others \in SUBSET (Slugs \ {"sample"})
  /\ git \in {"template", "none"}
  /\ script = TRUE
  /\ pc = "off"
  /\ slug = "sample"
  /\ left = {}
  /\ answers = {}
  /\ stopped = {}

(* gather_answers: asks until the slug is admissible.                      *)
GatherAnswers(s) ==
  /\ script /\ pc = "off"
  /\ pc' = "substitute"
  /\ slug' = s
  /\ answers' = answers \cup {s}
  /\ left' = Forms
  /\ UNCHANGED <<stamp, imports, package, others, git, script, stopped>>

(* A defective substitute that stamps the name the package still has.      *)
Substitute_PresentName(f) ==
  /\ pc = "substitute" /\ f \in left
  /\ stamp' = [stamp EXCEPT ![f] = IF @ = "placeholder" THEN package ELSE @]
  /\ left' = left \ {f}
  /\ UNCHANGED <<imports, package, others, git, script, pc, slug, answers, stopped>>

(* substitute rewrites one file, if it has placeholders left.              *)
Substitute(f) ==
  /\ pc = "substitute" /\ f \in left
  /\ stamp' = [stamp EXCEPT ![f] = IF @ = "placeholder" THEN slug ELSE @]
  /\ left' = left \ {f}
  /\ UNCHANGED <<imports, package, others, git, script, pc, slug, answers, stopped>>

(* What the script is at: with the last file patched, git is next.         *)
Phase == IF pc = "imports" /\ left = {} THEN "git" ELSE pc

(* The run ends early: everything written so far stays.                    *)
Stop(phase) ==
  /\ stopped' = stopped \cup {phase}
  /\ pc' = "off"
  /\ left' = {}
  /\ UNCHANGED <<stamp, imports, package, others, git, script, slug, answers>>

(* rename_package: nothing to do when src/sample is gone ("already         *)
(* initialized") or keeps its name; it refuses to overwrite a directory.   *)
RenamePackage ==
  /\ pc = "substitute" /\ left = {}
  /\ \/ /\ package # "sample" \/ slug = "sample"
        /\ pc' = "git"
        /\ UNCHANGED <<stamp, imports, package, others, git, script, slug, left, answers, stopped>>
     \/ /\ package = "sample" /\ slug # "sample" /\ slug \in others
        /\ Stop("substitute")
     \/ /\ package = "sample" /\ slug # "sample" /\ slug \notin others
        /\ package' = slug /\ pc' = "imports" /\ left' = Sources
        /\ UNCHANGED <<stamp, imports, others, git, script, slug, answers, stopped>>

(* A defective pattern that misses the imports of nested modules.          *)
RewriteImports_Misses(f) ==
  /\ pc = "imports" /\ f \in left
  /\ left' = left \ {f}
  /\ UNCHANGED <<stamp, imports, package, others, git, script, pc, slug, answers, stopped>>

(* _rewrite_sample_imports patches one file that still says sample.        *)
RewriteImports(f) ==
  /\ pc = "imports" /\ f \in left
  /\ imports' = [imports EXCEPT ![f] = IF @ = "sample" THEN slug ELSE @]
  /\ left' = left \ {f}
  /\ UNCHANGED <<stamp, package, others, git, script, pc, slug, answers, stopped>>

(* reset_git_history removes the template's history, when there is one ... *)
RemoveGit ==
  /\ Phase = "git"
  /\ git' = "none"
  /\ pc' = "init"
  /\ UNCHANGED <<stamp, imports, package, others, script, slug, left, answers, stopped>>

(* A defective reset that does not look at git's exit code.                *)
InitGit_Unchecked ==
  /\ pc = "init"
  /\ git' \in {"none", "fresh"}
  /\ pc' = "delete"
  /\ UNCHANGED <<stamp, imports, package, others, script, slug, left, answers, stopped>>

(* ... and runs git init, whose failure ends the script.                   *)
InitGit ==
  /\ pc = "init"
  /\ git' = "fresh"
  /\ pc' = "delete"
  /\ UNCHANGED <<stamp, imports, package, others, script, slug, left, answers, stopped>>

SelfDestruct ==
  /\ pc = "delete"
  /\ script' = FALSE
  /\ pc' = "off"
  /\ UNCHANGED <<stamp, imports, package, others, git, slug, left, answers, stopped>>

(* The user makes room for the slug that was refused.                      *)
RemoveDirectory(d) ==
  /\ pc = "off" /\ d \in others
  /\ others' = others \ {d}
  /\ UNCHANGED <<stamp, imports, package, git, script, pc, slug, left, answers, stopped>>

Run ==
  \/ \E f \in Forms : Substitute(f)
  \/ RenamePackage
  \/ \E f \in Sources : RewriteImports(f)
  \/ RemoveGit
  \/ InitGit
  \/ SelfDestruct
  \/ pc # "off" /\ Stop(Phase)

Next ==
  \/ \E s \in Slugs : GatherAnswers(s)
  \/ Run
  \/ \E d \in Slugs : RemoveDirectory(d)

Spec == Init /\ [][Next]_vars

-----------------------------------------------------------------------------
(* Properties.                                                             *)

(* The script deletes itself only from a finished project, whatever runs   *)
(* stopped before: nothing says placeholder, src/sample is renamed unless  *)
(* that is the slug, and the template's commits are gone.                  *)
DestroyedMeansDone ==
  ~ script =>
    /\ \A f \in Forms : stamp[f] # "placeholder"
    /\ package = "sample" => "sample" \in answers
    /\ git = "fresh"

(* Between runs, every import names the package that is there, unless a    *)
(* run stopped with imports still to patch: rename_package takes the       *)
(* renamed directory for an initialized project, and no later run patches  *)
(* what that one left.                                                     *)
OnlyPatchingBreaksImports ==
  pc = "off" /\ "imports" \notin stopped => \A f \in Sources : imports[f] = package

(* Runs that stopped anywhere else are repaired by running the script to   *)
(* its end with the same answers: one slug everywhere.                     *)
SameAnswersConverge ==
  ~ script /\ "imports" \notin stopped =>
    \A s \in Slugs : answers = {s} =>
      package = s /\ (\A f \in Forms : stamp[f] = s) /\ \A f \in Sources : imports[f] = s
=============================================================================
