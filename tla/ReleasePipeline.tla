--------------------------- MODULE ReleasePipeline ---------------------------
(***************************************************************************)
(* From a pull request to an image and a release: the version check of     *)
(* pr-checks.yml, scripts/bump_version.py, and the runs of release.yml,    *)
(* one per push to main that touches the paths it watches.                 *)
(*                                                                         *)
(* External: GitHub.  It creates the run of a push and puts it into the    *)
(* concurrency group some time later, in no order it promises.  A group    *)
(* has one running and one waiting run; a run that comes to wait cancels   *)
(* the one that waited before it (cancel-in-progress: false only spares    *)
(* the running one).  A failed or cancelled run can be started again for   *)
(* its commit, which takes a new turn in the group.  A release without     *)
(* --target puts its tag on the head of main.  Git merges a version line   *)
(* that only one side changed, or both in the same way.                    *)
(***************************************************************************)
EXTENDS Naturals, Sequences, FiniteSets, Bags

CONSTANTS
    FirstVersion, \* major, minor and patch before the first push
    MaxPart,      \* bound: the largest number in a version
    MaxPulls,     \* bound: pull requests
    MaxReruns     \* bound: runs started again

Versions == [1..3 -> 0..MaxPart]

ASSUME ReleaseAssumption ==
    /\ FirstVersion \in Versions
    /\ {MaxPart, MaxPulls, MaxReruns} \subseteq Nat

VARIABLES
    pulls,  \* the bag of open pull requests
    main,   \* pushes to main, in order
    run,    \* run[c]: the run of push c
    image,  \* image[v]: the push whose image has tag v in the registry, or 0
    latest, \* the turn of the run whose image has the tag latest, or 0
    tag,    \* tag[v]: the push on which the release of v put its tag, or 0
    turns,  \* runs that have entered the concurrency group so far
    reruns  \* runs started again so far

vars == <<pulls, main, run, image, latest, tag, turns, reruns>>
registry == <<image, latest, tag>>

(* What a pull request changes: something an image is made of, only tests  *)
(* or this workflow, or nothing the workflow watches.                      *)
Kinds == {"app", "tests", "docs"}
Active == {"test", "check", "push", "release"}
Ended == {"none", "done", "skipped", "failed", "cancelled"}

Pushes == DOMAIN main
HeadVersion == IF main = <<>> THEN FirstVersion ELSE main[Len(main)].version

Init ==
    /\ pulls = EmptyBag
    /\ main = <<>>
    /\ run = <<>>
    /\ image = [v \in Versions |-> 0]
    /\ latest = 0
    /\ tag = [v \in Versions |-> 0]
    /\ turns = 0
    /\ reruns = 0

-------------------------------------------------------------------------------
(* Pull requests *)

(* bump_version.py: the parts after the raised one start again at 0. *)
Bump(v, part) ==
    [i \in 1..3 |-> IF i < part THEN v[i] ELSE IF i = part THEN v[i] + 1 ELSE 0]

(* version-check of pr-checks.yml: no release of this version, by the time *)
(* the check runs.  When gh release view gets no answer the check passes.  *)
VersionCheck(kind, v, answered) == kind = "app" /\ answered => tag[v] = 0

OpenPull(kind, v) ==
    /\ BagCardinality(pulls) + Len(main) < MaxPulls
    /\ v = HeadVersion \/ (kind = "app" /\ v \in {Bump(HeadVersion, part) : part \in 1..3})
    /\ v \in Versions
    /\ \E answered \in BOOLEAN : VersionCheck(kind, v, answered)
    /\ pulls' = pulls (+) SetToBag({[kind |-> kind, base |-> HeadVersion,
                                     version |-> v]})
    /\ UNCHANGED <<main, run, registry, turns, reruns>>

-------------------------------------------------------------------------------
(* The concurrency group *)

Fresh == [stage |-> "none", turn |-> 0, blind |-> FALSE]

(* A run goes to a stage; it has a turn only while it is in the group. *)
Staged(r, stage) ==
    [r EXCEPT !.stage = stage, !.turn = IF stage \in Ended THEN 0 ELSE @]

Busy(rs) == {c \in DOMAIN rs : rs[c].stage \in Active \cup {"pending"}}

(* MUTANT: there is no group. *)
EnterAtOnce(rs, c) == [rs EXCEPT ![c] = Staged(@, "test")]

(* MUTANT: all runs that wait are kept. *)
EnterKeepsAll(rs, c) ==
    [rs EXCEPT ![c] = Staged(@, IF Busy(rs) = {} THEN "test" ELSE "pending")]

(* Run c asks for the group. *)
Enter(rs, c) ==
    IF Busy(rs) = {}
    THEN [rs EXCEPT ![c] = Staged(@, "test")]
    ELSE [d \in DOMAIN rs |->
            IF d = c THEN Staged(rs[d], "pending")
            ELSE IF rs[d].stage = "pending" THEN Staged(rs[d], "cancelled")
            ELSE rs[d]]

(* A push to main; there will be a run if it touches a path of             *)
(* release.yml.                                                            *)
Merge(p) ==
    LET v == IF p.version = p.base THEN HeadVersion ELSE p.version
        stage == IF p.kind = "docs" THEN "none" ELSE "created"
    IN  /\ p.version = p.base \/ HeadVersion \in {p.base, p.version}
        /\ pulls' = pulls (-) SetToBag({p})
        /\ main' = Append(main, [version |-> v, app |-> p.kind = "app"])
        /\ run' = Append(run, Staged(Fresh, stage))
        /\ UNCHANGED <<registry, turns, reruns>>

TakeTurn(c) ==
    /\ turns' = turns + 1
    /\ run' = Enter([run EXCEPT ![c].turn = turns + 1], c)
    /\ UNCHANGED <<pulls, main, registry>>

(* GitHub creates the run of push c, perhaps after that of a later push. *)
Create(c) ==
    /\ run[c].stage = "created"
    /\ TakeTurn(c)
    /\ UNCHANGED reruns

Rerun(c) ==
    /\ reruns < MaxReruns
    /\ run[c].stage \in {"failed", "cancelled"}
    /\ reruns' = reruns + 1
    /\ TakeTurn(c)

(* MUTANT: a run that waits starts only if the one before it succeeded. *)
StartIfGreen(c) ==
    /\ run[c].stage = "pending"
    /\ \A d \in Pushes : run[d].stage \notin Active \cup {"failed"}
    /\ run' = [run EXCEPT ![c] = Staged(@, "test")]
    /\ UNCHANGED <<pulls, main, registry, turns, reruns>>

(* The run that waits starts. *)
Start(c) ==
    /\ run[c].stage = "pending"
    /\ \A d \in Pushes : run[d].stage \notin Active
    /\ run' = [run EXCEPT ![c] = Staged(@, "test")]
    /\ UNCHANGED <<pulls, main, registry, turns, reruns>>

-------------------------------------------------------------------------------
(* The jobs of a run; it works on the commit that was pushed *)

Version(c) == main[c].version

Advance(c, from, to) ==
    /\ run[c].stage = from
    /\ run' = [run EXCEPT ![c] = Staged(@, to)]
    /\ UNCHANGED <<pulls, main, turns, reruns>>

(* The test job, then the paths filter, which looks at this push alone. *)
Test(c) ==
    /\ Advance(c, "test", IF main[c].app THEN "check" ELSE "skipped")
    /\ UNCHANGED registry

TestFails(c) == Advance(c, "test", "failed") /\ UNCHANGED registry

(* MUTANT: the version is not checked. *)
CheckDuplicateSkipped(c) == Advance(c, "check", "push") /\ UNCHANGED registry

(* gh release view finds a release of this version, or none. *)
CheckDuplicate(c) ==
    /\ Advance(c, "check", IF tag[Version(c)] = 0 THEN "push" ELSE "failed")
    /\ UNCHANGED registry

(* gh release view fails for another reason, which counts as none. *)
CheckBlind(c) ==
    /\ run[c].stage = "check"
    /\ run' = [run EXCEPT ![c].stage = "push", ![c].blind = TRUE]
    /\ UNCHANGED <<pulls, main, registry, turns, reruns>>

(* Both tags are pushed. *)
PushImage(c) ==
    /\ Advance(c, "push", "release")
    /\ image' = [image EXCEPT ![Version(c)] = c]
    /\ latest' = run[c].turn
    /\ UNCHANGED tag

(* ... or only some of them. *)
PushFails(c) ==
    /\ Advance(c, "push", "failed")
    /\ image' \in {image, [image EXCEPT ![Version(c)] = c]}
    /\ latest' \in {latest, run[c].turn}
    /\ UNCHANGED tag

(* gh release create, which refuses a version that has a release. *)
CreateRelease(c) ==
    LET free == tag[Version(c)] = 0
    IN  /\ Advance(c, "release", IF free THEN "done" ELSE "failed")
        /\ tag' = IF free THEN [tag EXCEPT ![Version(c)] = Len(main)] ELSE tag
        /\ UNCHANGED <<image, latest>>

(* Its answer is lost: the release may have been made or not. *)
CreateFails(c) ==
    /\ Advance(c, "release", "failed")
    /\ tag' \in {tag, IF tag[Version(c)] = 0
                      THEN [tag EXCEPT ![Version(c)] = Len(main)] ELSE tag}
    /\ UNCHANGED <<image, latest>>

-------------------------------------------------------------------------------
Step(c) ==
    \/ Create(c) \/ Start(c) \/ Test(c) \/ TestFails(c)
    \/ CheckDuplicate(c) \/ CheckBlind(c)
    \/ PushImage(c) \/ PushFails(c) \/ CreateRelease(c) \/ CreateFails(c)

(* Nothing is under way, and nothing has to happen any more. *)
Idle == Busy(run) = {} /\ (\A c \in Pushes : run[c].stage # "created")
        /\ UNCHANGED vars

Next ==
    \/ \E kind \in Kinds, v \in Versions : OpenPull(kind, v)
    \/ \E p \in BagToSet(pulls) : Merge(p)
    \/ \E c \in Pushes : Rerun(c) \/ Step(c)
    \/ Idle

(* GitHub creates every run and starts the one that waits, runners take up *)
(* the work there is, and every job has a timeout.                         *)
Spec == /\ Init /\ [][Next]_vars
        /\ \A c \in 1..MaxPulls : WF_vars(c \in Pushes /\ Step(c))

-------------------------------------------------------------------------------
(* Properties *)

TypeOK ==
    /\ IsABag(pulls)
    /\ BagToSet(pulls) \subseteq
         [kind: Kinds, base: Versions, version: Versions]
    /\ main \in Seq([version: Versions, app: BOOLEAN])
    /\ run \in [Pushes -> [stage: Active \cup Ended \cup {"created", "pending"},
                           turn: 0..turns, blind: BOOLEAN]]
    /\ image \in [Versions -> 0..Len(main)]
    /\ tag \in [Versions -> 0..Len(main)]
    /\ latest \in 0..turns
    /\ turns \in Nat
    /\ reruns \in 0..MaxReruns
    /\ Cardinality({c \in Pushes : run[c].stage \in Active}) <= 1
    /\ Cardinality({c \in Pushes : run[c].stage = "pending"}) <= 1

(* A run that ended well has released its own commit, for good: its        *)
(* version has a release and the image of that version is the one it       *)
(* built, whatever later or repeated runs of the same version do ("This    *)
(* prevents Docker image/release version mismatch").  The exception: a run *)
(* that could not ask for releases may have pushed over it.                *)
GreenRunReleased ==
    \A c \in Pushes : run[c].stage = "done" =>
        /\ tag[Version(c)] # 0
        /\ LET built == image[Version(c)]
           IN  built = c \/ (built \in Pushes /\ run[built].blind)

(* The tag latest only ever passes to a run that entered the concurrency   *)
(* group later than the run it is taken from: no run is overtaken in the   *)
(* group, not even by one that was started again.  That says nothing of    *)
(* the commits: GitHub may put an older push in later.                     *)
LatestFollowsGroup == [][latest' >= latest]_vars

(* Every run ends, by its result or cancelled by a later one. *)
EveryRunEnds ==
    \A c \in 1..MaxPulls :
        (c \in Pushes /\ run[c].stage \notin Ended)
            ~> (c \in Pushes /\ run[c].stage \in Ended)
===============================================================================
