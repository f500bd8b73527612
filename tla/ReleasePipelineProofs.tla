------------------------ MODULE ReleasePipelineProofs ------------------------
(***************************************************************************)
(* What the release workflow guarantees for any number of pull requests,   *)
(* pushes and runs started again, and any versions.                        *)
(***************************************************************************)
EXTENDS ReleasePipeline, FiniteSetTheorems, SequenceTheorems, TLAPS

Stages == Active \cup Ended \cup {"created", "pending"}
Runs == [stage: Stages, turn: Nat, blind: BOOLEAN]

(* The concurrency group holds one run, and one run waits for it. *)
Group(rs) ==
    \A c, d \in DOMAIN rs :
        /\ rs[c].stage \in Active /\ rs[d].stage \in Active => c = d
        /\ rs[c].stage = "pending" /\ rs[d].stage = "pending" => c = d

(* A run that waits has a later turn than the run at work: nothing can     *)
(* enter the group and leave it waiting.                                   *)
Behind(rs) ==
    \A c, d \in DOMAIN rs :
        rs[c].stage = "pending" /\ rs[d].stage \in Active => rs[d].turn < rs[c].turn

(* No run in the group is behind the tag latest. *)
Forward ==
    \A c \in DOMAIN run :
        run[c].stage \in Active \cup {"pending"} => latest <= run[c].turn

(* A run that has seen that there is no release of its version is right    *)
(* for as long as it holds the group.                                      *)
Unreleased ==
    \A c \in DOMAIN run :
        run[c].stage \in {"push", "release"} /\ run[c].blind = FALSE =>
            tag[Version(c)] = 0

(* A run that is about to release has pushed its image. *)
Pushed == \A c \in DOMAIN run : run[c].stage = "release" => image[Version(c)] = c

Shape ==
    /\ IsABag(pulls)
    /\ BagToSet(pulls) \subseteq [kind: Kinds, base: Versions, version: Versions]
    /\ main \in Seq([version: Versions, app: BOOLEAN])
    /\ run \in Seq(Runs) /\ Len(run) = Len(main)
    /\ image \in [Versions -> 0..Len(main)]
    /\ tag \in [Versions -> 0..Len(main)]
    /\ turns \in Nat /\ latest \in 0..turns
    /\ \A c \in DOMAIN run : run[c].turn <= turns
    /\ reruns \in 0..MaxReruns

IInv ==
    /\ Shape
    /\ Group(run) /\ Behind(run)
    /\ Forward
    /\ Unreleased /\ Pushed /\ GreenRunReleased

-------------------------------------------------------------------------------
(* The concurrency group *)

LEMMA RunFields ==
    ASSUME NEW rs \in Seq(Runs)
    PROVE  /\ Len(rs) \in Nat /\ DOMAIN rs = 1..Len(rs)
           /\ \A c \in DOMAIN rs :
                /\ rs[c] \in Runs
                /\ rs[c].stage \in Stages
                /\ rs[c].turn \in Nat /\ rs[c].blind \in BOOLEAN
<1>1. Len(rs) \in Nat /\ DOMAIN rs = 1..Len(rs)
  BY LenProperties
<1>2. \A c \in DOMAIN rs : rs[c] \in Runs
  BY <1>1, ElementOfSeq
<1> QED
  BY <1>1, <1>2 DEF Runs

(* A function on the pushes whose values are runs is a sequence of runs. *)
LEMMA RunsAreSeq ==
    ASSUME NEW rs, NEW n \in Nat, rs \in [1..n -> Runs]
    PROVE  rs \in Seq(Runs) /\ Len(rs) = n /\ DOMAIN rs = 1..n
BY SeqDef, LenProperties

(* One run changes. *)
LEMMA OneRun ==
    ASSUME NEW rs \in Seq(Runs), NEW c \in DOMAIN rs, NEW r \in Runs
    PROVE  LET e == [rs EXCEPT ![c] = r]
           IN  /\ e \in Seq(Runs) /\ Len(e) = Len(rs) /\ DOMAIN e = DOMAIN rs
               /\ e[c] = r /\ \A d \in DOMAIN rs : d # c => e[d] = rs[d]
<1>1. c \in 1..Len(rs) /\ DOMAIN rs = 1..Len(rs)
  BY LenProperties
<1>2. [rs EXCEPT ![c] = r] \in Seq(Runs) /\ Len([rs EXCEPT ![c] = r]) = Len(rs)
  BY <1>1, ExceptSeq
<1> QED
  BY <1>1, <1>2

LEMMA StagedRun ==
    ASSUME NEW r \in Runs, NEW stage \in Stages
    PROVE  /\ Staged(r, stage) \in Runs /\ Staged(r, stage).stage = stage
           /\ Staged(r, stage).turn <= r.turn /\ Staged(r, stage).blind = r.blind
           /\ stage \notin Ended => Staged(r, stage).turn = r.turn
<1>1. CASE stage \in Ended
  <2>1. Staged(r, stage) = [r EXCEPT !.stage = stage, !.turn = 0]
    BY <1>1 DEF Staged
  <2>2. /\ Staged(r, stage).stage = stage /\ Staged(r, stage).turn = 0
        /\ Staged(r, stage).blind = r.blind
    BY <2>1 DEF Runs
  <2>3. Staged(r, stage) \in Runs
    <3>1. Staged(r, stage) =
            [stage |-> stage, turn |-> 0, blind |-> r.blind]
      BY <2>1 DEF Runs
    <3>2. r.blind \in BOOLEAN
      BY DEF Runs
    <3> QED
      BY <3>1, <3>2 DEF Runs
  <2>4. 0 <= r.turn
    BY DEF Runs
  <2> QED
    BY <2>2, <2>3, <2>4, <1>1
<1>2. CASE stage \notin Ended
  <2>1. Staged(r, stage) = [r EXCEPT !.stage = stage]
    BY <1>2 DEF Staged, Runs
  <2> QED
    BY <2>1, <1>2 DEF Runs
<1> QED
  BY <1>1, <1>2

(* What a run that asks for the group does to the others: the one that     *)
(* waits is cancelled, the one at work goes on.                            *)
LEMMA EnterEffect ==
    ASSUME NEW rs \in Seq(Runs), NEW c \in DOMAIN rs
    PROVE  LET e == Enter(rs, c)
           IN  /\ e \in Seq(Runs) /\ Len(e) = Len(rs) /\ DOMAIN e = DOMAIN rs
               /\ \A d \in DOMAIN rs : d # c =>
                     \/ e[d] = rs[d] /\ rs[d].stage # "pending"
                     \/ /\ e[d].stage = "cancelled" /\ rs[d].stage = "pending"
                        /\ e[d].turn <= rs[d].turn /\ e[d].blind = rs[d].blind
               /\ e[c].turn = rs[c].turn /\ e[c].blind = rs[c].blind
               /\ \/ e[c].stage = "pending"
                  \/ e[c].stage = "test" /\ \A d \in DOMAIN rs : d # c =>
                        e[d].stage \notin Active \cup {"pending"}
<1> DEFINE e == Enter(rs, c)
           n == Len(rs)
<1>1. n \in Nat /\ DOMAIN rs = 1..n /\ \A d \in 1..n : rs[d] \in Runs
  BY RunFields
<1>2. ASSUME NEW d \in 1..n, NEW s \in {"test", "pending", "cancelled"}
      PROVE  /\ Staged(rs[d], s) \in Runs /\ Staged(rs[d], s).stage = s
             /\ Staged(rs[d], s).turn <= rs[d].turn
             /\ Staged(rs[d], s).blind = rs[d].blind
             /\ s # "cancelled" => Staged(rs[d], s).turn = rs[d].turn
  <2>1. s \in Stages /\ (s # "cancelled" => s \notin Ended)
    BY DEF Stages, Active, Ended
  <2> QED
    BY <2>1, <1>1, StagedRun
<1>4. CASE Busy(rs) = {}
  <2>1. e = [rs EXCEPT ![c] = Staged(rs[c], "test")]
    BY <1>1, <1>4 DEF Enter
  <2>2. \A d \in DOMAIN rs : rs[d].stage \notin Active \cup {"pending"}
    BY <1>4 DEF Busy
  <2>3. Staged(rs[c], "test") \in Runs
    BY <1>1, <1>2
  <2> HIDE DEF e
  <2>4. /\ e \in Seq(Runs) /\ Len(e) = Len(rs) /\ DOMAIN e = DOMAIN rs
        /\ e[c] = Staged(rs[c], "test")
        /\ \A d \in DOMAIN rs : d # c => e[d] = rs[d]
    BY <2>1, <2>3, OneRun
  <2>5. e[c].stage = "test" /\ e[c].turn = rs[c].turn /\ e[c].blind = rs[c].blind
    BY <1>1, <1>2, <2>4
  <2>6. \A d \in DOMAIN rs : d # c =>
            e[d] = rs[d] /\ rs[d].stage \notin Active \cup {"pending"}
    BY <2>2, <2>4
  <2> QED
    BY <2>4, <2>5, <2>6 DEF e
<1>5. CASE Busy(rs) # {}
  <2>1. e = [d \in DOMAIN rs |->
                IF d = c THEN Staged(rs[d], "pending")
                ELSE IF rs[d].stage = "pending" THEN Staged(rs[d], "cancelled")
                ELSE rs[d]]
    BY <1>5 DEF Enter
  <2> HIDE DEF e
  <2>2. \A d \in DOMAIN rs : e[d] =
            IF d = c THEN Staged(rs[d], "pending")
            ELSE IF rs[d].stage = "pending" THEN Staged(rs[d], "cancelled") ELSE rs[d]
    BY <2>1
  <2>3. e \in [1..n -> Runs]
    BY <1>1, <1>2, <2>1
  <2>4. e \in Seq(Runs) /\ Len(e) = n /\ DOMAIN e = 1..n
    BY <1>1, <2>3, RunsAreSeq
  <2>5. e[c].stage = "pending" /\ e[c].turn = rs[c].turn /\ e[c].blind = rs[c].blind
    BY <1>1, <1>2, <2>2
  <2>6. ASSUME NEW d \in DOMAIN rs, d # c
        PROVE  \/ e[d] = rs[d] /\ rs[d].stage # "pending"
               \/ /\ e[d].stage = "cancelled" /\ rs[d].stage = "pending"
                  /\ e[d].turn <= rs[d].turn /\ e[d].blind = rs[d].blind
    BY <1>1, <1>2, <2>2, <2>6
  <2> QED
    BY <1>1, <2>4, <2>5, <2>6 DEF e
<1> QED
  BY <1>4, <1>5

(* The group stays exclusive, and nobody overtakes a run that waits, when  *)
(* the run that enters has the latest turn.                                *)
LEMMA EnterKeepsOrder ==
    ASSUME NEW rs \in Seq(Runs), NEW c \in DOMAIN rs, Group(rs), Behind(rs),
           rs[c].stage \notin Active \cup {"pending"},
           \A d \in DOMAIN rs : d # c => rs[d].turn < rs[c].turn
    PROVE  Group(Enter(rs, c)) /\ Behind(Enter(rs, c))
<1> DEFINE e == Enter(rs, c)
<1>1. /\ DOMAIN e = DOMAIN rs /\ DOMAIN rs = 1..Len(rs) /\ Len(rs) \in Nat
      /\ \A d \in DOMAIN rs : d # c =>
            \/ e[d] = rs[d] /\ rs[d].stage # "pending"
            \/ e[d].stage = "cancelled" /\ rs[d].stage = "pending"
      /\ e[c].turn = rs[c].turn
      /\ \/ e[c].stage = "pending"
         \/ e[c].stage = "test" /\ \A d \in DOMAIN rs : d # c =>
               e[d].stage \notin Active \cup {"pending"}
  BY EnterEffect, RunFields
<1> HIDE DEF e
<1>2. \A d \in DOMAIN rs : e[d].stage = "pending" => d = c
  BY <1>1
<1>3. "cancelled" \notin Active /\ "pending" \notin Active
  BY DEF Active
<1>4. \A d \in DOMAIN rs : d # c /\ e[d].stage \in Active =>
          rs[d].stage \in Active /\ e[d].turn = rs[d].turn
  BY <1>1, <1>3
<1>5. Group(e)
  BY <1>1, <1>2, <1>3, <1>4 DEF Group
<1>6. Behind(e)
  <2>1. ASSUME NEW d \in DOMAIN rs, e[d].stage \in Active, e[c].stage = "pending"
        PROVE  e[d].turn < e[c].turn
    BY <2>1, <1>1, <1>3, <1>4
  <2> QED
    BY <2>1, <1>1, <1>2 DEF Behind
<1> QED
  BY <1>5, <1>6 DEF e

(* A run that starts, goes on or ends leaves the group in order. *)
LEMMA AdvanceKeepsOrder ==
    ASSUME NEW rs \in Seq(Runs), NEW c \in DOMAIN rs, Group(rs), Behind(rs),
           NEW r \in Runs, r.turn = rs[c].turn \/ r.stage \in Ended,
           \/ r.stage \in Ended
           \/ r.stage \in Active /\ rs[c].stage \in Active
           \/ /\ r.stage \in Active /\ rs[c].stage = "pending"
              /\ \A d \in DOMAIN rs : rs[d].stage \notin Active
    PROVE  Group([rs EXCEPT ![c] = r]) /\ Behind([rs EXCEPT ![c] = r])
<1> DEFINE e == [rs EXCEPT ![c] = r]
<1>1. /\ DOMAIN e = DOMAIN rs /\ e[c] = r
      /\ \A d \in DOMAIN rs : d # c => e[d] = rs[d]
  BY OneRun
<1> HIDE DEF e
<1>2. "pending" \notin Active \cup Ended /\ Active \cap Ended = {}
  BY DEF Active, Ended
<1>3. Group(e)
  BY <1>1, <1>2 DEF Group
<1>4. Behind(e)
  BY <1>1, <1>2 DEF Group, Behind
<1> QED
  BY <1>3, <1>4 DEF e

-------------------------------------------------------------------------------
(* The state *)

LEMMA PushFields ==
    ASSUME Shape
    PROVE  /\ Len(main) \in Nat /\ Pushes = 1..Len(main) /\ DOMAIN run = Pushes
           /\ \A c \in Pushes :
                /\ Version(c) \in Versions /\ main[c].app \in BOOLEAN
                /\ run[c] \in Runs /\ run[c].stage \in Stages
                /\ run[c].turn \in Nat /\ run[c].blind \in BOOLEAN
<1> DEFINE Push == [version: Versions, app: BOOLEAN]
<1>1. main \in Seq(Push) /\ run \in Seq(Runs) /\ Len(run) = Len(main)
  BY DEF Shape
<1>2. ASSUME NEW p \in Push PROVE p.version \in Versions /\ p.app \in BOOLEAN
  OBVIOUS
<1> HIDE DEF Push
<1>3. Len(main) \in Nat /\ Pushes = 1..Len(main) /\ DOMAIN run = Pushes
  BY <1>1, LenProperties DEF Pushes
<1>4. \A c \in Pushes : main[c] \in Push
  BY <1>1, <1>3, ElementOfSeq
<1> QED
  BY <1>1, <1>2, <1>3, <1>4, RunFields DEF Version

LEMMA HeadIsVersion == ASSUME Shape PROVE HeadVersion \in Versions
<1>1. CASE main = <<>>
  BY <1>1, ReleaseAssumption DEF HeadVersion
<1>2. CASE main # <<>>
  <2>1. Len(main) \in Pushes
    BY <1>2, PushFields, EmptySeq DEF Shape
  <2> QED
    BY <2>1, <1>2, PushFields DEF HeadVersion, Version
<1> QED
  BY <1>1, <1>2

(* One pull request is opened or merged. *)
LEMMA BagKeeps ==
    ASSUME NEW B, NEW S, IsABag(B), BagToSet(B) \subseteq S, NEW p
    PROVE  /\ p \in S => /\ IsABag(B (+) SetToBag({p}))
                         /\ BagToSet(B (+) SetToBag({p})) \subseteq S
           /\ IsABag(B (-) SetToBag({p}))
           /\ BagToSet(B (-) SetToBag({p})) \subseteq S
<1>1. p \in S => /\ IsABag(B (+) SetToBag({p}))
                 /\ BagToSet(B (+) SetToBag({p})) \subseteq S
  BY DEF IsABag, BagToSet, SetToBag, (+)
<1>2. /\ IsABag(B (-) SetToBag({p}))
      /\ BagToSet(B (-) SetToBag({p})) \subseteq S
  BY DEF IsABag, BagToSet, SetToBag, (-)
<1> QED
  BY <1>1, <1>2

LEMMA InitIInv == Init => IInv
<1> SUFFICES ASSUME Init PROVE IInv
  OBVIOUS
<1>1. Shape
  BY ReleaseAssumption DEF Init, Shape, EmptyBag, IsABag, BagToSet, SetToBag
<1> QED
  BY <1>1 DEF Init, IInv, Group, Behind, Forward, Unreleased, Pushed,
              GreenRunReleased, Pushes

LEMMA OpenPullKeeps ==
    ASSUME IInv, NEW kind \in Kinds, NEW v \in Versions, OpenPull(kind, v)
    PROVE  IInv'
<1> DEFINE p == [kind |-> kind, base |-> HeadVersion, version |-> v]
<1>1. p \in [kind: Kinds, base: Versions, version: Versions]
  BY HeadIsVersion DEF IInv
<1>2. pulls' = pulls (+) SetToBag({p}) /\ UNCHANGED <<main, run, registry, turns, reruns>>
  BY DEF OpenPull
<1> HIDE DEF p
<1>3. /\ IsABag(pulls')
      /\ BagToSet(pulls') \subseteq [kind: Kinds, base: Versions, version: Versions]
  BY <1>1, <1>2, BagKeeps DEF IInv, Shape
<1>4. Shape'
  BY <1>2, <1>3 DEF IInv, Shape, registry
<1> QED
  BY <1>2, <1>4 DEF IInv, Group, Behind, Forward, Unreleased, Pushed,
                    GreenRunReleased, Pushes, Version, registry

(* A run is new or enters the group: what the registry holds stays true of *)
(* the rest.                                                               *)
LEMMA EnteredKeeps ==
    ASSUME IInv, NEW c, UNCHANGED registry,
           Pushes \subseteq Pushes', DOMAIN run' = Pushes',
           \A d \in Pushes : main'[d] = main[d],
           \A d \in Pushes' : d # c =>
               /\ d \in Pushes
               /\ \/ run'[d] = run[d]
                  \/ /\ run'[d].stage = "cancelled" /\ run[d].stage = "pending"
                     /\ run'[d].blind = run[d].blind,
           run'[c].stage \in {"none", "created", "test", "pending"},
           run'[c].stage \in {"test", "pending"} => latest <= run'[c].turn,
           c \in Pushes => run[c].stage # "done" /\ run'[c].blind = run[c].blind
    PROVE  (Forward /\ Unreleased /\ Pushed /\ GreenRunReleased)'
<1>1. /\ image' = image /\ tag' = tag /\ latest' = latest
      /\ DOMAIN run = Pushes /\ \A d \in Pushes : main'[d].version = main[d].version
  BY PushFields DEF registry, IInv
<1>2. {"none", "created", "cancelled"} \cap (Active \cup {"pending"}) = {}
  BY DEF Active
<1>3. Forward'
  BY <1>1, <1>2 DEF IInv, Forward
<1>4. Unreleased'
  BY <1>1 DEF IInv, Unreleased, Version
<1>5. Pushed'
  BY <1>1 DEF IInv, Pushed, Version
<1>6. \A d \in Pushes : run[d].blind => run'[d].blind
  OBVIOUS
<1>7. ASSUME NEW d \in Pushes', run'[d].stage = "done"
      PROVE  /\ tag'[main'[d].version] # 0
             /\ \/ image'[main'[d].version] = d
                \/ /\ image'[main'[d].version] \in Pushes'
                   /\ run'[image'[main'[d].version]].blind
  <2>1. d \in Pushes /\ run[d].stage = "done" /\ main'[d].version = main[d].version
    BY <1>1, <1>7
  <2> QED
    BY <2>1, <1>1, <1>6 DEF IInv, GreenRunReleased, Version
<1>8. GreenRunReleased'
  BY <1>7 DEF GreenRunReleased, Version
<1> QED
  BY <1>3, <1>4, <1>5, <1>8

LEMMA MergeKeeps == ASSUME IInv, NEW p \in BagToSet(pulls), Merge(p) PROVE IInv'
<1> DEFINE c == Len(main) + 1
           v == IF p.version = p.base THEN HeadVersion ELSE p.version
           stage == IF p.kind = "docs" THEN "none" ELSE "created"
           push == [version |-> v, app |-> p.kind = "app"]
           new == Staged(Fresh, stage)
           Push == [version: Versions, app: BOOLEAN]
<1>1. /\ pulls' = pulls (-) SetToBag({p}) /\ main' = Append(main, push)
      /\ run' = Append(run, new)
      /\ UNCHANGED <<registry, turns, reruns>>
  BY DEF Merge
<1>2. /\ Len(main) \in Nat /\ Pushes = 1..Len(main) /\ DOMAIN run = Pushes
      /\ main \in Seq(Push) /\ run \in Seq(Runs) /\ Len(run) = Len(main)
      /\ turns \in Nat /\ \A d \in DOMAIN run : run[d].turn <= turns
  BY PushFields DEF IInv, Shape
<1>3. push \in Push
  <2>1. p.version \in Versions
    BY DEF IInv, Shape
  <2> QED
    BY <2>1, HeadIsVersion DEF IInv
<1>4. /\ new \in Runs /\ new.stage \in {"none", "created"} /\ new.turn = 0
  BY DEF Fresh, Staged, Runs, Stages, Ended
<1> HIDE DEF push, Push, new, stage
<1>5. /\ main' \in Seq(Push) /\ Len(main') = c /\ Pushes' = 1..c
      /\ \A d \in Pushes : main'[d] = main[d]
  BY <1>1, <1>2, <1>3, AppendProperties, LenProperties DEF Pushes
<1>6. /\ run' \in Seq(Runs) /\ Len(run') = c /\ DOMAIN run' = 1..c /\ run'[c] = new
      /\ \A d \in Pushes : run'[d] = run[d]
  BY <1>1, <1>2, <1>4, AppendProperties, LenProperties
<1>7. c \notin Pushes /\ \A d \in 1..c : d # c => d \in Pushes
  BY <1>2
<1>8. Group(run') /\ Behind(run')
  <2>1. {"none", "created"} \cap (Active \cup {"pending"}) = {}
    BY DEF Active
  <2> HIDE DEF c
  <2> QED
    BY <2>1, <1>2, <1>4, <1>6, <1>7 DEF IInv, Group, Behind
<1>9. (Forward /\ Unreleased /\ Pushed /\ GreenRunReleased)'
  <2>1. /\ UNCHANGED registry
        /\ Pushes \subseteq Pushes' /\ DOMAIN run' = Pushes'
        /\ \A d \in Pushes : main'[d] = main[d]
        /\ run'[c].stage \in {"none", "created"}
        /\ \A d \in Pushes' : d # c => d \in Pushes /\ run'[d] = run[d]
    BY <1>1, <1>2, <1>4, <1>5, <1>6, <1>7
  <2> HIDE DEF c
  <2> QED
    BY <2>1, <1>7, EnteredKeeps
<1>10. Shape'
  <2>1. /\ IsABag(pulls')
        /\ BagToSet(pulls') \subseteq [kind: Kinds, base: Versions, version: Versions]
    BY <1>1, BagKeeps DEF IInv, Shape
  <2>2. 0..Len(main) \subseteq 0..Len(main')
    BY <1>2, <1>5
  <2>3. /\ image' \in [Versions -> 0..Len(main')] /\ tag' \in [Versions -> 0..Len(main')]
        /\ turns' \in Nat /\ latest' \in 0..turns' /\ reruns' \in 0..MaxReruns
    BY <2>2, <1>1 DEF IInv, Shape, registry
  <2>4. \A d \in DOMAIN run' : run'[d].turn <= turns'
    BY <1>1, <1>2, <1>4, <1>6, <1>7
  <2> QED
    BY <2>1, <2>3, <2>4, <1>5, <1>6 DEF Shape, Push
<1> QED
  BY <1>8, <1>9, <1>10 DEF IInv

(* A run takes the next turn in the group. *)
LEMMA TurnKeeps ==
    ASSUME IInv, NEW c \in Pushes, TakeTurn(c),
           run[c].stage \in {"created", "failed", "cancelled"},
           reruns' \in 0..MaxReruns
    PROVE  IInv'
<1> DEFINE r == [run[c] EXCEPT !.turn = turns + 1]
           rs == [run EXCEPT ![c] = r]
<1>1. /\ run \in Seq(Runs) /\ c \in DOMAIN run /\ DOMAIN run = Pushes /\ run[c] \in Runs
      /\ UNCHANGED <<pulls, main, registry>>
      /\ turns \in Nat /\ turns' = turns + 1 /\ latest \in 0..turns
      /\ \A d \in Pushes : run[d].turn \in Nat /\ run[d].turn <= turns
  BY PushFields DEF TakeTurn, IInv, Shape
<1>2. run' = Enter(rs, c)
  BY <1>1 DEF TakeTurn
<1>3. /\ r \in Runs /\ r.stage = run[c].stage /\ r.turn = turns + 1
      /\ r.blind = run[c].blind
  BY <1>1 DEF Runs
<1> HIDE DEF r
<1>4. /\ rs \in Seq(Runs) /\ Len(rs) = Len(run) /\ DOMAIN rs = DOMAIN run
      /\ rs[c] = r /\ \A d \in DOMAIN run : d # c => rs[d] = run[d]
  BY <1>1, <1>3, OneRun
<1> HIDE DEF rs
<1>5. r.stage \notin Active \cup {"pending"}
  BY <1>3 DEF Active
<1>6. Group(rs) /\ Behind(rs)
  BY <1>1, <1>4, <1>5 DEF IInv, Group, Behind
<1>7. \A d \in DOMAIN rs : d # c => rs[d].turn < rs[c].turn
  BY <1>1, <1>3, <1>4
<1>8. Group(run') /\ Behind(run')
  BY <1>1, <1>2, <1>4, <1>5, <1>6, <1>7, EnterKeepsOrder
<1>9. /\ run' \in Seq(Runs) /\ Len(run') = Len(run) /\ DOMAIN run' = Pushes
      /\ \A d \in Pushes : d # c =>
            \/ run'[d] = run[d]
            \/ /\ run'[d].stage = "cancelled" /\ run[d].stage = "pending"
               /\ run'[d].turn <= run[d].turn /\ run'[d].blind = run[d].blind
      /\ run'[c].turn = turns + 1 /\ run'[c].blind = run[c].blind
      /\ run'[c].stage \in {"test", "pending"}
  <2>1. rs \in Seq(Runs) /\ c \in DOMAIN rs
    BY <1>1, <1>4
  <2>2. /\ run' \in Seq(Runs) /\ Len(run') = Len(rs) /\ DOMAIN run' = DOMAIN rs
        /\ \A d \in DOMAIN rs : d # c =>
              \/ run'[d] = rs[d]
              \/ /\ run'[d].stage = "cancelled" /\ rs[d].stage = "pending"
                 /\ run'[d].turn <= rs[d].turn /\ run'[d].blind = rs[d].blind
        /\ run'[c].turn = rs[c].turn /\ run'[c].blind = rs[c].blind
        /\ run'[c].stage \in {"test", "pending"}
    BY <2>1, <1>2, EnterEffect
  <2> QED
    BY <2>2, <1>1, <1>3, <1>4
<1>10. (Forward /\ Unreleased /\ Pushed /\ GreenRunReleased)'
  <2>1. Pushes' = Pushes /\ main' = main /\ UNCHANGED registry
    BY <1>1 DEF Pushes
  <2>2. latest <= run'[c].turn
    BY <1>1, <1>9
  <2> QED
    BY <2>1, <2>2, <1>9, EnteredKeeps
<1>11. Shape'
  <2>1. run'[c].turn <= turns' /\ \A d \in Pushes : d # c => run'[d].turn <= turns'
    <3>1. \A d \in Pushes : run'[d].turn \in Nat
      BY <1>9, RunFields
    <3> QED
      BY <3>1, <1>1, <1>9
  <2>2. latest' \in 0..turns' /\ turns' \in Nat
    BY <1>1 DEF registry
  <2> QED
    BY <2>1, <2>2, <1>1, <1>9 DEF IInv, Shape, registry
<1> QED
  BY <1>8, <1>10, <1>11 DEF IInv

LEMMA RerunKeeps == ASSUME IInv, NEW c \in Pushes, Rerun(c) PROVE IInv'
<1>1. reruns' \in 0..MaxReruns
  BY ReleaseAssumption DEF Rerun, IInv, Shape
<1> QED
  BY <1>1, TurnKeeps DEF Rerun

LEMMA CreateKeeps == ASSUME IInv, NEW c \in Pushes, Create(c) PROVE IInv'
<1>1. reruns' \in 0..MaxReruns
  BY DEF Create, IInv, Shape
<1> QED
  BY <1>1, TurnKeeps DEF Create

(* One run starts, goes on or ends. *)
StageMoves(c, stage) ==
    \/ stage \in Ended
    \/ stage \in Active /\ run[c].stage \in Active
    \/ /\ stage \in Active /\ run[c].stage = "pending"
       /\ \A d \in Pushes : run[d].stage \notin Active

(* Run c goes on as r, which still has its turn or is out of the group. *)
KeepsTurn(c, r) ==
    r.turn <= run[c].turn /\ (r.turn = run[c].turn \/ r.stage \in Ended)

LEMMA Stepped ==
    ASSUME IInv, NEW c \in Pushes, NEW r \in Runs, run' = [run EXCEPT ![c] = r],
           UNCHANGED <<pulls, main, turns, reruns>>,
           KeepsTurn(c, r), StageMoves(c, r.stage),
           image' \in [Versions -> 0..Len(main)], tag' \in [Versions -> 0..Len(main)],
           latest' \in 0..turns
    PROVE  /\ Shape' /\ Group(run') /\ Behind(run')
           /\ Pushes' = Pushes /\ DOMAIN run = Pushes /\ DOMAIN run' = Pushes
           /\ \A d \in Pushes : main'[d].version = main[d].version
           /\ run'[c] = r /\ \A d \in Pushes : d # c => run'[d] = run[d]
<1>1. run \in Seq(Runs) /\ DOMAIN run = Pushes
  BY PushFields DEF IInv, Shape
<1>2. /\ run' \in Seq(Runs) /\ Len(run') = Len(run) /\ DOMAIN run' = Pushes
      /\ run'[c] = r /\ \A d \in Pushes : d # c => run'[d] = run[d]
  BY <1>1, OneRun
<1>3. Group(run') /\ Behind(run')
  BY <1>1, AdvanceKeepsOrder DEF IInv, StageMoves, KeepsTurn
<1>4. Shape'
  <2>1. \A d \in DOMAIN run' : run'[d].turn <= turns'
    <3>1. run[c].turn \in Nat /\ r.turn \in Nat /\ turns \in Nat
      BY <1>1, RunFields DEF IInv, Shape, Runs
    <3> QED
      BY <3>1, <1>1, <1>2 DEF IInv, Shape, KeepsTurn
  <2> QED
    BY <2>1, <1>2 DEF IInv, Shape
<1> QED
  BY <1>1, <1>2, <1>3, <1>4 DEF Pushes

(* ... without a change to the registry. *)
LEMMA QuietStep ==
    ASSUME IInv, NEW c \in Pushes, NEW r \in Runs, run' = [run EXCEPT ![c] = r],
           UNCHANGED <<pulls, main, registry, turns, reruns>>,
           KeepsTurn(c, r), run[c].blind => r.blind, StageMoves(c, r.stage),
           r.stage \notin {"done", "release", "pending"},
           run[c].stage \in Active \cup {"pending"},
           r.stage = "push" => r.blind \/ tag[Version(c)] = 0
    PROVE  IInv'
<1>1. /\ image' = image /\ tag' = tag /\ latest' = latest
      /\ image' \in [Versions -> 0..Len(main)] /\ tag' \in [Versions -> 0..Len(main)]
      /\ latest' \in 0..turns
  BY DEF registry, IInv, Shape
<1>2. /\ Shape' /\ Group(run') /\ Behind(run')
      /\ Pushes' = Pushes /\ DOMAIN run = Pushes /\ DOMAIN run' = Pushes
      /\ \A d \in Pushes : main'[d].version = main[d].version
      /\ run'[c] = r /\ \A d \in Pushes : d # c => run'[d] = run[d]
  BY <1>1, Stepped
<1>3. Forward'
  BY <1>1, <1>2 DEF IInv, Forward, KeepsTurn, StageMoves, Active, Ended
<1>4. Unreleased'
  BY <1>1, <1>2 DEF IInv, Unreleased, Version
<1>5. Pushed'
  BY <1>1, <1>2 DEF IInv, Pushed, Version
<1>6. GreenRunReleased'
  <2>1. \A d \in Pushes : run[d].blind => run'[d].blind
    BY <1>2
  <2>2. ASSUME NEW d \in Pushes, run'[d].stage = "done"
        PROVE  /\ tag'[main'[d].version] # 0
               /\ \/ image'[main'[d].version] = d
                  \/ /\ image'[main'[d].version] \in Pushes
                     /\ run'[image'[main'[d].version]].blind
    <3>1. run[d].stage = "done"
      BY <1>2, <2>2
    <3> QED
      BY <3>1, <2>1, <1>1, <1>2 DEF IInv, GreenRunReleased, Version
  <2> QED
    BY <2>2, <1>2 DEF GreenRunReleased, Version
<1> QED
  BY <1>2, <1>3, <1>4, <1>5, <1>6 DEF IInv

(* The run pushes its image, or some of its tags. *)
LEMMA PushStep ==
    ASSUME IInv, NEW c \in Pushes, NEW r \in Runs, run' = [run EXCEPT ![c] = r],
           UNCHANGED <<pulls, main, turns, reruns, tag>>,
           KeepsTurn(c, r),
           r.blind = run[c].blind,
           run[c].stage = "push", r.stage \in {"release", "failed"},
           image' \in {image, [image EXCEPT ![Version(c)] = c]}, latest' \in {latest, run[c].turn},
           r.stage = "release" => image' = [image EXCEPT ![Version(c)] = c]
    PROVE  IInv'
<1>1. /\ Version(c) \in Versions /\ c \in 0..Len(main) /\ Len(main) \in Nat
      /\ \A d \in Pushes : Version(d) \in Versions
      /\ image \in [Versions -> 0..Len(main)] /\ turns \in Nat /\ latest \in 0..turns
      /\ run[c].blind \in BOOLEAN /\ run[c].turn \in 0..turns
      /\ Pushes = 1..Len(main)
  BY PushFields DEF IInv, Shape
<1>2. /\ image' \in [Versions -> 0..Len(main)] /\ tag' \in [Versions -> 0..Len(main)]
      /\ latest' \in 0..turns
      /\ \A v \in Versions : image'[v] = image[v] \/ (image'[v] = c /\ v = Version(c))
      /\ r.stage = "release" => image'[Version(c)] = c
  BY <1>1 DEF IInv, Shape
<1>3. StageMoves(c, r.stage)
  BY DEF StageMoves, Active, Ended
<1>4. /\ Shape' /\ Group(run') /\ Behind(run')
      /\ Pushes' = Pushes /\ DOMAIN run = Pushes /\ DOMAIN run' = Pushes
      /\ \A d \in Pushes : main'[d].version = main[d].version
      /\ run'[c] = r /\ \A d \in Pushes : d # c => run'[d] = run[d]
  BY <1>2, <1>3, Stepped
<1>5. "push" \in Active /\ "release" \in Active
  BY DEF Active
<1>6. \A d \in Pushes : d # c => run[d].stage \notin Active
  BY <1>4, <1>5 DEF IInv, Group
<1>7. Forward'
  <2>1. ASSUME NEW d \in Pushes, run'[d].stage \in Active \cup {"pending"}
        PROVE  latest' <= run'[d].turn
    <3>1. CASE d = c
      <4>1. run'[d].turn = run[c].turn
        BY <3>1, <2>1, <1>4 DEF KeepsTurn, Active, Ended
      <4>2. latest <= run[c].turn
        BY <1>4, <1>5 DEF IInv, Forward
      <4> QED
        BY <4>1, <4>2, <1>1
    <3>2. CASE d # c
      <4>1. run[d].stage = "pending" /\ run'[d] = run[d]
        BY <3>2, <2>1, <1>4, <1>6
      <4>2. run[c].turn < run[d].turn /\ latest <= run[d].turn /\ run[d].turn \in Nat
        BY <4>1, <1>4, <1>5, PushFields DEF IInv, Behind, Forward
      <4> QED
        BY <4>1, <4>2, <1>1
    <3> QED
      BY <3>1, <3>2
  <2> QED
    BY <2>1, <1>4 DEF Forward
<1>8. Unreleased'
  <2>1. ASSUME NEW d \in Pushes, run'[d].stage \in {"push", "release"}, run'[d].blind = FALSE
        PROVE  tag'[main'[d].version] = 0
    <3>1. d = c
      BY <2>1, <1>4, <1>5, <1>6
    <3> QED
      BY <3>1, <2>1, <1>4 DEF IInv, Unreleased, Version
  <2> QED
    BY <2>1, <1>4 DEF Unreleased, Version
<1>9. Pushed'
  <2>1. ASSUME NEW d \in Pushes, run'[d].stage = "release"
        PROVE  image'[main'[d].version] = d
    <3>1. d = c
      BY <2>1, <1>4, <1>5, <1>6
    <3> QED
      BY <3>1, <2>1, <1>2, <1>4 DEF Version
  <2> QED
    BY <2>1, <1>4 DEF Pushed, Version
<1>10. GreenRunReleased'
  <2>1. \A d \in Pushes : run[d].blind => run'[d].blind
    BY <1>4
  <2>2. ASSUME NEW d \in Pushes, run'[d].stage = "done"
        PROVE  /\ tag'[main'[d].version] # 0
               /\ \/ image'[main'[d].version] = d
                  \/ /\ image'[main'[d].version] \in Pushes
                     /\ run'[image'[main'[d].version]].blind
    <3>1. run[d].stage = "done" /\ d # c
      BY <1>4, <2>2
    <3>2. /\ tag[Version(d)] # 0
          /\ \/ image[Version(d)] = d
             \/ image[Version(d)] \in Pushes /\ run[image[Version(d)]].blind
      BY <3>1 DEF IInv, GreenRunReleased
    <3>3. tag' = tag /\ main'[d].version = Version(d)
      BY <1>4 DEF Version
    <3>4. CASE image'[Version(d)] = image[Version(d)]
      BY <3>2, <3>3, <3>4, <2>1
    <3>5. CASE image'[Version(d)] = c /\ Version(d) = Version(c)
      <4>1. run[c].blind
        BY <3>2, <3>5, <1>1, <1>4 DEF IInv, Unreleased
      <4> QED
        BY <4>1, <3>2, <3>3, <3>5, <2>1
    <3> QED
      BY <3>4, <3>5, <1>1, <1>2
  <2> QED
    BY <2>2, <1>4 DEF GreenRunReleased, Version
<1> QED
  BY <1>4, <1>7, <1>8, <1>9, <1>10 DEF IInv

(* The run makes its release, or fails to. *)
LEMMA ReleaseStep ==
    ASSUME IInv, NEW c \in Pushes, NEW r \in Runs, run' = [run EXCEPT ![c] = r],
           UNCHANGED <<pulls, main, turns, reruns, image, latest>>,
           KeepsTurn(c, r),
           r.blind = run[c].blind,
           run[c].stage = "release", r.stage \in {"done", "failed"},
           tag' \in {tag, [tag EXCEPT ![Version(c)] = Len(main)]},
           r.stage = "done" => tag' = [tag EXCEPT ![Version(c)] = Len(main)]
    PROVE  IInv'
<1>1. /\ Version(c) \in Versions /\ Len(main) \in Nat \ {0}
      /\ \A d \in Pushes : Version(d) \in Versions
      /\ tag \in [Versions -> 0..Len(main)]
  BY PushFields DEF IInv, Shape
<1>2. /\ image' \in [Versions -> 0..Len(main)] /\ tag' \in [Versions -> 0..Len(main)]
      /\ latest' \in 0..turns
      /\ \A v \in Versions : tag[v] # 0 => tag'[v] # 0
      /\ r.stage = "done" => tag'[Version(c)] # 0
  <2>1. \/ tag' = tag /\ r.stage # "done"
        \/ tag' = [tag EXCEPT ![Version(c)] = Len(main)]
    OBVIOUS
  <2>2. tag' \in [Versions -> 0..Len(main)]
    BY <2>1, <1>1
  <2>3. \A v \in Versions : tag'[v] = tag[v] \/ tag'[v] # 0
    BY <2>1, <1>1
  <2>4. r.stage = "done" => tag'[Version(c)] # 0
    BY <2>1, <1>1
  <2> QED
    BY <2>2, <2>3, <2>4 DEF IInv, Shape
<1>3. StageMoves(c, r.stage)
  BY DEF StageMoves, Active, Ended
<1>4. /\ Shape' /\ Group(run') /\ Behind(run')
      /\ Pushes' = Pushes /\ DOMAIN run = Pushes /\ DOMAIN run' = Pushes
      /\ \A d \in Pushes : main'[d].version = main[d].version
      /\ run'[c] = r /\ \A d \in Pushes : d # c => run'[d] = run[d]
  BY <1>2, <1>3, Stepped
<1>5. /\ "push" \in Active /\ "release" \in Active
      /\ {"done", "failed"} \cap (Active \cup {"pending"}) = {}
  BY DEF Active
<1>6. \A d \in Pushes : run'[d].stage \notin Active
  BY <1>4, <1>5 DEF IInv, Group
<1>7. Forward'
  BY <1>4, <1>5 DEF IInv, Forward
<1>8. Unreleased' /\ Pushed'
  BY <1>4, <1>5, <1>6 DEF Unreleased, Pushed
<1>9. GreenRunReleased'
  <2>1. \A d \in Pushes : run[d].blind => run'[d].blind
    BY <1>4
  <2>2. ASSUME NEW d \in Pushes, run'[d].stage = "done"
        PROVE  /\ tag'[main'[d].version] # 0
               /\ \/ image'[main'[d].version] = d
                  \/ /\ image'[main'[d].version] \in Pushes
                     /\ run'[image'[main'[d].version]].blind
    <3>1. image' = image /\ main'[d].version = Version(d)
      BY <1>4 DEF Version
    <3>2. CASE d = c
      BY <3>1, <3>2, <2>2, <1>2, <1>4 DEF IInv, Pushed
    <3>3. CASE d # c
      <4>1. run[d].stage = "done"
        BY <3>3, <2>2, <1>4
      <4>2. /\ tag[Version(d)] # 0
            /\ \/ image[Version(d)] = d
               \/ image[Version(d)] \in Pushes /\ run[image[Version(d)]].blind
        BY <4>1 DEF IInv, GreenRunReleased
      <4> QED
        BY <4>2, <3>1, <2>1, <1>1, <1>2
    <3> QED
      BY <3>2, <3>3
  <2> QED
    BY <2>2, <1>4 DEF GreenRunReleased, Version
<1> QED
  BY <1>4, <1>7, <1>8, <1>9 DEF IInv

LEMMA StepKeeps ==
    ASSUME IInv, NEW c \in Pushes, Step(c), ~Create(c)
    PROVE  IInv'
<1>1. /\ run[c] \in Runs /\ DOMAIN run = Pushes /\ run \in Seq(Runs)
      /\ run[c].turn \in Nat /\ run[c].blind \in BOOLEAN
  BY PushFields DEF IInv, Shape
<1>2. ASSUME NEW stage \in Active \cup Ended
      PROVE  LET r == Staged(run[c], stage)
             IN  r \in Runs /\ r.stage = stage /\ KeepsTurn(c, r) /\ r.blind = run[c].blind
  <2>1. stage \in Stages
    BY DEF Stages
  <2> QED
    BY <2>1, <1>1, StagedRun DEF KeepsTurn
<1>3. ASSUME NEW from, NEW to, Advance(c, from, to)
      PROVE  /\ run' = [run EXCEPT ![c] = Staged(run[c], to)] /\ run[c].stage = from
             /\ UNCHANGED <<pulls, main, turns, reruns>>
  BY <1>1, <1>3 DEF Advance
<1>4. /\ {"test", "check", "push", "release"} = Active
      /\ {"done", "skipped", "failed"} \subseteq Ended
  BY DEF Active, Ended
<1>5. CASE Start(c)
  <2> DEFINE r == Staged(run[c], "test")
  <2>1. /\ run' = [run EXCEPT ![c] = r] /\ run[c].stage = "pending"
        /\ UNCHANGED <<pulls, main, registry, turns, reruns>>
        /\ \A d \in Pushes : run[d].stage \notin Active
    BY <1>1, <1>5 DEF Start
  <2>2. r \in Runs /\ r.stage = "test" /\ KeepsTurn(c, r) /\ r.blind = run[c].blind
    BY <1>2, <1>4
  <2>3. StageMoves(c, r.stage)
    BY <2>1, <2>2, <1>4 DEF StageMoves
  <2> HIDE DEF r
  <2> QED
    BY <2>1, <2>2, <2>3, QuietStep
<1>6. CASE Test(c) \/ TestFails(c) \/ CheckDuplicate(c)
  <2>1. PICK to \in {"check", "skipped", "failed", "push"} :
           /\ \E from \in Active : Advance(c, from, to)
           /\ UNCHANGED registry
           /\ to = "push" => tag[Version(c)] = 0
    BY <1>4, <1>6 DEF Test, TestFails, CheckDuplicate
  <2> DEFINE r == Staged(run[c], to)
  <2>2. /\ run' = [run EXCEPT ![c] = r] /\ run[c].stage \in Active
        /\ UNCHANGED <<pulls, main, registry, turns, reruns>>
    BY <2>1, <1>3
  <2>3. r \in Runs /\ r.stage = to /\ KeepsTurn(c, r) /\ r.blind = run[c].blind
    BY <1>2, <1>4
  <2>4. StageMoves(c, r.stage)
    BY <2>2, <2>3, <1>4 DEF StageMoves
  <2> HIDE DEF r
  <2> QED
    BY <2>1, <2>2, <2>3, <2>4, QuietStep
<1>7. CASE CheckBlind(c)
  <2> DEFINE r == [run[c] EXCEPT !.stage = "push", !.blind = TRUE]
  <2>1. /\ run' = [run EXCEPT ![c] = r] /\ run[c].stage \in Active
        /\ UNCHANGED <<pulls, main, registry, turns, reruns>>
    BY <1>1, <1>4, <1>7 DEF CheckBlind
  <2>2. r \in Runs /\ r.stage = "push" /\ KeepsTurn(c, r) /\ r.blind = TRUE
    <3>1. r.turn = run[c].turn /\ r.stage = "push" /\ r.blind = TRUE
      BY <1>1 DEF Runs
    <3>2. r \in Runs
      BY <1>1, <1>4 DEF Runs, Stages
    <3> HIDE DEF r
    <3> QED
      BY <3>1, <3>2, <1>1 DEF KeepsTurn
  <2>3. StageMoves(c, r.stage)
    BY <2>1, <2>2, <1>4 DEF StageMoves
  <2> HIDE DEF r
  <2> QED
    BY <2>1, <2>2, <2>3, QuietStep
<1>8. CASE PushImage(c)
  <2> DEFINE r == Staged(run[c], "release")
  <2>1. /\ run' = [run EXCEPT ![c] = r] /\ run[c].stage = "push"
        /\ UNCHANGED <<pulls, main, turns, reruns, tag>>
        /\ image' = [image EXCEPT ![Version(c)] = c] /\ latest' = run[c].turn
    BY <1>3, <1>8 DEF PushImage
  <2>2. r \in Runs /\ r.stage = "release" /\ KeepsTurn(c, r) /\ r.blind = run[c].blind
    BY <1>2, <1>4
  <2> HIDE DEF r
  <2> QED
    BY <2>1, <2>2, PushStep
<1>9. CASE PushFails(c)
  <2> DEFINE r == Staged(run[c], "failed")
  <2>1. /\ run' = [run EXCEPT ![c] = r] /\ run[c].stage = "push"
        /\ UNCHANGED <<pulls, main, turns, reruns, tag>>
        /\ image' \in {image, [image EXCEPT ![Version(c)] = c]} /\ latest' \in {latest, run[c].turn}
    BY <1>3, <1>9 DEF PushFails
  <2>2. r \in Runs /\ r.stage = "failed" /\ KeepsTurn(c, r) /\ r.blind = run[c].blind
    BY <1>2, <1>4
  <2> HIDE DEF r
  <2> QED
    BY <2>1, <2>2, PushStep
<1>10. CASE CreateRelease(c) \/ CreateFails(c)
  <2>1. PICK to \in {"done", "failed"} :
           /\ Advance(c, "release", to)
           /\ UNCHANGED <<image, latest>>
           /\ tag' \in {tag, [tag EXCEPT ![Version(c)] = Len(main)]}
           /\ to = "done" => tag' = [tag EXCEPT ![Version(c)] = Len(main)]
    BY <1>10 DEF CreateRelease, CreateFails
  <2> DEFINE r == Staged(run[c], to)
  <2>2. /\ run' = [run EXCEPT ![c] = r] /\ run[c].stage = "release"
        /\ UNCHANGED <<pulls, main, turns, reruns>>
    BY <2>1, <1>3
  <2>3. r \in Runs /\ r.stage = to /\ KeepsTurn(c, r) /\ r.blind = run[c].blind
    BY <1>2, <1>4
  <2> HIDE DEF r
  <2> QED
    BY <2>1, <2>2, <2>3, ReleaseStep
<1> QED
  BY <1>5, <1>6, <1>7, <1>8, <1>9, <1>10 DEF Step

LEMMA NextIInv == IInv /\ [Next]_vars => IInv'
<1> SUFFICES ASSUME IInv, [Next]_vars PROVE IInv'
  OBVIOUS
<1>1. ASSUME NEW kind \in Kinds, NEW v \in Versions, OpenPull(kind, v) PROVE IInv'
  BY <1>1, OpenPullKeeps
<1>2. ASSUME NEW p \in BagToSet(pulls), Merge(p) PROVE IInv'
  BY <1>2, MergeKeeps
<1>3. ASSUME NEW c \in Pushes, Rerun(c) \/ Create(c) PROVE IInv'
  BY <1>3, RerunKeeps, CreateKeeps
<1>4. ASSUME NEW c \in Pushes, Step(c), ~Create(c) PROVE IInv'
  BY <1>4, StepKeeps
<1>5. CASE UNCHANGED vars
  BY <1>5 DEF vars, registry, IInv, Shape, Group, Behind, Forward, Unreleased,
              Pushed, GreenRunReleased, Pushes, Version
<1> QED
  BY <1>1, <1>2, <1>3, <1>4, <1>5 DEF Next, Idle

(* The inductive invariant: the group holds one run at work and one that   *)
(* waits, whose turn is later, neither is behind the tag latest, and a run *)
(* that saw its version free still finds it free when it releases.         *)
THEOREM Invariant == Spec => []IInv
<1> QED
  BY InitIInv, NextIInv, PTL DEF Spec

(* A set whose members are all equal has at most one. *)
LEMMA AtMostOne ==
    ASSUME NEW S, \A c, d \in S : c = d
    PROVE  Cardinality(S) <= 1
<1>1. CASE S = {}
  BY <1>1, FS_EmptySet
<1>2. CASE S # {}
  <2>1. PICK c : S = {c}
    BY <1>2
  <2>2. Cardinality({c}) = 1
    BY FS_Singleton
  <2>3. Cardinality(S) = 1
    BY <2>1, <2>2
  <2> QED
    BY <2>3
<1> QED
  BY <1>1, <1>2

(* The state of the workflow has its type; at most one run holds the       *)
(* concurrency group and at most one waits for it.                         *)
THEOREM TypeCorrect == Spec => []TypeOK
<1>1. IInv => TypeOK
  <2> SUFFICES ASSUME IInv PROVE TypeOK
    OBVIOUS
  <2>1. DOMAIN run = Pushes /\ run \in [Pushes -> Runs]
    <3>1. DOMAIN run = 1..Len(run) /\ DOMAIN run = Pushes
      BY PushFields, LenProperties DEF IInv, Shape
    <3> QED
      BY <3>1, ElementOfSeq DEF IInv, Shape
  <2>2. Cardinality({c \in Pushes : run[c].stage \in Active}) <= 1
    BY <2>1, AtMostOne DEF IInv, Group
  <2>3. Cardinality({c \in Pushes : run[c].stage = "pending"}) <= 1
    BY <2>1, AtMostOne DEF IInv, Group
  <2>4. \A c \in Pushes : run[c].turn \in 0..turns
    BY <2>1 DEF IInv, Shape, Runs
  <2>5. run \in [Pushes -> [stage: Active \cup Ended \cup {"created", "pending"},
                            turn: 0..turns, blind: BOOLEAN]]
    BY <2>1, <2>4 DEF Runs, Stages
  <2> QED
    BY <2>2, <2>3, <2>5 DEF IInv, Shape, TypeOK
<1> QED
  BY <1>1, Invariant, PTL

(* A run that ended well has released its own commit, whatever later and   *)
(* repeated runs of the same version do.                                   *)
THEOREM GreenRunsReleased == Spec => []GreenRunReleased
<1> QED
  BY Invariant, PTL DEF IInv

(* The tag latest only passes to runs that entered the group later.        *)
THEOREM LatestFollows == Spec => LatestFollowsGroup
<1>1. IInv /\ [Next]_vars => [latest' >= latest]_vars
  <2> SUFFICES ASSUME IInv, Next PROVE latest' >= latest
    OBVIOUS
  <2>0. latest \in Nat
    BY DEF IInv, Shape
  <2>1. CASE latest' = latest
    BY <2>0, <2>1
  <2>2. ASSUME NEW c \in Pushes, run[c].stage = "push", latest' = run[c].turn
        PROVE  latest' >= latest
    <3>1. DOMAIN run = Pushes /\ run[c].turn \in Nat
      BY PushFields DEF IInv
    <3> QED
      BY <2>0, <2>2, <3>1 DEF IInv, Forward, Active
  <2>3. \/ latest' = latest
        \/ \E c \in Pushes : run[c].stage = "push" /\ latest' = run[c].turn
    BY DEF Next, OpenPull, Merge, Create, Rerun, TakeTurn, Idle, vars, registry, Step,
           Start, Test, TestFails, CheckDuplicate, CheckBlind, PushImage, PushFails,
           CreateRelease, CreateFails, Advance
  <2> QED
    BY <2>1, <2>2, <2>3
<1> QED
  BY <1>1, Invariant, PTL DEF Spec, LatestFollowsGroup
===============================================================================
