------------------------ MODULE DirectoryWatcherProofs ------------------------
(***************************************************************************)
(* For any tree of one root and its subdirectories, any number of calls in *)
(* progress, of changes, faults and stops: a watcher that is active,       *)
(* reports healthy and met no fault misses no file.                        *)
(***************************************************************************)
EXTENDS DirectoryWatcher, SequenceTheorems, TLAPS

LEMMA ConstantFacts ==
    /\ Root \in Dirs /\ Root \in Targets /\ Root \notin Subdirs
    /\ Dirs \cap Files = {} /\ Targets = Dirs \cup Files /\ Dirs = {Root} \cup Subdirs
    /\ Home \in [Files -> Dirs]
    /\ MaxChanges \in Nat /\ MaxFaults \in Nat /\ MaxStops \in Nat
BY WatcherAssumption DEF Dirs, Targets

LEMMA ParentFacts ==
    /\ \A f \in Files : Parent(f) = Home[f] /\ Home[f] \in Dirs
    /\ \A d \in Dirs : Parent(d) = Root
    /\ \A t \in Targets : Parent(t) \in Dirs
BY ConstantFacts DEF Parent

LEMMA BelowFacts ==
    ASSUME NEW d \in Dirs
    PROVE  /\ Below(d) \subseteq Dirs /\ d \in Below(d)
           /\ d # Root => Below(d) = {d}
BY ConstantFacts DEF Below

------------------------------------------------------------------------------
(* The directory listings of a call.                                       *)

In(w, t) == \E n \in 1 .. Len(w) : t \in w[n]

LEMMA OneLess == \A n \in Nat : n >= 1 => (IF 1 <= n - 1 THEN (n - 1) - 1 + 1 ELSE 0) = n - 1
OBVIOUS

LEMMA LastDropped ==
    ASSUME NEW S, NEW w \in Seq(S), w # <<>>
    PROVE  LET v == SubSeq(w, 1, Len(w) - 1) IN
           /\ v \in Seq(S) /\ Len(v) = Len(w) - 1
           /\ \A n \in 1 .. Len(w) - 1 : v[n] = w[n]
<1>1. Len(w) \in Nat /\ Len(w) >= 1
  OBVIOUS
<1>2. \A n \in 1 .. Len(w) - 1 : w[n] \in S
  OBVIOUS
<1>3. SubSeq(w, 1, Len(w) - 1) \in Seq(S)
  BY <1>1
<1>4. \A n \in 1 .. Len(w) - 1 : SubSeq(w, 1, Len(w) - 1)[n] = w[n]
  BY <1>1
<1>5. Len(SubSeq(w, 1, Len(w) - 1)) = IF 1 <= Len(w) - 1 THEN (Len(w) - 1) - 1 + 1 ELSE 0
  BY <1>1, <1>2, SubSeqProperties
<1>6. (IF 1 <= Len(w) - 1 THEN (Len(w) - 1) - 1 + 1 ELSE 0) = Len(w) - 1
  BY <1>1, OneLess
<1>7. Len(SubSeq(w, 1, Len(w) - 1)) = Len(w) - 1
  <2>. DEFINE a == Len(SubSeq(w, 1, Len(w) - 1))
              b == IF 1 <= Len(w) - 1 THEN (Len(w) - 1) - 1 + 1 ELSE 0
              c == Len(w) - 1
  <2>1. a = b /\ b = c
    BY <1>5, <1>6
  <2>. HIDE DEF a, b, c
  <2>2. a = c
    BY <2>1
  <2>. QED BY <2>2 DEF a, c
<1>. QED BY <1>3, <1>4, <1>7

LEMMA LastReplaced ==
    ASSUME NEW S, NEW w \in Seq(S), w # <<>>, NEW e \in S
    PROVE  LET v == [w EXCEPT ![Len(w)] = e] IN
           /\ v \in Seq(S) /\ Len(v) = Len(w)
           /\ \A n \in 1 .. Len(w) : v[n] = IF n = Len(w) THEN e ELSE w[n]
<1>1. Len(w) \in 1 .. Len(w) /\ DOMAIN w = 1 .. Len(w)
  OBVIOUS
<1>2. [w EXCEPT ![Len(w)] = e] \in Seq(S) /\ Len([w EXCEPT ![Len(w)] = e]) = Len(w)
  BY <1>1, ExceptSeq
<1>3. \A n \in 1 .. Len(w) : [w EXCEPT ![Len(w)] = e][n] = IF n = Len(w) THEN e ELSE w[n]
  BY <1>1
<1>. QED BY <1>2, <1>3

LEMMA AppendedListing ==
    ASSUME NEW w \in Seq(SUBSET Targets), NEW S \in SUBSET Targets
    PROVE  /\ Append(w, S) \in Seq(SUBSET Targets)
           /\ \A t : In(Append(w, S), t) <=> In(w, t) \/ t \in S
<1>1. /\ Append(w, S) \in Seq(SUBSET Targets) /\ Len(Append(w, S)) = Len(w) + 1
      /\ Len(w) \in Nat
      /\ \A n \in 1 .. Len(w) : Append(w, S)[n] = w[n]
      /\ Append(w, S)[Len(w) + 1] = S
  OBVIOUS
<1>2. ASSUME NEW t PROVE In(Append(w, S), t) <=> In(w, t) \/ t \in S
  <2>1. ASSUME In(Append(w, S), t) PROVE In(w, t) \/ t \in S
    <3>1. PICK n \in 1 .. Len(w) + 1 : t \in Append(w, S)[n]
      BY <1>1, <2>1 DEF In
    <3>2. CASE n = Len(w) + 1
      BY <1>1, <3>1, <3>2
    <3>3. CASE n # Len(w) + 1
      <4>1. n \in 1 .. Len(w)
        BY <1>1, <3>3
      <4>. QED BY <1>1, <3>1, <4>1 DEF In
    <3>. QED BY <3>2, <3>3
  <2>2. ASSUME In(w, t) PROVE In(Append(w, S), t)
    <3>1. PICK n \in 1 .. Len(w) : t \in w[n]
      BY <2>2 DEF In
    <3>2. n \in 1 .. Len(w) + 1
      BY <1>1
    <3>. QED BY <1>1, <3>1, <3>2 DEF In
  <2>3. ASSUME t \in S PROVE In(Append(w, S), t)
    <3>1. Len(w) + 1 \in 1 .. Len(w) + 1
      BY <1>1
    <3>. QED BY <1>1, <2>3, <3>1 DEF In
  <2>. QED BY <2>1, <2>2, <2>3
<1>. QED BY <1>1, <1>2

LEMMA ClosedListing ==
    ASSUME NEW w \in Seq(SUBSET Targets), w # <<>>
    PROVE  LET v == SubSeq(w, 1, Len(w) - 1) IN
           /\ v \in Seq(SUBSET Targets)
           /\ \A n \in 1 .. Len(v) : n \in 1 .. Len(w) /\ v[n] = w[n]
           /\ \A t : In(v, t) => In(w, t)
           /\ \A t : In(w, t) /\ t \notin w[Len(w)] => In(v, t)
<1>. DEFINE v == SubSeq(w, 1, Len(w) - 1)
<1>1. /\ Len(w) \in Nat /\ Len(w) >= 1
  OBVIOUS
<1>2. /\ v \in Seq(SUBSET Targets) /\ Len(v) = Len(w) - 1
      /\ \A n \in 1 .. Len(w) - 1 : v[n] = w[n]
  BY LastDropped, Zenon
<1>. HIDE DEF v
<1>3. \A n \in 1 .. Len(v) : n \in 1 .. Len(w) /\ v[n] = w[n]
  BY <1>1, <1>2
<1>4. \A t : In(v, t) => In(w, t)
  BY <1>3 DEF In
<1>5. ASSUME NEW t, In(w, t), t \notin w[Len(w)] PROVE In(v, t)
  <2>1. PICK n \in 1 .. Len(w) : t \in w[n]
    BY <1>5 DEF In
  <2>2. n \in 1 .. Len(v)
    BY <1>1, <1>2, <1>5, <2>1
  <2>. QED BY <1>3, <2>1, <2>2 DEF In
<1>6. /\ v \in Seq(SUBSET Targets)
      /\ \A n \in 1 .. Len(v) : n \in 1 .. Len(w) /\ v[n] = w[n]
      /\ \A t : In(v, t) => In(w, t)
      /\ \A t : In(w, t) /\ t \notin w[Len(w)] => In(v, t)
  BY <1>2, <1>3, <1>4, <1>5
<1>. QED BY <1>6 DEF v

LEMMA EntryTaken ==
    ASSUME NEW w \in Seq(SUBSET Targets), w # <<>>, NEW e
    PROVE  LET v == [w EXCEPT ![Len(w)] = @ \ {e}] IN
           /\ v \in Seq(SUBSET Targets)
           /\ Len(v) = Len(w) /\ \A n \in 1 .. Len(w) : v[n] \subseteq w[n]
           /\ \A t : In(v, t) => In(w, t)
           /\ \A t : In(w, t) /\ t # e => In(v, t)
<1>. DEFINE v == [w EXCEPT ![Len(w)] = @ \ {e}]
<1>1. /\ Len(w) \in Nat /\ Len(w) >= 1 /\ DOMAIN w = 1 .. Len(w)
      /\ \A n \in 1 .. Len(w) : w[n] \subseteq Targets
  OBVIOUS
<1>2. /\ v \in Seq(SUBSET Targets) /\ Len(v) = Len(w)
      /\ \A n \in 1 .. Len(w) : v[n] = IF n = Len(w) THEN w[n] \ {e} ELSE w[n]
  <2>1. w[Len(w)] \ {e} \in SUBSET Targets
    BY <1>1
  <2>2. v = [w EXCEPT ![Len(w)] = w[Len(w)] \ {e}]
    OBVIOUS
  <2>3. v \in Seq(SUBSET Targets) /\ Len(v) = Len(w)
    BY <2>1, <2>2, LastReplaced
  <2>4. \A n \in 1 .. Len(w) : v[n] = IF n = Len(w) THEN w[Len(w)] \ {e} ELSE w[n]
    BY <2>1, <2>2, LastReplaced
  <2>5. \A n \in 1 .. Len(w) : v[n] = IF n = Len(w) THEN w[n] \ {e} ELSE w[n]
    <3>. HIDE DEF v
    <3>. QED BY <2>4
  <2>. HIDE DEF v
  <2>. QED BY <2>3, <2>5
<1>. HIDE DEF v
<1>3. \A n \in 1 .. Len(w) : v[n] \subseteq w[n]
  BY <1>2
<1>4. \A t : In(v, t) => In(w, t)
  BY <1>2, <1>3 DEF In
<1>5. \A t : In(w, t) /\ t # e => In(v, t)
  BY <1>2 DEF In
<1>6. /\ v \in Seq(SUBSET Targets)
      /\ Len(v) = Len(w) /\ \A n \in 1 .. Len(w) : v[n] \subseteq w[n]
      /\ \A t : In(v, t) => In(w, t)
      /\ \A t : In(w, t) /\ t # e => In(v, t)
  BY <1>2, <1>3, <1>4, <1>5
<1>. QED BY <1>6 DEF v

------------------------------------------------------------------------------
(* The parts of the invariant.                                             *)

(* TypeOK but for the calls in progress.                                   *)
Parts ==
    /\ there \subseteq Targets /\ version \in [Files -> Nat]
    /\ attached \subseteq Dirs /\ raised \subseteq Targets
    /\ watchers \subseteq Dirs /\ known \subseteq Files /\ pending \subseteq Targets
    /\ active \in BOOLEAN /\ timer \in BOOLEAN
    /\ health \in {"stopped", "healthy", "degraded"}
    /\ scanned \in [Files -> Nat] /\ lost \subseteq Dirs
    /\ changes \in 0 .. MaxChanges /\ faults \in 0 .. MaxFaults /\ stops \in 0 .. MaxStops

Tree ==
    /\ \A t \in there : Parent(t) \in there
    /\ attached \subseteq watchers /\ Root \notin raised \cup pending

JobsFine == job \in [Jobs -> Calls] /\ \A j \in Jobs : Shaped(job[j])

Missed1 == \A f \in Files : Touched(f) => Home[f] \in attached \cup lost
Missed2 == \A f \in Files \cap there : Home[f] \in attached => Covered(f)
Missed3 == Root \in attached => \A d \in Subdirs \cap there : Followed(d)

LEMMA Split == WatcherInv <=> /\ Parts /\ Tree /\ JobsFine
                              /\ faults = 0 => Missed1 /\ Missed2 /\ Missed3
BY DEF WatcherInv, TypeOK, Parts, Tree, JobsFine, NothingMissed, Missed1, Missed2, Missed3

LEMMA CallFacts ==
    ASSUME JobsFine, NEW j \in Jobs
    PROVE  /\ job[j] \in Calls /\ Shaped(job[j])
           /\ job[j].kind \in Kinds /\ job[j].at \in Points
           /\ job[j].target \in Targets /\ job[j].walk \in Seq(SUBSET Targets)
<1>1. job[j] \in Calls /\ Shaped(job[j])
  BY DEF JobsFine
<1>. QED BY <1>1 DEF Calls

LEMMA IdleFacts ==
    /\ Idle \in Calls /\ Shaped(Idle)
    /\ Idle.kind = "none" /\ Idle.at = "idle" /\ Idle.target = Root /\ Idle.walk = <<>>
    /\ \A t : ~In(Idle.walk, t)
<1>1. Idle.kind = "none" /\ Idle.at = "idle" /\ Idle.target = Root /\ Idle.walk = <<>>
  BY DEF Idle
<1>2. Idle \in Calls
  BY ConstantFacts DEF Idle, Calls, Kinds, Points
<1>3. Len(Idle.walk) = 0
  BY <1>1
<1>4. \A t : ~In(Idle.walk, t)
  BY <1>3 DEF In
<1>5. Shaped(Idle)
  BY <1>1 DEF Shaped
<1>. QED BY <1>1, <1>2, <1>4, <1>5

(* A call that becomes c: what all calls look at is what the others look   *)
(* at and what c does.                                                     *)
LEMMA Becomes ==
    ASSUME JobsFine, NEW j \in Jobs, NEW c \in Calls, Shaped(c), Become(j, c)
    PROVE  /\ JobsFine'
           /\ job'[j] = c
           /\ \A k \in Jobs : k # j => job'[k] = job[k]
BY DEF JobsFine, Become

LEMMA ListedIn == \A t : Listed(t) <=> \E j \in Jobs : In(job[j].walk, t)
BY DEF Listed, In

LEMMA AtBecomes ==
    ASSUME JobsFine, NEW j \in Jobs, NEW c \in Calls, Shaped(c), Become(j, c), NEW p, NEW t
    PROVE  /\ At(p, t)' => At(p, t) \/ (c.at = p /\ c.target = t)
           /\ At(p, t) => At(p, t)' \/ (job[j].at = p /\ job[j].target = t)
           /\ c.at = p /\ c.target = t => At(p, t)'
BY Becomes DEF At

LEMMA ListedBecomes ==
    ASSUME JobsFine, NEW j \in Jobs, NEW c \in Calls, Shaped(c), Become(j, c), NEW t
    PROVE  /\ Listed(t)' => Listed(t) \/ In(c.walk, t)
           /\ Listed(t) => Listed(t)' \/ In(job[j].walk, t)
           /\ In(c.walk, t) => Listed(t)'
           /\ In(job[j].walk, t) => Listed(t)
BY Becomes DEF Listed, In

LEMMA JobSame ==
    ASSUME UNCHANGED job
    PROVE  /\ JobsFine => JobsFine'
           /\ \A p, t : At(p, t)' <=> At(p, t)
           /\ \A t : Listed(t)' <=> Listed(t)
BY DEF JobsFine, At, Listed

LEMMA Joined ==
    ASSUME Parts', Tree', JobsFine', faults' = 0 => Missed1' /\ Missed2' /\ Missed3'
    PROVE  WatcherInv'
BY DEF WatcherInv, TypeOK, Parts, Tree, JobsFine, NothingMissed, Missed1, Missed2, Missed3

LEMMA FaultFacts ==
    ASSUME Parts, Fault PROVE faults' \in 0 .. MaxFaults /\ faults' # 0
BY ConstantFacts DEF Parts, Fault

LEMMA CloseFacts ==
    ASSUME Parts, Tree, NEW ds \in SUBSET Dirs, CloseHandles(ds)
    PROVE  /\ watchers' = watchers \ ds /\ attached' = attached \ ds
           /\ watchers' \subseteq Dirs /\ attached' \subseteq watchers'
           /\ lost' \subseteq Dirs /\ lost \subseteq lost'
           /\ attached \cup lost \subseteq attached' \cup lost'
           /\ raised' \subseteq raised
           /\ \A t \in raised : Parent(t) \notin ds => t \in raised'
BY DEF Parts, Tree, CloseHandles

------------------------------------------------------------------------------
(* Other programs and the system.                                          *)

LEMMA SaveStep ==
    ASSUME WatcherInv, NEW f \in Files, Save(f)
    PROVE  WatcherInv'
<1>0. Parts /\ Tree /\ JobsFine /\ (faults = 0 => Missed1 /\ Missed2 /\ Missed3)
  BY Split
<1>1. Parts'
  <2>1. f \in Targets /\ version[f] + 1 \in Nat /\ changes' \in 0 .. MaxChanges
    BY <1>0, ConstantFacts DEF Parts, Save
  <2>2. version' \in [Files -> Nat] /\ there' \subseteq Targets /\ raised' \subseteq Targets
    BY <1>0, <2>1 DEF Parts, Save
  <2>. QED BY <1>0, <2>1, <2>2 DEF Parts, Save, watchVars
<1>2. Tree'
  BY <1>0, ParentFacts, ConstantFacts DEF Tree, Save, watchVars
<1>3. JobsFine' /\ (\A p, t : At(p, t)' <=> At(p, t)) /\ (\A t : Listed(t)' <=> Listed(t))
  BY <1>0, JobSame DEF Save
<1>4. ASSUME faults' = 0 PROVE Missed1' /\ Missed2' /\ Missed3'
  <2>0. Missed1 /\ Missed2 /\ Missed3
    BY <1>0, <1>4 DEF Save
  <2>1. \A t : Noticed(t) => Noticed(t)'
    BY <1>3 DEF Noticed, Save, watchVars
  <2>2. \A t : t # f \/ Home[f] \notin attached => (Noticed(t)' => Noticed(t))
    BY <1>3 DEF Noticed, Save, watchVars
  <2>3. Home[f] \in attached => Noticed(f)'
    BY DEF Noticed, Save
  <2>4. Missed1'
    BY <1>3, <2>0, <2>2 DEF Missed1, Touched, Save, watchVars
  <2>5. Missed2'
    <3>1. SUFFICES ASSUME NEW e \in Files, e \in there', Home[e] \in attached'
                   PROVE  Covered(e)'
      BY DEF Missed2
    <3>2. CASE e = f
      BY <2>3, <3>1, <3>2 DEF Covered, Save
    <3>3. CASE e # f
      <4>1. Covered(e) /\ version'[e] = version[e]
        BY <1>0, <2>0, <3>1, <3>3 DEF Missed2, Save, Parts
      <4>. QED BY <1>3, <2>1, <4>1 DEF Covered, Save, watchVars
    <3>. QED BY <3>2, <3>3
  <2>6. Missed3'
    BY <1>3, <2>0, <2>1, ConstantFacts DEF Missed3, Followed, Save, watchVars
  <2>. QED BY <2>4, <2>5, <2>6
<1>. QED BY <1>1, <1>2, <1>3, <1>4, Joined

LEMMA MakeDirStep ==
    ASSUME WatcherInv, NEW d \in Dirs, MakeDir(d)
    PROVE  WatcherInv'
<1>0. Parts /\ Tree /\ JobsFine /\ (faults = 0 => Missed1 /\ Missed2 /\ Missed3)
  BY Split
<1>1. Parts'
  <2>1. d \in Targets /\ changes' \in 0 .. MaxChanges
    BY <1>0, ConstantFacts DEF Parts, MakeDir
  <2>. QED BY <1>0, <2>1 DEF Parts, MakeDir, watchVars
<1>2. Tree'
  BY <1>0, ParentFacts, ConstantFacts DEF Tree, MakeDir, watchVars
<1>3. JobsFine' /\ (\A p, t : At(p, t)' <=> At(p, t)) /\ (\A t : Listed(t)' <=> Listed(t))
  BY <1>0, JobSame DEF MakeDir
<1>4. ASSUME faults' = 0 PROVE Missed1' /\ Missed2' /\ Missed3'
  <2>0. Missed1 /\ Missed2 /\ Missed3
    BY <1>0, <1>4 DEF MakeDir
  <2>1. \A t : Noticed(t) => Noticed(t)'
    BY <1>3 DEF Noticed, MakeDir, watchVars
  <2>2. \A t \in Files : Noticed(t)' => Noticed(t)
    BY <1>3, ConstantFacts DEF Noticed, MakeDir, watchVars
  <2>3. d # Root /\ Root \in attached => Noticed(d)'
    BY DEF Noticed, MakeDir
  <2>4. Missed1'
    BY <1>3, <2>0, <2>2 DEF Missed1, Touched, MakeDir, watchVars
  <2>5. Missed2'
    <3>1. SUFFICES ASSUME NEW e \in Files, e \in there', Home[e] \in attached'
                   PROVE  Covered(e)'
      BY DEF Missed2
    <3>2. Covered(e)
      BY <2>0, <3>1, ConstantFacts DEF Missed2, MakeDir
    <3>. QED BY <1>3, <2>1, <3>2 DEF Covered, MakeDir, watchVars
  <2>6. Missed3'
    <3>1. SUFFICES ASSUME Root \in attached, NEW e \in Subdirs, e \in there' PROVE Followed(e)'
      BY DEF Missed3, MakeDir
    <3>2. CASE e = d
      BY <2>3, <3>1, <3>2, ConstantFacts DEF Followed
    <3>3. CASE e # d
      <4>1. Followed(e)
        BY <2>0, <3>1, <3>3 DEF Missed3, MakeDir
      <4>. QED BY <1>3, <2>1, <4>1 DEF Followed, MakeDir, watchVars
    <3>. QED BY <3>2, <3>3
  <2>. QED BY <2>4, <2>5, <2>6
<1>. QED BY <1>1, <1>2, <1>3, <1>4, Joined

LEMMA RemoveStep ==
    ASSUME WatcherInv, NEW r \in Targets, Remove(r)
    PROVE  WatcherInv'
<1>0. Parts /\ Tree /\ JobsFine /\ (faults = 0 => Missed1 /\ Missed2 /\ Missed3)
  BY Split
<1>. DEFINE gone == IF r \in Files THEN {r}
                    ELSE Below(r) \cup {f \in Files : Home[f] \in Below(r)}
<1>1. /\ there' = there \ gone /\ attached' = attached \ gone
      /\ lost' = lost \cup (watchers \cap gone)
      /\ raised' = IF r # Root /\ Parent(r) \in attached THEN raised \cup {r} ELSE raised
      /\ changes' = changes + 1 /\ changes < MaxChanges
      /\ UNCHANGED <<version, watchVars, job, scanned, faults, stops>>
  BY DEF Remove
<1>2. /\ r \in Files => gone = {r}
      /\ r = Root => gone = Targets
      /\ r \in Subdirs => gone = {r} \cup {f \in Files : Home[f] = r}
  BY ConstantFacts DEF Below
<1>. HIDE DEF gone
<1>3. Parts'
  <2>1. changes' \in 0 .. MaxChanges
    BY <1>0, <1>1, ConstantFacts DEF Parts
  <2>. QED BY <1>0, <1>1, <2>1 DEF Parts, watchVars
<1>4. Tree'
  <2>1. \A t \in there' : Parent(t) \in there'
    <3>1. CASE r \in Files
      BY <1>0, <1>1, <1>2, <3>1, ParentFacts, ConstantFacts DEF Tree, Parts
    <3>2. CASE r = Root
      BY <1>0, <1>1, <1>2, <3>2 DEF Tree, Parts
    <3>3. CASE r \in Subdirs
      <4>1. ASSUME NEW t \in there' PROVE Parent(t) \notin gone
        <5>1. t \in there /\ t \notin gone /\ t \in Dirs \cup Files
          BY <1>0, <1>1, ConstantFacts DEF Parts
        <5>2. CASE t \in Dirs
          BY <1>2, <3>3, <5>2, ParentFacts, ConstantFacts
        <5>3. CASE t \in Files
          BY <1>2, <3>3, <5>1, <5>3, ParentFacts, ConstantFacts
        <5>. QED BY <5>1, <5>2, <5>3
      <4>. QED BY <1>0, <1>1, <4>1 DEF Tree
    <3>. QED BY <3>1, <3>2, <3>3, ConstantFacts
  <2>2. attached' \subseteq watchers' /\ Root \notin raised' \cup pending'
    BY <1>0, <1>1 DEF Tree, watchVars
  <2>. QED BY <2>1, <2>2 DEF Tree
<1>5. JobsFine' /\ (\A p, t : At(p, t)' <=> At(p, t)) /\ (\A t : Listed(t)' <=> Listed(t))
  BY <1>0, <1>1, JobSame
<1>6. ASSUME faults' = 0 PROVE Missed1' /\ Missed2' /\ Missed3'
  <2>0. Missed1 /\ Missed2 /\ Missed3
    BY <1>0, <1>1, <1>6
  <2>1. \A t : Noticed(t) => Noticed(t)'
    BY <1>1, <1>5 DEF Noticed, watchVars
  <2>2. \A t \in Files : Noticed(t)' => Noticed(t) \/ Home[t] \in attached
    BY <1>1, <1>5, ParentFacts DEF Noticed, watchVars
  <2>3. attached \cup lost \subseteq attached' \cup lost'
    BY <1>0, <1>1 DEF Tree
  <2>4. Missed1'
    BY <1>1, <1>5, <2>0, <2>2, <2>3 DEF Missed1, Touched, watchVars
  <2>5. Missed2'
    <3>1. SUFFICES ASSUME NEW e \in Files, e \in there', Home[e] \in attached'
                   PROVE  Covered(e)'
      BY DEF Missed2
    <3>2. Covered(e) /\ lost \subseteq lost'
      BY <1>1, <2>0, <3>1 DEF Missed2
    <3>. QED BY <1>1, <1>5, <2>1, <3>2 DEF Covered, watchVars
  <2>6. Missed3'
    BY <1>1, <1>5, <2>0, <2>1 DEF Missed3, Followed, watchVars
  <2>. QED BY <2>4, <2>5, <2>6
<1>. QED BY <1>3, <1>4, <1>5, <1>6, Joined

LEMMA WatcherErrorStep ==
    ASSUME WatcherInv, NEW d \in Dirs, WatcherError(d)
    PROVE  WatcherInv'
<1>0. Parts /\ Tree /\ JobsFine /\ Below(d) \in SUBSET Dirs
  BY Split, BelowFacts
<1>1. faults' \in 0 .. MaxFaults /\ faults' # 0 /\ CloseHandles(Below(d))
  BY <1>0, FaultFacts DEF WatcherError
<1>2. /\ watchers' \subseteq Dirs /\ attached' \subseteq watchers'
      /\ lost' \subseteq Dirs /\ raised' \subseteq raised
  BY <1>0, <1>1, CloseFacts
<1>3. Parts' /\ Tree'
  BY <1>0, <1>1, <1>2 DEF Parts, Tree, WatcherError
<1>4. JobsFine'
  BY <1>0, JobSame DEF WatcherError
<1>. QED BY <1>1, <1>3, <1>4, Joined

LEMMA NamelessStep ==
    ASSUME WatcherInv, NEW t \in Targets, NamelessEvent(t)
    PROVE  WatcherInv'
<1>0. Parts /\ Tree /\ JobsFine
  BY Split
<1>1. faults' \in 0 .. MaxFaults /\ faults' # 0
  BY <1>0, FaultFacts DEF NamelessEvent
<1>2. Parts' /\ Tree'
  BY <1>0, <1>1 DEF Parts, Tree, NamelessEvent, treeVars
<1>3. JobsFine'
  BY <1>0, JobSame DEF NamelessEvent
<1>. QED BY <1>1, <1>2, <1>3, Joined

LEMMA ScheduleStep ==
    ASSUME WatcherInv, NEW t \in Targets, Schedule(t)
    PROVE  WatcherInv'
<1>0. Parts /\ Tree /\ JobsFine /\ (faults = 0 => Missed1 /\ Missed2 /\ Missed3)
  BY Split
<1>1. Parts' /\ Tree'
  BY <1>0 DEF Parts, Tree, Schedule, treeVars
<1>2. JobsFine' /\ (\A p, u : At(p, u)' <=> At(p, u)) /\ (\A u : Listed(u)' <=> Listed(u))
  BY <1>0, JobSame DEF Schedule
<1>3. \A u : Noticed(u)' <=> Noticed(u)
  BY <1>2 DEF Noticed, Schedule
<1>4. ASSUME faults' = 0 PROVE Missed1' /\ Missed2' /\ Missed3'
  <2>0. Missed1 /\ Missed2 /\ Missed3
    BY <1>0, <1>4 DEF Schedule
  <2>1. Missed1'
    BY <1>2, <1>3, <2>0 DEF Missed1, Touched, Schedule, treeVars
  <2>2. Missed2'
    BY <1>2, <1>3, <2>0 DEF Missed2, Covered, Schedule, treeVars
  <2>3. Missed3'
    BY <1>2, <1>3, <2>0 DEF Missed3, Followed, Schedule, treeVars
  <2>. QED BY <2>1, <2>2, <2>3
<1>. QED BY <1>1, <1>2, <1>4, Joined

LEMMA StopStep ==
    ASSUME WatcherInv, Stop
    PROVE  WatcherInv'
<1>0. Parts /\ Tree /\ JobsFine /\ (faults = 0 => Missed1 /\ Missed2 /\ Missed3)
  BY Split
<1>1. /\ watchers' = {} /\ attached' = {} /\ lost' \subseteq Dirs /\ raised' \subseteq raised
      /\ attached \cup lost \subseteq attached' \cup lost'
  BY <1>0, CloseFacts DEF Stop, Parts
<1>2. Parts' /\ Tree'
  <2>1. stops' \in 0 .. MaxStops
    BY <1>0, ConstantFacts DEF Parts, Stop
  <2>. QED BY <1>0, <1>1, <2>1 DEF Parts, Tree, Stop
<1>3. JobsFine' /\ (\A p, u : At(p, u)' <=> At(p, u)) /\ (\A u : Listed(u)' <=> Listed(u))
  BY <1>0, JobSame DEF Stop
<1>4. ASSUME faults' = 0 PROVE Missed1' /\ Missed2' /\ Missed3'
  <2>0. Missed1
    BY <1>0, <1>4 DEF Stop
  <2>1. \A u : Noticed(u)' => Noticed(u)
    BY <1>1, <1>3 DEF Noticed, Stop
  <2>2. Missed1'
    BY <1>1, <1>3, <2>0, <2>1 DEF Missed1, Touched, Stop
  <2>. QED BY <1>1, <2>2 DEF Missed2, Missed3
<1>. QED BY <1>2, <1>3, <1>4, Joined

------------------------------------------------------------------------------
(* The calls.                                                              *)

(* What the calls look at after one of them becomes c.                     *)
Moves(j, c) ==
    /\ \A p, t : /\ At(p, t)' => At(p, t) \/ (c.at = p /\ c.target = t)
                 /\ At(p, t) => At(p, t)' \/ (job[j].at = p /\ job[j].target = t)
                 /\ c.at = p /\ c.target = t => At(p, t)'
    /\ \A t : /\ Listed(t)' => Listed(t) \/ In(c.walk, t)
              /\ Listed(t) => Listed(t)' \/ In(job[j].walk, t)
              /\ In(c.walk, t) => Listed(t)'
              /\ In(job[j].walk, t) => Listed(t)

LEMMA MovesLemma ==
    ASSUME JobsFine, NEW j \in Jobs, NEW c \in Calls, Shaped(c), Become(j, c)
    PROVE  Moves(j, c) /\ JobsFine'
BY AtBecomes, ListedBecomes, Becomes DEF Moves

LEMMA HereAt ==
    ASSUME NEW j \in Jobs, NEW p, job[j].at = p PROVE At(p, job[j].target)
BY DEF At

LEMMA FireStep ==
    ASSUME WatcherInv, NEW j \in Jobs, NEW t \in Targets, Fire(j, t)
    PROVE  WatcherInv'
<1>0. Parts /\ Tree /\ JobsFine /\ (faults = 0 => Missed1 /\ Missed2 /\ Missed3)
  BY Split
<1>1. PICK c : c = [Idle EXCEPT !.kind = "handle", !.at = "stat", !.target = t]
  OBVIOUS
<1>2. c \in Calls /\ c.kind = "handle" /\ c.at = "stat" /\ c.target = t /\ c.walk = Idle.walk
  BY <1>1, IdleFacts DEF Calls, Kinds, Points
<1>3. Shaped(c)
  <2>1. t # Root /\ c.walk = <<>>
    BY <1>0, <1>2, IdleFacts DEF Tree, Fire
  <2>2. \A n \in 1 .. Len(c.walk) : c.walk[n] \subseteq Files
    <3>1. Len(c.walk) = 0
      BY <2>1
    <3>. QED BY <3>1
  <2>. QED BY <1>2, <2>1, <2>2 DEF Shaped
<1>4. Become(j, c) /\ job[j].at = "idle" /\ \A u : ~In(job[j].walk, u)
  BY <1>1, IdleFacts DEF Fire
<1>5. Moves(j, c) /\ JobsFine'
  BY <1>0, <1>2, <1>3, <1>4, MovesLemma
<1>6. /\ \A u : At("emit", u)' <=> At("emit", u)
      /\ \A u : At("read", u)' <=> At("read", u)
      /\ \A u : At("watch", u)' <=> At("watch", u)
      /\ \A u : Listed(u)' <=> Listed(u)
  BY <1>2, <1>4, <1>5, IdleFacts DEF Moves
<1>7. \A u : Noticed(u)' <=> Noticed(u)
  BY <1>2, <1>4, <1>5 DEF Moves, Noticed, Fire
<1>8. Parts' /\ Tree'
  BY <1>0 DEF Parts, Tree, Fire, treeVars
<1>9. ASSUME faults' = 0 PROVE Missed1' /\ Missed2' /\ Missed3'
  <2>0. Missed1 /\ Missed2 /\ Missed3
    BY <1>0, <1>9 DEF Fire
  <2>1. Missed1'
    BY <1>6, <1>7, <2>0 DEF Missed1, Touched, Fire, treeVars
  <2>2. Missed2'
    BY <1>6, <1>7, <2>0 DEF Missed2, Covered, Fire, treeVars
  <2>3. Missed3'
    BY <1>6, <1>7, <2>0 DEF Missed3, Followed, Fire, treeVars
  <2>. QED BY <2>1, <2>2, <2>3
<1>. QED BY <1>5, <1>8, <1>9, Joined

(* A call that looks at the root next, or at nothing, and dropped nothing. *)
LEMMA QuietCall ==
    ASSUME WatcherInv, NEW j \in Jobs, NEW c \in Calls, Shaped(c), Become(j, c),
           c.at \in {"idle", "root", "walk"}, \A u : In(c.walk, u) <=> In(job[j].walk, u),
           job[j].at \in {"idle", "root", "walk"}, Parts', Tree',
           UNCHANGED <<there, version, attached, raised, watchers, known, pending,
                       scanned, lost, faults>>
    PROVE  WatcherInv'
<1>0. Parts /\ Tree /\ JobsFine /\ (faults = 0 => Missed1 /\ Missed2 /\ Missed3)
  BY Split
<1>1. Moves(j, c) /\ JobsFine'
  BY <1>0, MovesLemma
<1>2. /\ \A u : At("emit", u)' <=> At("emit", u)
      /\ \A u : At("read", u)' <=> At("read", u)
      /\ \A u : At("watch", u)' <=> At("watch", u)
      /\ \A u : At("stat", u)' <=> At("stat", u)
      /\ \A u : Listed(u)' <=> Listed(u)
  BY <1>1 DEF Moves
<1>3. \A u : Noticed(u)' <=> Noticed(u)
  BY <1>2 DEF Noticed
<1>4. Missed1 => Missed1'
  BY <1>2, <1>3 DEF Missed1, Touched
<1>5. Missed2 => Missed2'
  BY <1>2, <1>3 DEF Missed2, Covered
<1>6. Missed3 => Missed3'
  BY <1>2, <1>3 DEF Missed3, Followed
<1>. QED BY <1>0, <1>1, <1>4, <1>5, <1>6, Joined

LEMMA BeginStep ==
    ASSUME WatcherInv, NEW j \in Jobs, Start(j) \/ Reconcile(j)
    PROVE  WatcherInv'
<1>0. Parts /\ Tree /\ JobsFine
  BY Split
<1>1. PICK kind : /\ kind \in {"start", "reconcile"}
                  /\ Become(j, [Idle EXCEPT !.kind = kind, !.at = "root"])
  BY DEF Start, Reconcile
<1>2. PICK c : c = [Idle EXCEPT !.kind = kind, !.at = "root"]
  OBVIOUS
<1>3. c \in Calls /\ c.kind = kind /\ c.at = "root" /\ c.walk = Idle.walk
  BY <1>1, <1>2, IdleFacts DEF Calls, Kinds, Points
<1>4. Shaped(c)
  BY <1>1, <1>3 DEF Shaped
<1>5. job[j] = Idle /\ Parts' /\ Tree'
  BY <1>0 DEF Parts, Tree, Start, Reconcile, treeVars, watchVars
<1>6. UNCHANGED <<there, version, attached, raised, watchers, known, pending,
                  scanned, lost, faults>>
  BY DEF Start, Reconcile, treeVars, watchVars
<1>7. Become(j, c) /\ c.walk = job[j].walk /\ job[j].at = "idle"
  BY <1>1, <1>2, <1>3, <1>5, IdleFacts
<1>. QED BY <1>3, <1>4, <1>5, <1>6, <1>7, QuietCall

LEMMA FinishStep ==
    ASSUME WatcherInv, NEW j \in Jobs, Finish(j)
    PROVE  WatcherInv'
<1>0. Parts /\ Tree /\ JobsFine
  BY Split
<1>1. /\ Become(j, Idle) /\ Idle.walk = job[j].walk /\ job[j].at = "walk"
      /\ UNCHANGED <<there, version, attached, raised, watchers, known, pending, active,
                     scanned, lost, changes, faults, stops>>
  BY IdleFacts DEF Finish, KeepHandles
<1>2. timer' \in BOOLEAN /\ health' \in {"stopped", "healthy", "degraded"}
  BY <1>0 DEF Parts, Finish, RunsTimer
<1>3. Parts' /\ Tree'
  BY <1>0, <1>1, <1>2 DEF Parts, Tree
<1>. QED BY <1>1, <1>3, IdleFacts, QuietCall

(* An exception of a call that found its directory gone.                   *)
LEMMA ThrowStep ==
    ASSUME WatcherInv, NEW j \in Jobs, Throw(j),
           \/ job[j].at \in {"root", "watch", "read"} /\ job[j].target \notin there
           \/ job[j].at = "root"
           \/ faults' # 0,
           faults' \in 0 .. MaxFaults, faults' = 0 => faults = 0,
           UNCHANGED <<there, version, known, pending, active, scanned, changes, stops>>
    PROVE  WatcherInv'
<1>0. Parts /\ Tree /\ JobsFine /\ (faults = 0 => Missed1 /\ Missed2 /\ Missed3)
  BY Split
<1>1. timer' \in BOOLEAN /\ health' = "degraded" /\ Become(j, Idle)
  BY <1>0 DEF Throw, RunsTimer, Parts
<1>2. Moves(j, Idle) /\ JobsFine'
  BY <1>0, <1>1, MovesLemma, IdleFacts
<1>3. /\ watchers' \subseteq Dirs /\ attached' \subseteq watchers'
      /\ lost' \subseteq Dirs /\ raised' \subseteq raised
      /\ attached \cup lost \subseteq attached' \cup lost'
      /\ job[j].kind # "handle" => attached' = {}
      /\ job[j].kind = "handle" => UNCHANGED <<watchers, attached, raised, lost>>
  <2>1. CASE job[j].kind = "handle"
    BY <1>0, <2>1 DEF Throw, KeepHandles, Parts, Tree
  <2>2. CASE job[j].kind # "handle"
    <3>1. CloseHandles(Dirs)
      BY <2>2 DEF Throw
    <3>. QED BY <1>0, <2>2, <3>1, CloseFacts DEF Parts
  <2>. QED BY <2>1, <2>2
<1>4. Parts' /\ Tree'
  BY <1>0, <1>1, <1>3 DEF Parts, Tree
<1>5. ASSUME faults' = 0 PROVE Missed1' /\ Missed2' /\ Missed3'
  <2>0. Missed1 /\ Missed2 /\ Missed3
    BY <1>0, <1>5
  <2>1. /\ \A p, u : p # "idle" /\ At(p, u)' => At(p, u)
        /\ \A u : Listed(u)' => Listed(u)
    BY <1>2, IdleFacts DEF Moves
  <2>2. \A u : Noticed(u)' => Noticed(u)
    BY <1>3, <2>1 DEF Noticed
  <2>3. Missed1'
    <3>1. \A f : Touched(f)' => Touched(f)
      BY <2>1, <2>2 DEF Touched
    <3>. QED BY <1>3, <2>0, <3>1 DEF Missed1
  <2>4. CASE job[j].kind # "handle"
    BY <1>3, <2>3, <2>4 DEF Missed2, Missed3
  <2>5. CASE job[j].kind = "handle"
    <3>1. /\ job[j].at \in {"watch", "read"} /\ job[j].target \notin there
          /\ job[j].walk = <<>> /\ UNCHANGED <<watchers, attached, raised, lost>>
      BY <1>0, <1>3, <1>5, <2>5, CallFacts DEF Shaped
    <3>2. \A u : Listed(u) => Listed(u)'
      BY <1>2, <3>1, IdleFacts DEF Moves
    <3>3. /\ \A u : At("emit", u) => At("emit", u)'
          /\ \A u : At("stat", u) => At("stat", u)'
          /\ \A u \in there : At("watch", u) => At("watch", u)'
          /\ \A u \in there : At("read", u) => At("read", u)'
      BY <1>2, <3>1 DEF Moves
    <3>4. \A u : Noticed(u) => Noticed(u)'
      BY <3>1, <3>3 DEF Noticed
    <3>5. Missed2'
      <4>1. SUFFICES ASSUME NEW f \in Files, f \in there, Home[f] \in attached
                     PROVE  Covered(f)'
        BY <3>1 DEF Missed2
      <4>2. Covered(f) /\ Home[f] \in there
        BY <1>0, <2>0, <4>1, ParentFacts DEF Missed2, Tree
      <4>. QED BY <3>1, <3>2, <3>3, <3>4, <4>2 DEF Covered
    <3>6. Missed3'
      <4>1. SUFFICES ASSUME Root \in attached, NEW d \in Subdirs, d \in there
                     PROVE  Followed(d)'
        BY <3>1 DEF Missed3
      <4>2. Followed(d) /\ Root \in there
        BY <1>0, <2>0, <4>1, ParentFacts, ConstantFacts DEF Missed3, Tree
      <4>. QED BY <3>1, <3>2, <3>3, <3>4, <4>1, <4>2 DEF Followed
    <3>. QED BY <2>3, <3>5, <3>6
  <2>. QED BY <2>4, <2>5
<1>. QED BY <1>2, <1>4, <1>5, Joined

(* _watchDirectory: the call goes to the directory or past it.             *)
LEMMA VisitFacts ==
    ASSUME Parts, NEW r \in Calls, NEW d \in Dirs
    PROVE  /\ Visit(r, d) \in Calls
           /\ Visit(r, d).kind = r.kind /\ Visit(r, d).walk = r.walk
           /\ \/ /\ d \in watchers /\ Visit(r, d).at = "walk" /\ Visit(r, d).target = r.target
              \/ /\ d \notin watchers /\ Visit(r, d).at = "watch" /\ Visit(r, d).target = d
<1>1. CASE d \in watchers
  <2>1. PICK c : c = [r EXCEPT !.at = "walk"]
    OBVIOUS
  <2>2. c \in Calls /\ c.kind = r.kind /\ c.walk = r.walk /\ c.at = "walk" /\ c.target = r.target
    BY <2>1 DEF Calls, Points
  <2>3. Visit(r, d) = c
    BY <1>1, <2>1 DEF Visit, Resume
  <2>. QED BY <1>1, <2>2, <2>3
<1>2. CASE d \notin watchers
  <2>1. PICK c : c = [r EXCEPT !.at = "watch", !.target = d]
    OBVIOUS
  <2>2. c \in Calls /\ c.kind = r.kind /\ c.walk = r.walk /\ c.at = "watch" /\ c.target = d
    BY <2>1, ConstantFacts DEF Calls, Points
  <2>3. Visit(r, d) = c
    BY <1>2, <2>1 DEF Visit
  <2>. QED BY <1>2, <2>2, <2>3
<1>. QED BY <1>1, <1>2

LEMMA StatDirectory ==
    ASSUME WatcherInv, NEW j \in Jobs, Stat(j), job[j].target \in there \cap Dirs,
           Become(j, Visit(job[j], job[j].target)), KeepHandles, UNCHANGED known
    PROVE  WatcherInv'
<1>t. PICK t : t = job[j].target
  OBVIOUS
<1>0. Parts /\ Tree /\ JobsFine /\ (faults = 0 => Missed1 /\ Missed2 /\ Missed3)
  BY Split
<1>1. /\ job[j] \in Calls /\ Shaped(job[j]) /\ job[j].at = "stat"
      /\ t \in Dirs /\ t # Root /\ job[j].walk = <<>>
  BY <1>t, <1>0, CallFacts DEF Stat, Shaped
<1>2. PICK c : c = Visit(job[j], t)
  OBVIOUS
<1>3. /\ c \in Calls /\ c.kind = job[j].kind /\ c.walk = job[j].walk
      /\ \/ t \in watchers /\ c.at = "walk" /\ c.target = t
         \/ t \notin watchers /\ c.at = "watch" /\ c.target = t
  BY <1>t, <1>0, <1>1, <1>2, VisitFacts
<1>4. Shaped(c)
  BY <1>1, <1>3 DEF Shaped
<1>5. Moves(j, c) /\ JobsFine'
  BY <1>t, <1>0, <1>2, <1>3, <1>4, MovesLemma
<1>6. UNCHANGED <<there, version, pending, active, timer, health, scanned, changes, faults,
                  stops, watchers, attached, raised, lost, known>>
  BY DEF Stat, KeepHandles
<1>7. Parts' /\ Tree'
  BY <1>0, <1>6 DEF Parts, Tree
<1>8. /\ \A u : At("emit", u)' <=> At("emit", u)
      /\ \A u : At("read", u)' <=> At("read", u)
      /\ \A u : At("watch", u) => At("watch", u)'
      /\ \A u : Listed(u)' <=> Listed(u)
      /\ \A u : At("stat", u)' => At("stat", u)
      /\ \A u : u # t => (At("stat", u) => At("stat", u)')
      /\ t \in watchers \/ At("watch", t)'
  BY <1>t, <1>1, <1>3, <1>5 DEF Moves
<1>9. (\A u : Noticed(u)' => Noticed(u)) /\ \A u : u # t => (Noticed(u) => Noticed(u)')
  BY <1>6, <1>8 DEF Noticed
<1>10. ASSUME faults' = 0 PROVE Missed1' /\ Missed2' /\ Missed3'
  <2>0. Missed1 /\ Missed2 /\ Missed3
    BY <1>0, <1>6, <1>10
  <2>1. Missed1'
    BY <1>6, <1>8, <1>9, <2>0 DEF Missed1, Touched
  <2>2. Missed2'
    BY <1>1, <1>6, <1>8, <1>9, <2>0, ConstantFacts DEF Missed2, Covered
  <2>3. Missed3'
    BY <1>6, <1>8, <1>9, <2>0 DEF Missed3, Followed
  <2>. QED BY <2>1, <2>2, <2>3
<1>. QED BY <1>5, <1>7, <1>10, Joined

LEMMA StatFile ==
    ASSUME WatcherInv, NEW j \in Jobs, Stat(j), job[j].target \in there \cap Files,
           known' = known \cup {job[j].target},
           Become(j, [job[j] EXCEPT !.at = "emit"]), KeepHandles
    PROVE  WatcherInv'
<1>t. PICK t : t = job[j].target
  OBVIOUS
<1>0. Parts /\ Tree /\ JobsFine /\ (faults = 0 => Missed1 /\ Missed2 /\ Missed3)
  BY Split
<1>1. /\ job[j] \in Calls /\ Shaped(job[j]) /\ job[j].at = "stat"
      /\ t \in Files /\ job[j].walk \in Seq(SUBSET Targets)
  BY <1>t, <1>0, CallFacts DEF Stat
<1>2. PICK c : c = [job[j] EXCEPT !.at = "emit"]
  OBVIOUS
<1>3. /\ c \in Calls /\ c.kind = job[j].kind /\ c.walk = job[j].walk
      /\ c.at = "emit" /\ c.target = t
  BY <1>t, <1>1, <1>2 DEF Calls, Points
<1>4. Shaped(c)
  BY <1>t, <1>1, <1>3, ConstantFacts DEF Shaped
<1>5. Moves(j, c) /\ JobsFine'
  BY <1>0, <1>2, <1>3, <1>4, MovesLemma
<1>6. /\ known' = known \cup {t}
      /\ UNCHANGED <<there, version, pending, active, timer, health, scanned, changes, faults,
                     stops, watchers, attached, raised, lost>>
  BY <1>t DEF Stat, KeepHandles
<1>7. Parts' /\ Tree'
  BY <1>0, <1>1, <1>6 DEF Parts, Tree
<1>8. /\ \A u : At("emit", u) => At("emit", u)'
      /\ \A u : At("emit", u)' => At("emit", u) \/ u = t
      /\ \A u : At("read", u)' <=> At("read", u)
      /\ \A u : At("watch", u)' <=> At("watch", u)
      /\ \A u : Listed(u)' <=> Listed(u)
      /\ \A u : At("stat", u)' => At("stat", u)
      /\ \A u : u # t => (At("stat", u) => At("stat", u)')
      /\ At("emit", t)' /\ At("stat", t)
  BY <1>t, <1>1, <1>3, <1>5, HereAt DEF Moves
<1>9. /\ \A u : Noticed(u)' => Noticed(u)
      /\ \A u : u # t => (Noticed(u) => Noticed(u)')
      /\ Noticed(t)
  BY <1>6, <1>8 DEF Noticed
<1>10. ASSUME faults' = 0 PROVE Missed1' /\ Missed2' /\ Missed3'
  <2>0. Missed1 /\ Missed2 /\ Missed3
    BY <1>0, <1>6, <1>10
  <2>1. Missed1'
    <3>1. \A f : Touched(f)' => Touched(f)
      BY <1>6, <1>8, <1>9 DEF Touched
    <3>. QED BY <1>6, <2>0, <3>1 DEF Missed1
  <2>2. Missed2'
    <3>1. \A f : Covered(f) => Covered(f)'
      BY <1>6, <1>8, <1>9 DEF Covered
    <3>. QED BY <1>6, <2>0, <3>1 DEF Missed2
  <2>3. Missed3'
    <3>1. \A d \in Subdirs : d # t
      BY <1>1, ConstantFacts
    <3>. QED BY <1>6, <1>8, <1>9, <2>0, <3>1 DEF Missed3, Followed
  <2>. QED BY <2>1, <2>2, <2>3
<1>. QED BY <1>5, <1>7, <1>10, Joined

LEMMA StatGone ==
    ASSUME WatcherInv, NEW j \in Jobs, Stat(j), job[j].target \notin there,
           IF job[j].target \in watchers THEN CloseHandles(Below(job[j].target)) ELSE KeepHandles,
           known' = known \ {job[j].target}, Become(j, Idle)
    PROVE  WatcherInv'
<1>t. PICK t : t = job[j].target
  OBVIOUS
<1>0. Parts /\ Tree /\ JobsFine /\ (faults = 0 => Missed1 /\ Missed2 /\ Missed3)
  BY Split
<1>1. /\ job[j] \in Calls /\ job[j].at = "stat" /\ t \in Targets /\ t # Root /\ t \notin there
      /\ job[j].walk = <<>>
  BY <1>t, <1>0, CallFacts DEF Stat, Shaped
<1>2. Moves(j, Idle) /\ JobsFine'
  BY <1>0, MovesLemma, IdleFacts
<1>3. /\ known' = known \ {t}
      /\ UNCHANGED <<there, version, pending, active, timer, health, scanned, changes,
                     faults, stops>>
  BY <1>t DEF Stat
<1>4. /\ watchers' \subseteq Dirs /\ attached' \subseteq watchers'
      /\ watchers \ {t} \subseteq watchers' /\ attached' \subseteq attached
      /\ attached \cup lost \subseteq attached' \cup lost'
      /\ lost' \subseteq Dirs /\ lost \subseteq lost' /\ raised' \subseteq raised
      /\ \A u \in raised : Parent(u) # t \/ t \in attached' => u \in raised'
      /\ t \in attached' => UNCHANGED raised
  <2>1. CASE t \in watchers
    <3>1. t \in Dirs /\ Below(t) = {t} /\ CloseHandles({t})
      BY <1>t, <1>0, <1>1, <2>1, BelowFacts DEF Parts
    <3>2. {t} \in SUBSET Dirs
      BY <3>1
    <3>. QED BY <1>0, <3>1, <3>2, CloseFacts
  <2>2. CASE t \notin watchers
    BY <1>t, <1>0, <2>2 DEF KeepHandles, Parts, Tree
  <2>. QED BY <2>1, <2>2
<1>5. Parts' /\ Tree'
  BY <1>0, <1>3, <1>4 DEF Parts, Tree
<1>6. /\ \A u : At("emit", u)' <=> At("emit", u)
      /\ \A u : At("read", u)' <=> At("read", u)
      /\ \A u : At("watch", u)' <=> At("watch", u)
      /\ \A u : Listed(u)' <=> Listed(u)
      /\ \A u : At("stat", u)' => At("stat", u)
      /\ \A u : u # t => (At("stat", u) => At("stat", u)')
  BY <1>t, <1>1, <1>2, IdleFacts DEF Moves
<1>7. /\ \A u : Noticed(u)' => Noticed(u)
      /\ \A u : u # t /\ (Parent(u) # t \/ t \in attached') => (Noticed(u) => Noticed(u)')
  BY <1>3, <1>4, <1>6 DEF Noticed
<1>8. ASSUME faults' = 0 PROVE Missed1' /\ Missed2' /\ Missed3'
  <2>0. Missed1 /\ Missed2 /\ Missed3
    BY <1>0, <1>3, <1>8
  <2>1. Missed1'
    <3>1. \A f : Touched(f)' => Touched(f)
      BY <1>3, <1>6, <1>7 DEF Touched
    <3>. QED BY <1>4, <2>0, <3>1 DEF Missed1
  <2>2. Missed2'
    <3>1. SUFFICES ASSUME NEW f \in Files, f \in there, Home[f] \in attached'
                   PROVE  Covered(f)'
      BY <1>3 DEF Missed2
    <3>2. Covered(f) /\ f # t /\ (Noticed(f) => Noticed(f)')
      BY <1>1, <1>4, <1>7, <2>0, <3>1, ParentFacts DEF Missed2
    <3>. QED BY <1>3, <1>4, <1>6, <3>2 DEF Covered
  <2>3. Missed3'
    <3>1. SUFFICES ASSUME Root \in attached', NEW d \in Subdirs, d \in there
                   PROVE  Followed(d)'
      BY <1>3 DEF Missed3
    <3>2. Followed(d) /\ d # t /\ (Noticed(d) => Noticed(d)')
      BY <1>1, <1>4, <1>7, <2>0, <3>1, ParentFacts, ConstantFacts DEF Missed3
    <3>. QED BY <1>4, <1>6, <3>2 DEF Followed
  <2>. QED BY <2>1, <2>2, <2>3
<1>. QED BY <1>2, <1>5, <1>8, Joined

LEMMA StatStep ==
    ASSUME WatcherInv, NEW j \in Jobs, Stat(j) PROVE WatcherInv'
BY StatDirectory, StatFile, StatGone DEF Stat

LEMMA RootStatStep ==
    ASSUME WatcherInv, NEW j \in Jobs, RootStat(j) PROVE WatcherInv'
<1>0. Parts /\ Tree /\ JobsFine /\ (faults = 0 => Missed1 /\ Missed2 /\ Missed3)
  BY Split
<1>1. /\ job[j] \in Calls /\ Shaped(job[j]) /\ job[j].at = "root" /\ job[j].kind # "handle"
      /\ job[j].walk \in Seq(SUBSET Targets)
  BY <1>0, CallFacts DEF RootStat, Shaped
<1>2. CASE Root \notin there
  BY <1>0, <1>1, <1>2, ThrowStep DEF RootStat, Parts
<1>3. CASE Root \in there
  <2>1. PICK c : c = Visit(job[j], Root)
    OBVIOUS
  <2>2. /\ c \in Calls /\ c.kind = job[j].kind /\ c.walk = job[j].walk
        /\ \/ c.at = "walk" /\ c.target = job[j].target
           \/ c.at = "watch" /\ c.target = Root
    BY <1>0, <1>1, <2>1, VisitFacts, ConstantFacts
  <2>3. Shaped(c)
    BY <1>1, <2>2, ConstantFacts DEF Shaped
  <2>4. UNCHANGED <<there, version, pending, active, timer, health, scanned, changes, faults,
                    stops, watchers, attached, raised, lost, known>>
    BY <1>3 DEF RootStat, KeepHandles
  <2>5. Moves(j, c) /\ JobsFine'
    BY <1>0, <1>3, <2>1, <2>2, <2>3, MovesLemma DEF RootStat
  <2>6. Parts' /\ Tree'
    BY <1>0, <2>4 DEF Parts, Tree
  <2>7. /\ \A u : At("emit", u)' <=> At("emit", u)
        /\ \A u : At("read", u)' <=> At("read", u)
        /\ \A u : At("stat", u)' <=> At("stat", u)
        /\ \A u : At("watch", u) => At("watch", u)'
        /\ \A u : Listed(u)' <=> Listed(u)
    BY <1>1, <2>2, <2>5 DEF Moves
  <2>8. \A u : Noticed(u)' <=> Noticed(u)
    BY <2>4, <2>7 DEF Noticed
  <2>9. Missed1 => Missed1'
    BY <2>4, <2>7, <2>8 DEF Missed1, Touched
  <2>10. Missed2 => Missed2'
    BY <2>4, <2>7, <2>8 DEF Missed2, Covered
  <2>11. Missed3 => Missed3'
    BY <2>4, <2>7, <2>8 DEF Missed3, Followed
  <2>. QED BY <1>0, <2>4, <2>5, <2>6, <2>9, <2>10, <2>11, Joined
<1>. QED BY <1>2, <1>3

LEMMA WatchStep ==
    ASSUME WatcherInv, NEW j \in Jobs, Watch(j) PROVE WatcherInv'
<1>d. PICK d : d = job[j].target
  OBVIOUS
<1>0. Parts /\ Tree /\ JobsFine /\ (faults = 0 => Missed1 /\ Missed2 /\ Missed3)
  BY Split
<1>1. /\ job[j] \in Calls /\ Shaped(job[j]) /\ job[j].at = "watch" /\ d \in Dirs
      /\ job[j].walk \in Seq(SUBSET Targets)
  BY <1>d, <1>0, CallFacts DEF Watch, Shaped
<1>2. CASE d \notin there
  BY <1>d, <1>0, <1>1, <1>2, ThrowStep DEF Watch, Parts
<1>3. CASE d \in there
  <2>1. PICK c : c = [job[j] EXCEPT !.at = "read"]
    OBVIOUS
  <2>2. /\ c \in Calls /\ c.kind = job[j].kind /\ c.walk = job[j].walk
        /\ c.at = "read" /\ c.target = d
    BY <1>d, <1>1, <2>1 DEF Calls, Points
  <2>3. Shaped(c)
    BY <1>d, <1>1, <2>2 DEF Shaped
  <2>4. /\ watchers' = watchers \cup {d} /\ attached' = attached \cup {d}
        /\ UNCHANGED <<there, version, pending, active, timer, health, scanned, changes,
                       faults, stops, raised, lost, known>>
    BY <1>d, <1>3 DEF Watch
  <2>5. Moves(j, c) /\ JobsFine'
    BY <1>d, <1>0, <1>3, <2>1, <2>2, <2>3, MovesLemma DEF Watch
  <2>6. Parts' /\ Tree'
    BY <1>0, <1>1, <2>4 DEF Parts, Tree
  <2>7. /\ \A u : At("emit", u)' <=> At("emit", u)
        /\ \A u : At("stat", u)' <=> At("stat", u)
        /\ \A u : At("read", u)' => At("read", u) \/ u = d
        /\ \A u : At("read", u) => At("read", u)'
        /\ \A u : u # d => (At("watch", u) => At("watch", u)')
        /\ \A u : Listed(u)' <=> Listed(u)
        /\ At("read", d)'
    BY <1>d, <1>1, <2>2, <2>5 DEF Moves
  <2>8. \A u : Noticed(u)' <=> Noticed(u)
    BY <2>4, <2>7 DEF Noticed
  <2>9. ASSUME faults' = 0 PROVE Missed1' /\ Missed2' /\ Missed3'
    <3>0. Missed1 /\ Missed2 /\ Missed3
      BY <1>0, <2>4, <2>9
    <3>1. Missed1'
      BY <2>4, <2>7, <2>8, <3>0 DEF Missed1, Touched
    <3>2. Missed2'
      <4>1. SUFFICES ASSUME NEW f \in Files, f \in there, Home[f] \in attached'
                     PROVE  Covered(f)'
        BY <2>4 DEF Missed2
      <4>2. CASE Home[f] \in attached
        <5>1. Covered(f)
          BY <3>0, <4>1, <4>2 DEF Missed2
        <5>. QED BY <2>4, <2>7, <2>8, <5>1 DEF Covered
      <4>3. CASE Home[f] \notin attached
        <5>1. Home[f] = d
          BY <2>4, <4>1, <4>3
        <5>2. f \in known => d \in lost
          BY <3>0, <4>3, <5>1 DEF Missed1, Touched
        <5>. QED BY <2>4, <2>7, <5>1, <5>2 DEF Covered
      <4>. QED BY <4>2, <4>3
    <3>3. Missed3'
      <4>1. SUFFICES ASSUME Root \in attached', NEW e \in Subdirs, e \in there
                     PROVE  Followed(e)'
        BY <2>4 DEF Missed3
      <4>2. CASE d = Root
        BY <2>7, <4>2 DEF Followed
      <4>3. CASE d # Root
        <5>1. Followed(e)
          BY <2>4, <3>0, <4>1, <4>3 DEF Missed3
        <5>. QED BY <2>4, <2>7, <2>8, <5>1 DEF Followed
      <4>. QED BY <4>2, <4>3
    <3>. QED BY <3>1, <3>2, <3>3
  <2>. QED BY <2>5, <2>6, <2>9, Joined
<1>. QED BY <1>2, <1>3

LEMMA ChildrenFacts ==
    ASSUME Parts, NEW d \in Dirs
    PROVE  /\ Children(d) \in SUBSET Targets
           /\ \A f \in Files : f \in Children(d) <=> f \in there /\ Home[f] = d
           /\ \A s \in Subdirs : s \in Children(Root) <=> s \in there
           /\ d # Root => Children(d) \subseteq Files
BY ParentFacts, ConstantFacts DEF Children, Parts

LEMMA ReadStep ==
    ASSUME WatcherInv, NEW j \in Jobs, Read(j) PROVE WatcherInv'
<1>d. PICK d : d = job[j].target
  OBVIOUS
<1>0. Parts /\ Tree /\ JobsFine /\ (faults = 0 => Missed1 /\ Missed2 /\ Missed3)
  BY Split
<1>1. /\ job[j] \in Calls /\ Shaped(job[j]) /\ job[j].at = "read" /\ d \in Dirs
      /\ job[j].walk \in Seq(SUBSET Targets)
      /\ job[j].kind = "handle" => d # Root /\ job[j].walk = <<>>
  BY <1>d, <1>0, CallFacts DEF Read, Shaped
<1>2. CASE d \notin there
  BY <1>d, <1>0, <1>1, <1>2, ThrowStep DEF Read, Parts
<1>3. CASE d \in there
  <2>s. PICK S : S = Children(d)
    OBVIOUS
  <2>S. /\ S \in SUBSET Targets
        /\ \A f \in Files : f \in S <=> f \in there /\ Home[f] = d
        /\ d = Root => \A s \in Subdirs : s \in S <=> s \in there
        /\ d # Root => S \subseteq Files
    BY <1>0, <1>1, <2>s, ChildrenFacts
  <2>w. PICK w : w = Append(job[j].walk, S)
    OBVIOUS
  <2>W. w \in Seq(SUBSET Targets) /\ \A u : In(w, u) <=> In(job[j].walk, u) \/ u \in S
    BY <1>1, <2>S, <2>w, AppendedListing
  <2>1. PICK c : c = [job[j] EXCEPT !.at = "walk", !.walk = w]
    OBVIOUS
  <2>2. c \in Calls /\ c.kind = job[j].kind /\ c.walk = w /\ c.at = "walk" /\ c.target = d
    BY <1>d, <1>1, <2>1, <2>W DEF Calls, Points
  <2>3. Shaped(c)
    <3>1. ASSUME c.kind = "handle" PROVE \A n \in 1 .. Len(c.walk) : c.walk[n] \subseteq Files
      <4>1. d # Root /\ job[j].walk = <<>>
        BY <1>1, <2>2, <3>1
      <4>2. S \subseteq Files /\ c.walk = <<S>>
        BY <2>S, <2>w, <2>2, <4>1
      <4>. QED BY <4>2
    <3>. QED BY <1>1, <2>2, <3>1 DEF Shaped
  <2>4. Become(j, c)
    <3>1. Become(j, Resume([job[j] EXCEPT !.walk = Append(@, Children(job[j].target))]))
      BY <1>d, <1>3 DEF Read
    <3>2. Resume([job[j] EXCEPT !.walk = Append(@, Children(job[j].target))]) = c
      BY <1>d, <1>1, <2>s, <2>w, <2>1 DEF Resume, Calls
    <3>. QED BY <3>1, <3>2
  <2>5. UNCHANGED <<there, version, pending, active, timer, health, scanned, changes, faults,
                    stops, watchers, attached, raised, lost, known>>
    BY <1>d, <1>3 DEF Read, KeepHandles
  <2>6. Moves(j, c) /\ JobsFine'
    BY <1>0, <2>2, <2>3, <2>4, MovesLemma
  <2>7. Parts' /\ Tree'
    BY <1>0, <2>5 DEF Parts, Tree
  <2>8. /\ \A u : At("emit", u)' <=> At("emit", u)
        /\ \A u : At("stat", u)' <=> At("stat", u)
        /\ \A u : At("watch", u) => At("watch", u)'
        /\ \A u : At("read", u)' => At("read", u)
        /\ \A u : u # d => (At("read", u) => At("read", u)')
        /\ \A u : Listed(u)' => Listed(u) \/ u \in S
        /\ \A u : Listed(u) => Listed(u)'
        /\ \A u \in S : Listed(u)'
        /\ At("read", d)
    BY <1>d, <1>1, <2>W, <2>2, <2>6, HereAt DEF Moves
  <2>9. \A u : Noticed(u)' <=> Noticed(u)
    BY <2>5, <2>8 DEF Noticed
  <2>10. ASSUME faults' = 0 PROVE Missed1' /\ Missed2' /\ Missed3'
    <3>0. Missed1 /\ Missed2 /\ Missed3
      BY <1>0, <2>5, <2>10
    <3>1. Missed1'
      <4>1. \A f \in Files : Touched(f)' => Touched(f)
        BY <2>S, <2>5, <2>8, <2>9 DEF Touched
      <4>. QED BY <2>5, <3>0, <4>1 DEF Missed1
    <3>2. Missed2'
      <4>1. SUFFICES ASSUME NEW f \in Files, f \in there, Home[f] \in attached
                     PROVE  Covered(f)'
        BY <2>5 DEF Missed2
      <4>2. Covered(f) /\ (Home[f] = d => Listed(f)')
        BY <2>S, <2>8, <3>0, <4>1 DEF Missed2
      <4>. QED BY <2>5, <2>8, <2>9, <4>2 DEF Covered
    <3>3. Missed3'
      <4>1. SUFFICES ASSUME Root \in attached, NEW e \in Subdirs, e \in there
                     PROVE  Followed(e)'
        BY <2>5 DEF Missed3
      <4>2. Followed(e) /\ (d = Root => Listed(e)')
        BY <2>S, <2>8, <3>0, <4>1 DEF Missed3
      <4>. QED BY <2>5, <2>8, <2>9, <4>2 DEF Followed
    <3>. QED BY <3>1, <3>2, <3>3
  <2>. QED BY <2>6, <2>7, <2>10, Joined
<1>. QED BY <1>2, <1>3

LEMMA EmitStep ==
    ASSUME WatcherInv, NEW j \in Jobs, Emit(j) PROVE WatcherInv'
<1>t. PICK t : t = job[j].target
  OBVIOUS
<1>0. Parts /\ Tree /\ JobsFine /\ (faults = 0 => Missed1 /\ Missed2 /\ Missed3)
  BY Split
<1>1. /\ job[j] \in Calls /\ Shaped(job[j]) /\ job[j].at = "emit" /\ t \in Files
      /\ job[j].walk \in Seq(SUBSET Targets)
  BY <1>t, <1>0, CallFacts DEF Emit, Shaped
<1>2. CASE Fault /\ Throw(j) /\ UNCHANGED scanned
  <2>1. faults' \in 0 .. MaxFaults /\ faults' # 0
    BY <1>0, <1>2, FaultFacts
  <2>. QED BY <1>1, <1>2, <2>1, ThrowStep DEF Emit
<1>3. CASE /\ scanned' = IF t \in there THEN [scanned EXCEPT ![t] = version[t]] ELSE scanned
           /\ Become(j, Resume(job[j])) /\ KeepHandles /\ UNCHANGED <<timer, health, faults>>
  <2>1. PICK c : c = Resume(job[j])
    OBVIOUS
  <2>2. /\ c \in Calls /\ c.kind = job[j].kind /\ c.walk = job[j].walk
        /\ c.at = "walk" /\ c.target = t
    BY <1>t, <1>1, <2>1 DEF Resume, Calls, Points
  <2>3. Shaped(c)
    BY <1>t, <1>1, <2>2 DEF Shaped
  <2>4. /\ UNCHANGED <<there, version, pending, active, timer, health, changes, faults,
                       stops, watchers, attached, raised, lost, known>>
        /\ scanned' \in [Files -> Nat]
        /\ \A f \in Files : scanned'[f] = IF f = t /\ t \in there THEN version[f] ELSE scanned[f]
    BY <1>0, <1>1, <1>3 DEF Emit, KeepHandles, Parts
  <2>5. Moves(j, c) /\ JobsFine'
    BY <1>0, <1>3, <2>1, <2>2, <2>3, MovesLemma
  <2>6. Parts' /\ Tree'
    BY <1>0, <2>4 DEF Parts, Tree
  <2>7. /\ \A u : At("emit", u)' => At("emit", u)
        /\ \A u : u # t => (At("emit", u) => At("emit", u)')
        /\ \A u : At("stat", u)' <=> At("stat", u)
        /\ \A u : At("watch", u)' <=> At("watch", u)
        /\ \A u : At("read", u)' <=> At("read", u)
        /\ \A u : Listed(u)' <=> Listed(u)
    BY <1>t, <1>1, <2>2, <2>5 DEF Moves
  <2>8. \A u : Noticed(u)' <=> Noticed(u)
    BY <2>4, <2>7 DEF Noticed
  <2>9. Missed1 => Missed1'
    BY <2>4, <2>7, <2>8 DEF Missed1, Touched
  <2>10. Missed2 => Missed2'
    <3>1. SUFFICES ASSUME NEW f \in Files, f \in there, Covered(f) PROVE Covered(f)'
      BY <2>4 DEF Missed2
    <3>. QED BY <2>4, <2>7, <2>8, <3>1 DEF Covered
  <2>11. Missed3 => Missed3'
    BY <2>4, <2>7, <2>8 DEF Missed3, Followed
  <2>. QED BY <1>0, <2>4, <2>5, <2>6, <2>9, <2>10, <2>11, Joined
<1>. QED BY <1>t, <1>2, <1>3 DEF Emit

LEMMA WalkLeave ==
    ASSUME WatcherInv, NEW j \in Jobs, Walk(j), Open(j) = {}, UNCHANGED known,
           Become(j, [job[j] EXCEPT !.walk = SubSeq(@, 1, Len(job[j].walk) - 1)])
    PROVE  WatcherInv'
<1>w. PICK w : w = job[j].walk
  OBVIOUS
<1>0. Parts /\ Tree /\ JobsFine /\ (faults = 0 => Missed1 /\ Missed2 /\ Missed3)
  BY Split
<1>1. /\ job[j] \in Calls /\ Shaped(job[j]) /\ job[j].at = "walk"
      /\ w \in Seq(SUBSET Targets) /\ w # <<>>
  BY <1>w, <1>0, CallFacts DEF Walk
<1>v. PICK v : v = SubSeq(w, 1, Len(w) - 1)
  OBVIOUS
<1>2. /\ v \in Seq(SUBSET Targets)
      /\ \A n \in 1 .. Len(v) : n \in 1 .. Len(w) /\ v[n] = w[n]
      /\ \A u : In(v, u) => In(w, u)
      /\ \A u : In(w, u) /\ u \notin w[Len(w)] => In(v, u)
  BY <1>1, <1>v, ClosedListing
<1>3. PICK c : c = [job[j] EXCEPT !.walk = v]
  OBVIOUS
<1>4. /\ c \in Calls /\ c.kind = job[j].kind /\ c.walk = v
      /\ c.at = "walk" /\ c.target = job[j].target
  BY <1>1, <1>2, <1>3 DEF Calls
<1>5. Shaped(c)
  BY <1>w, <1>1, <1>2, <1>4 DEF Shaped
<1>6. Become(j, c)
  BY <1>w, <1>v, <1>3
<1>7. Moves(j, c) /\ JobsFine'
  BY <1>0, <1>4, <1>5, <1>6, MovesLemma
<1>8. UNCHANGED <<there, version, pending, active, timer, health, scanned, changes, faults,
                  stops, watchers, attached, raised, lost, known>>
  BY DEF Walk, treeVars
<1>9. Parts' /\ Tree'
  BY <1>0, <1>8 DEF Parts, Tree
<1>10. /\ \A u : At("emit", u)' <=> At("emit", u)
       /\ \A u : At("stat", u)' <=> At("stat", u)
       /\ \A u : At("watch", u)' <=> At("watch", u)
       /\ \A u : At("read", u)' <=> At("read", u)
  BY <1>1, <1>4, <1>7 DEF Moves
<1>11. /\ \A u : Listed(u)' => Listed(u)
       /\ \A u : Listed(u) => Listed(u)' \/ u \in watchers \cup known
  <2>1. \A u : u \in w[Len(w)] => u \in watchers \cup known
    BY <1>w DEF Open
  <2>. QED BY <1>w, <1>2, <1>4, <1>7, <2>1 DEF Moves
<1>12. \A u : Noticed(u)' <=> Noticed(u)
  BY <1>8, <1>10 DEF Noticed
<1>13. ASSUME faults' = 0 PROVE Missed1' /\ Missed2' /\ Missed3'
  <2>0. Missed1 /\ Missed2 /\ Missed3
    BY <1>0, <1>8, <1>13
  <2>1. Missed1'
    BY <1>8, <1>10, <1>11, <1>12, <2>0 DEF Missed1, Touched
  <2>2. Missed2'
    <3>1. SUFFICES ASSUME NEW f \in Files, f \in there, Covered(f) PROVE Covered(f)'
      BY <1>8, <2>0 DEF Missed2
    <3>2. f \notin watchers
      BY <1>0, ConstantFacts DEF Parts
    <3>. QED BY <1>8, <1>10, <1>11, <1>12, <3>1, <3>2 DEF Covered
  <2>3. Missed3'
    <3>1. SUFFICES ASSUME NEW d \in Subdirs, d \in there, Followed(d) PROVE Followed(d)'
      BY <1>8, <2>0 DEF Missed3
    <3>2. d \notin known
      BY <1>0, ConstantFacts DEF Parts
    <3>. QED BY <1>8, <1>10, <1>11, <1>12, <3>1, <3>2 DEF Followed
  <2>. QED BY <2>1, <2>2, <2>3
<1>. QED BY <1>7, <1>9, <1>13, Joined

(* An entry of the listing is taken up: nothing else is dropped from it.   *)
Taken(r, e) == [r EXCEPT !.walk[Len(r.walk)] = @ \ {e}]

LEMMA TakenFacts ==
    ASSUME WatcherInv, NEW j \in Jobs, job[j].at = "walk", job[j].walk # <<>>, NEW e
    PROVE  LET r == Taken(job[j], e) IN
           /\ r \in Calls /\ r.kind = job[j].kind /\ r.at = "walk"
           /\ r.target = job[j].target /\ r.walk \in Seq(SUBSET Targets)
           /\ job[j].kind = "handle" => /\ r.target # Root
                                        /\ \A n \in 1 .. Len(r.walk) : r.walk[n] \subseteq Files
           /\ \A u : In(r.walk, u) => In(job[j].walk, u)
           /\ \A u : In(job[j].walk, u) /\ u # e => In(r.walk, u)
<1>w. PICK w : w = job[j].walk
  OBVIOUS
<1>r. PICK r : r = Taken(job[j], e)
  OBVIOUS
<1>0. Parts /\ Tree /\ JobsFine
  BY Split
<1>1. /\ job[j] \in Calls /\ Shaped(job[j]) /\ w \in Seq(SUBSET Targets) /\ w # <<>>
  BY <1>w, <1>0, CallFacts
<1>v. PICK v : v = [w EXCEPT ![Len(w)] = @ \ {e}]
  OBVIOUS
<1>2. /\ v \in Seq(SUBSET Targets)
      /\ Len(v) = Len(w) /\ \A n \in 1 .. Len(w) : v[n] \subseteq w[n]
      /\ \A t : In(v, t) => In(w, t)
      /\ \A t : In(w, t) /\ t # e => In(v, t)
  BY <1>1, <1>v, EntryTaken
<1>3. r = [job[j] EXCEPT !.walk = v]
  BY <1>w, <1>r, <1>v, <1>1 DEF Calls, Taken
<1>4. /\ r \in Calls /\ r.kind = job[j].kind /\ r.at = "walk" /\ r.target = job[j].target
      /\ r.walk = v
  BY <1>1, <1>2, <1>3 DEF Calls
<1>5. ASSUME job[j].kind = "handle"
      PROVE  r.target # Root /\ \A n \in 1 .. Len(v) : v[n] \subseteq Files
  <2>1. r.target # Root /\ \A n \in 1 .. Len(w) : w[n] \subseteq Files
    BY <1>w, <1>1, <1>4, <1>5 DEF Shaped
  <2>. QED BY <1>2, <2>1
<1>. QED BY <1>w, <1>r, <1>2, <1>4, <1>5

LEMMA InLast ==
    ASSUME NEW w \in Seq(SUBSET Targets), w # <<>>, NEW t \in w[Len(w)]
    PROVE  In(w, t) /\ t \in Targets
<1>1. Len(w) \in 1 .. Len(w)
  OBVIOUS
<1>2. w[Len(w)] \in SUBSET Targets
  BY <1>1
<1>. QED BY <1>1, <1>2 DEF In

LEMMA WalkDirectory ==
    ASSUME WatcherInv, NEW j \in Jobs, Walk(j), NEW d \in Open(j) \cap Dirs, UNCHANGED known,
           Become(j, Visit([job[j] EXCEPT !.walk[Len(job[j].walk)] = @ \ {d}], d))
    PROVE  WatcherInv'
<1>0. Parts /\ Tree /\ JobsFine /\ (faults = 0 => Missed1 /\ Missed2 /\ Missed3)
  BY Split
<1>1. /\ job[j] \in Calls /\ Shaped(job[j]) /\ job[j].at = "walk"
      /\ job[j].walk \in Seq(SUBSET Targets) /\ job[j].walk # <<>>
      /\ d \in Dirs /\ d \notin watchers /\ d \in job[j].walk[Len(job[j].walk)]
  BY <1>0, CallFacts DEF Walk, Open
<1>2. In(job[j].walk, d)
  BY <1>1, InLast
<1>3. job[j].kind # "handle"
  BY <1>1, <1>2, ConstantFacts DEF Shaped, In
<1>r. PICK r : r = Taken(job[j], d)
  OBVIOUS
<1>4. /\ r \in Calls /\ r.kind = job[j].kind
      /\ \A u : In(r.walk, u) => In(job[j].walk, u)
      /\ \A u : In(job[j].walk, u) /\ u # d => In(r.walk, u)
  BY <1>1, <1>r, TakenFacts
<1>c. PICK c : c = Visit(r, d)
  OBVIOUS
<1>5. c \in Calls /\ c.kind = r.kind /\ c.walk = r.walk /\ c.at = "watch" /\ c.target = d
  BY <1>0, <1>1, <1>4, <1>c, VisitFacts
<1>6. Shaped(c)
  BY <1>1, <1>3, <1>4, <1>5 DEF Shaped
<1>7. Become(j, c)
  BY <1>r, <1>c DEF Taken
<1>8. Moves(j, c) /\ JobsFine'
  BY <1>0, <1>5, <1>6, <1>7, MovesLemma
<1>9. UNCHANGED <<there, version, pending, active, timer, health, scanned, changes, faults,
                  stops, watchers, attached, raised, lost, known>>
  BY DEF Walk, treeVars
<1>10. Parts' /\ Tree'
  BY <1>0, <1>9 DEF Parts, Tree
<1>11. /\ \A u : At("emit", u)' <=> At("emit", u)
       /\ \A u : At("stat", u)' <=> At("stat", u)
       /\ \A u : At("watch", u) => At("watch", u)'
       /\ \A u : At("read", u)' <=> At("read", u)
       /\ At("watch", d)'
       /\ \A u : Listed(u)' => Listed(u)
       /\ \A u : u # d => (Listed(u) => Listed(u)')
  BY <1>1, <1>4, <1>5, <1>8 DEF Moves
<1>12. \A u : Noticed(u)' <=> Noticed(u)
  BY <1>9, <1>11 DEF Noticed
<1>13. Missed1 => Missed1'
  BY <1>9, <1>11, <1>12 DEF Missed1, Touched
<1>14. Missed2 => Missed2'
  <2>1. \A f \in Files : f # d
    BY <1>1, ConstantFacts
  <2>. QED BY <1>9, <1>11, <1>12, <2>1 DEF Missed2, Covered
<1>15. Missed3 => Missed3'
  BY <1>9, <1>11, <1>12 DEF Missed3, Followed
<1>. QED BY <1>0, <1>8, <1>9, <1>10, <1>13, <1>14, <1>15, Joined

LEMMA WalkFile ==
    ASSUME WatcherInv, NEW j \in Jobs, Walk(j), NEW f \in Open(j) \cap Files,
           known' = known \cup {f},
           Become(j, [[job[j] EXCEPT !.walk[Len(job[j].walk)] = @ \ {f}]
                         EXCEPT !.at = "emit", !.target = f])
    PROVE  WatcherInv'
<1>0. Parts /\ Tree /\ JobsFine /\ (faults = 0 => Missed1 /\ Missed2 /\ Missed3)
  BY Split
<1>1. /\ job[j] \in Calls /\ Shaped(job[j]) /\ job[j].at = "walk"
      /\ job[j].walk \in Seq(SUBSET Targets) /\ job[j].walk # <<>>
      /\ f \in Files /\ f \in job[j].walk[Len(job[j].walk)]
  BY <1>0, CallFacts DEF Walk, Open
<1>2. In(job[j].walk, f)
  BY <1>1, InLast
<1>r. PICK r : r = Taken(job[j], f)
  OBVIOUS
<1>3. /\ r \in Calls /\ r.kind = job[j].kind
      /\ job[j].kind = "handle" => \A n \in 1 .. Len(r.walk) : r.walk[n] \subseteq Files
      /\ \A u : In(r.walk, u) => In(job[j].walk, u)
      /\ \A u : In(job[j].walk, u) /\ u # f => In(r.walk, u)
  BY <1>1, <1>r, TakenFacts
<1>c. PICK c : c = [r EXCEPT !.at = "emit", !.target = f]
  OBVIOUS
<1>4. c \in Calls /\ c.kind = r.kind /\ c.walk = r.walk /\ c.at = "emit" /\ c.target = f
  BY <1>1, <1>3, <1>c, ConstantFacts DEF Calls, Points
<1>5. Shaped(c)
  BY <1>1, <1>3, <1>4, ConstantFacts DEF Shaped
<1>6. Become(j, c)
  BY <1>r, <1>c DEF Taken
<1>7. Moves(j, c) /\ JobsFine'
  BY <1>0, <1>4, <1>5, <1>6, MovesLemma
<1>8. /\ known' = known \cup {f}
      /\ UNCHANGED <<there, version, pending, active, timer, health, scanned, changes, faults,
                     stops, watchers, attached, raised, lost>>
  BY DEF Walk, treeVars
<1>9. Parts' /\ Tree'
  BY <1>0, <1>1, <1>8 DEF Parts, Tree
<1>10. /\ \A u : At("emit", u)' => At("emit", u) \/ u = f
       /\ \A u : At("emit", u) => At("emit", u)'
       /\ At("emit", f)'
       /\ \A u : At("stat", u)' <=> At("stat", u)
       /\ \A u : At("watch", u)' <=> At("watch", u)
       /\ \A u : At("read", u)' <=> At("read", u)
       /\ \A u : Listed(u)' => Listed(u)
       /\ \A u : u # f => (Listed(u) => Listed(u)')
       /\ Listed(f)
  BY <1>1, <1>2, <1>3, <1>4, <1>7 DEF Moves
<1>11. \A u : Noticed(u)' <=> Noticed(u)
  BY <1>8, <1>10 DEF Noticed
<1>12. Missed1 => Missed1'
  <2>1. \A e : Touched(e)' => Touched(e)
    BY <1>8, <1>10, <1>11 DEF Touched
  <2>. QED BY <1>8, <2>1 DEF Missed1
<1>13. Missed2 => Missed2'
  <2>1. \A e : Covered(e) => Covered(e)'
    BY <1>8, <1>10, <1>11 DEF Covered
  <2>. QED BY <1>8, <2>1 DEF Missed2
<1>14. Missed3 => Missed3'
  <2>1. \A d \in Subdirs : d # f
    BY <1>1, ConstantFacts
  <2>. QED BY <1>8, <1>10, <1>11, <2>1 DEF Missed3, Followed
<1>. QED BY <1>0, <1>7, <1>8, <1>9, <1>12, <1>13, <1>14, Joined

LEMMA WalkStep ==
    ASSUME WatcherInv, NEW j \in Jobs, Walk(j) PROVE WatcherInv'
<1>1. CASE Open(j) = {} /\ UNCHANGED known
           /\ Become(j, [job[j] EXCEPT !.walk = SubSeq(@, 1, Len(job[j].walk) - 1)])
  BY <1>1, WalkLeave
<1>2. ASSUME NEW d \in Open(j) \cap Dirs, UNCHANGED known,
             Become(j, Visit([job[j] EXCEPT !.walk[Len(job[j].walk)] = @ \ {d}], d))
      PROVE  WatcherInv'
  BY <1>2, WalkDirectory
<1>3. ASSUME NEW f \in Open(j) \cap Files, known' = known \cup {f},
             Become(j, [[job[j] EXCEPT !.walk[Len(job[j].walk)] = @ \ {f}]
                           EXCEPT !.at = "emit", !.target = f])
      PROVE  WatcherInv'
  BY <1>3, WalkFile
<1>. QED BY <1>1, <1>2, <1>3 DEF Walk

------------------------------------------------------------------------------
(* The specification.                                                      *)

LEMMA InitHolds == Init => WatcherInv
<1>1. SUFFICES ASSUME Init PROVE WatcherInv
  OBVIOUS
<1>2. \A j \in Jobs : job[j] = Idle
  BY <1>1 DEF Init
<1>3. TypeOK
  <2>1. job \in [Jobs -> Calls]
    BY <1>1, IdleFacts DEF Init
  <2>2. version \in [Files -> Nat] /\ scanned \in [Files -> Nat]
    BY <1>1 DEF Init
  <2>3. 0 \in 0 .. MaxChanges /\ 0 \in 0 .. MaxFaults /\ 0 \in 0 .. MaxStops
    BY ConstantFacts
  <2>4. there \subseteq Targets
    BY <1>1 DEF Init
  <2>. QED BY <1>1, <2>1, <2>2, <2>3, <2>4 DEF Init, TypeOK
<1>4. (\A p, t : p # "idle" => ~At(p, t)) /\ (\A t : ~Listed(t))
  BY <1>2, IdleFacts DEF At, Listed, In
<1>5. NothingMissed
  BY <1>1, <1>4 DEF Init, NothingMissed, Touched, Noticed
<1>. QED BY <1>1, <1>2, <1>3, <1>5, IdleFacts DEF Init, WatcherInv

LEMMA NextHolds ==
    ASSUME WatcherInv, [Next]_vars PROVE WatcherInv'
<1>1. CASE UNCHANGED vars
  <2>1. UNCHANGED <<there, version, attached, raised, watchers, known, pending, active, timer,
                    health, job, scanned, lost, changes, faults, stops>>
    BY <1>1 DEF vars, treeVars, watchVars
  <2>. QED BY <2>1 DEF WatcherInv, TypeOK, NothingMissed, Touched, Noticed, At, Listed,
                       Covered, Followed
<1>2. CASE Next
  <2>1. ASSUME NEW j \in Jobs, Step(j) PROVE WatcherInv'
    BY <2>1, StatStep, RootStatStep, WatchStep, ReadStep, WalkStep, EmitStep, FinishStep DEF Step
  <2>. QED BY <1>2, <2>1, SaveStep, MakeDirStep, WatcherErrorStep, RemoveStep, NamelessStep,
              ScheduleStep, BeginStep, FireStep, StopStep DEF Next
<1>. QED BY <1>1, <1>2

(* In every reachable state of the watcher: the types; files and handles   *)
(* hang together; and, while nothing failed, a file with a handle over it  *)
(* is known or will be, and a known one was scanned as it is or will be    *)
(* (_watchDirectory, _snapshotDirectory, _schedule, _handle).              *)
THEOREM WatcherInvariant == Spec => []WatcherInv
BY InitHolds, NextHolds, PTL DEF Spec

(* Without a fault, an active watcher that reports healthy and has its     *)
(* root under a handle misses no file below it.                            *)
THEOREM HealthyWatcherMissesNothing == Spec => []HealthyMissesNothing
<1>1. ASSUME WatcherInv PROVE HealthyMissesNothing
  <2>0. Parts /\ Tree /\ JobsFine /\ (faults = 0 => Missed1 /\ Missed2 /\ Missed3)
    BY <1>1, Split
  <2>1. SUFFICES ASSUME Trustworthy, NEW f \in Files, f \in there
                 PROVE  OnItsWay(f) \/ (f \in known /\ (scanned[f] = version[f] \/ Home[f] \in lost))
    BY DEF HealthyMissesNothing
  <2>2. Missed2 /\ Missed3 /\ Root \in attached /\ watchers \subseteq attached
    BY <2>0, <2>1 DEF Trustworthy
  <2>3. \A t : Noticed(t) \/ Listed(t) \/ At("emit", t) \/ At("read", t) \/ At("watch", t)
               => Coming(t)
    BY DEF Noticed, Listed, At, Coming
  <2>4. CASE Home[f] \in attached
    <3>1. Covered(f)
      BY <2>1, <2>2, <2>4 DEF Missed2
    <3>. QED BY <2>3, <3>1 DEF Covered, OnItsWay
  <2>5. CASE Home[f] \notin attached
    <3>1. Home[f] \in Subdirs \cap there
      BY <2>0, <2>1, <2>2, <2>5, ParentFacts, ConstantFacts DEF Tree
    <3>2. Followed(Home[f]) /\ Home[f] \notin watchers
      BY <2>2, <2>5, <3>1 DEF Missed3
    <3>. QED BY <2>3, <3>2 DEF Followed, OnItsWay
  <2>. QED BY <2>4, <2>5
<1>. QED BY <1>1, WatcherInvariant, PTL
=============================================================================
