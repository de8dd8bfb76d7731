------------------------- MODULE ServiceStateProofs -------------------------
(***************************************************************************)
(* The parts of the desktop service that keep state across a restart.      *)
(***************************************************************************)
EXTENDS ThreatIntel, UpdateManager, ServiceFiles, WellFoundedInduction, TLAPS

------------------------------------------------------------------------------
(* Threat intelligence.                                                    *)

LEMMA CachesAreFunctions ==
    ASSUME NEW es
    PROVE  IsCache(es) <=> DOMAIN es \subseteq Hashes /\ es \in [DOMAIN es -> CacheEntries]
BY DEF IsCache

(* A part of truthful entries is truthful, and so are entries that are set *)
(* to what the database has answered.                                      *)
LEMMA WithoutIsTruthful ==
    ASSUME NEW es, NEW known, Truthful(es, known), NEW gone
    PROVE  Truthful(Without(es, gone), known)
<1>1. DOMAIN es \subseteq Hashes /\ es \in [DOMAIN es -> CacheEntries]
  BY CachesAreFunctions DEF Truthful
<1>2. PICK part : part = Without(es, gone)
  OBVIOUS
<1>3. part = [h \in DOMAIN es \ gone |-> es[h]]
  BY <1>2 DEF Without
<1>4. DOMAIN part \subseteq Hashes /\ part \in [DOMAIN part -> CacheEntries]
  BY <1>1, <1>3
<1> QED BY <1>2, <1>3, <1>4, CachesAreFunctions DEF Truthful

LEMMA PrunedIsTruthful ==
    ASSUME NEW es, NEW known, Truthful(es, known)
    PROVE  Truthful(Pruned(es), known)
<1>1. \E gone : Pruned(es) = Without(es, gone)
  BY DEF Pruned
<1> QED BY <1>1, WithoutIsTruthful

LEMMA StoredIsTruthful ==
    ASSUME NEW es, NEW known, Truthful(es, known), NEW hs \in SUBSET Hashes, now \in Nat,
           NEW status \in {"known_malicious", "not_found"},
           status = "known_malicious" => hs \subseteq known
    PROVE  Truthful(Stored(es, hs, status), known)
<1>1. PICK all : all = [h \in DOMAIN es \cup hs |-> IF h \in hs THEN Entry(status, now) ELSE es[h]]
  OBVIOUS
<1>2. Truthful(all, known)
  <2>1. DOMAIN es \subseteq Hashes /\ es \in [DOMAIN es -> CacheEntries]
    BY CachesAreFunctions DEF Truthful
  <2>2. Entry(status, now) \in CacheEntries /\ Entry(status, now).status = status
    BY DEF CacheEntries, Entry
  <2>3. DOMAIN all \subseteq Hashes /\ all \in [DOMAIN all -> CacheEntries]
    BY <1>1, <2>1, <2>2
  <2>4. \A h \in DOMAIN all : all[h].status = "known_malicious" => h \in known
    BY <1>1, <2>2 DEF Truthful
  <2> QED BY <2>3, <2>4, CachesAreFunctions DEF Truthful
<1>3. Stored(es, hs, status) = Pruned(all)
  BY <1>1 DEF Stored
<1> QED BY <1>2, <1>3, PrunedIsTruthful

LEMMA EmptyIsTruthful == ASSUME NEW known PROVE Truthful(<<>>, known)
<1>1. DOMAIN <<>> = {}
  OBVIOUS
<1>2. <<>> \in [{} -> CacheEntries]
  BY <1>1
<1>3. IsCache(<<>>)
  BY <1>1, <1>2, CachesAreFunctions
<1> QED BY <1>1, <1>3 DEF Truthful

LEMMA LoadedIsTruthful ==
    ASSUME NEW es, NEW known, Truthful(es, known), NEW f, f.ok => Truthful(f.list, known)
    PROVE  Truthful(LoadedFrom(f, es), known)
<1>1. CASE ~f.ok
  BY <1>1, EmptyIsTruthful DEF LoadedFrom
<1>2. CASE f.ok /\ f.list = <<>>
  BY <1>2 DEF LoadedFrom
<1>3. CASE f.ok /\ f.list # <<>>
  <2>1. PICK all : all = [h \in DOMAIN es \cup DOMAIN f.list |->
                            IF h \in DOMAIN f.list THEN f.list[h] ELSE es[h]]
    OBVIOUS
  <2>2. Truthful(all, known)
    <3>1. /\ DOMAIN es \subseteq Hashes /\ es \in [DOMAIN es -> CacheEntries]
          /\ DOMAIN f.list \subseteq Hashes /\ f.list \in [DOMAIN f.list -> CacheEntries]
      BY <1>3, CachesAreFunctions DEF Truthful
    <3>2. DOMAIN all \subseteq Hashes /\ all \in [DOMAIN all -> CacheEntries]
      BY <2>1, <3>1
    <3>3. \A h \in DOMAIN all : all[h].status = "known_malicious" => h \in known
      BY <1>3, <2>1 DEF Truthful
    <3> QED BY <3>2, <3>3, CachesAreFunctions DEF Truthful
  <2>3. LoadedFrom(f, es) = Pruned(all)
    BY <1>3, <2>1 DEF LoadedFrom
  <2> QED BY <2>2, <2>3, PrunedIsTruthful
<1> QED BY <1>1, <1>2, <1>3

LEMMA NoLookupIsTruthful == ASSUME NEW known PROVE CallIsTruthful(NoLookup, known)
BY EmptyIsTruthful, IntelAssumption DEF CallIsTruthful, NoLookup, Truthful

(* Get answers from truthful entries, or asks the database.                *)
LEMMA GetIsTruthful ==
    ASSUME IntelInv, NEW c \in Lookups, NEW h \in Hashes, NEW es, Truthful(es, published),
           NEW asked \in Nat, Get(c, h, es, asked)
    PROVE  /\ Truthful(entries', published)
           /\ DOMAIN lookup' = Lookups /\ lookup' = [d \in Lookups |-> lookup'[d]]
           /\ \A d \in Lookups : CallIsTruthful(lookup'[d], published)
<1>1. Truthful(entries', published)
  BY WithoutIsTruthful DEF Get
<1>2. PICK call : /\ lookup' = [lookup EXCEPT ![c] = call]
                  /\ call = IF Hit(es, h, asked)
                            THEN [NoLookup EXCEPT !.at = "done", !.hash = {h}, !.asked = asked,
                                                  !.answer = es[h].status, !.of = es[h].said]
                            ELSE [NoLookup EXCEPT !.at = "request", !.hash = {h}]
  BY DEF Get
<1>3. CallIsTruthful(call, published)
  <2>1. CASE Hit(es, h, asked)
    <3>1. /\ es[h].status \in {"known_malicious", "not_found"} /\ es[h].at \in Nat
          /\ es[h].said = es[h].at
          /\ es[h].status = "known_malicious" => h \in published
      BY <2>1, CachesAreFunctions DEF Hit, Truthful, CacheEntries
    <3>2. Ttl(es[h].status) \in Nat /\ ~(es[h].at + Ttl(es[h].status) <= asked)
      BY <2>1, IntelAssumption DEF Hit, Expired, Ttl
    <3>3. asked < es[h].said + Ttl(es[h].status)
      BY <3>1, <3>2
    <3> QED BY <1>2, <2>1, <3>1, <3>2, <3>3, EmptyIsTruthful
            DEF CallIsTruthful, NoLookup, Truthful
  <2>2. CASE ~Hit(es, h, asked)
    BY <1>2, <2>2, EmptyIsTruthful, IntelAssumption DEF CallIsTruthful, NoLookup, Truthful
  <2> QED BY <2>1, <2>2
<1> QED BY <1>1, <1>2, <1>3 DEF IntelInv
(* Where one call becomes another truthful one, and the rest stays.        *)
LEMMA CallChanges ==
    ASSUME IntelInv, NEW c \in Lookups, NEW call, CallIsTruthful(call, published),
           lookup' = [lookup EXCEPT ![c] = call]
    PROVE  /\ DOMAIN lookup' = Lookups /\ lookup' = [d \in Lookups |-> lookup'[d]]
           /\ \A d \in Lookups : CallIsTruthful(lookup'[d], published)
BY DEF IntelInv

(* What a call returns when it has heard it, or has heard nothing.         *)
LEMMA ReturnIsTruthful ==
    ASSUME IntelInv, NEW c \in Lookups, NEW answer \in {"unavailable", lookup[c].live},
           answer = "unavailable" \/ lookup[c].at = "rename", Returns(c, answer)
    PROVE  /\ DOMAIN lookup' = Lookups /\ lookup' = [d \in Lookups |-> lookup'[d]]
           /\ \A d \in Lookups : CallIsTruthful(lookup'[d], published)
<1>1. PICK call : call = [lookup[c] EXCEPT !.at = "done", !.answer = answer, !.doc = <<>>]
  OBVIOUS
<1>2. CallIsTruthful(lookup[c], published)
  BY DEF IntelInv
<1>3. lookup' = [lookup EXCEPT ![c] = call]
  BY <1>1 DEF Returns
<1>4. CallIsTruthful(call, published)
  BY <1>1, <1>2, EmptyIsTruthful DEF CallIsTruthful, Truthful
<1> QED BY <1>3, <1>4, CallChanges

(* A call that begins may trigger an import of the recent feed.            *)
LEMMA LookupStep ==
    ASSUME IntelInv, NEW c \in Lookups, NEW h \in Hashes, Lookup(c, h)
    PROVE  IntelInv'
<1>0. now \in Nat
  BY DEF IntelInv
<1>1. SyncIsTruthful(sync', published)
  BY EmptyIsTruthful DEF IntelInv, Lookup, TriggerSync, NoSync, SyncIsTruthful
<1>2. /\ Truthful(entries', published)
      /\ DOMAIN lookup' = Lookups /\ lookup' = [d \in Lookups |-> lookup'[d]]
      /\ \A d \in Lookups : CallIsTruthful(lookup'[d], published)
  <2>1. CASE loaded
    <3>1. Truthful(entries, published) /\ Get(c, h, entries, now)
      BY <2>1 DEF IntelInv, Lookup
    <3> QED BY <1>0, <3>1, GetIsTruthful
  <2>2. CASE ~loaded
    <3>1. PICK call : call = [NoLookup EXCEPT !.at = "load", !.hash = {h}, !.asked = now]
      OBVIOUS
    <3>2. CallIsTruthful(call, published)
      BY <1>0, <3>1, EmptyIsTruthful, IntelAssumption DEF CallIsTruthful, NoLookup, Truthful
    <3>3. lookup' = [lookup EXCEPT ![c] = call] /\ UNCHANGED entries
      BY <2>2, <3>1 DEF Lookup
    <3> QED BY <3>2, <3>3, CallChanges DEF IntelInv
  <2> QED BY <2>1, <2>2
<1>3. UNCHANGED <<published, file, now>>
  BY DEF Lookup
<1> QED BY <1>1, <1>2, <1>3 DEF IntelInv

(* The file's entries join those that were put meanwhile.                  *)
LEMMA LoadStep ==
    ASSUME IntelInv, NEW c \in Lookups, Load(c)
    PROVE  IntelInv'
<1>1. PICK h \in lookup[c].hash, es \in {entries, LoadedFrom(file, entries)} :
        Get(c, h, es, lookup[c].asked)
  BY DEF Load
<1>2. h \in Hashes /\ lookup[c].asked \in Nat
  BY <1>1 DEF IntelInv, CallIsTruthful
<1>3. Truthful(es, published)
  BY <1>1, LoadedIsTruthful DEF IntelInv
<1>4. /\ Truthful(entries', published)
      /\ DOMAIN lookup' = Lookups /\ lookup' = [d \in Lookups |-> lookup'[d]]
      /\ \A d \in Lookups : CallIsTruthful(lookup'[d], published)
  BY <1>1, <1>2, <1>3, GetIsTruthful
<1>5. UNCHANGED <<published, file, sync, now>>
  BY DEF Load
<1> QED BY <1>4, <1>5 DEF IntelInv

(* The database answers what it lists.                                     *)
LEMMA RespondStep ==
    ASSUME IntelInv, NEW c \in Lookups, Respond(c)
    PROVE  IntelInv'
<1>1. /\ DOMAIN lookup' = Lookups /\ lookup' = [d \in Lookups |-> lookup'[d]]
      /\ \A d \in Lookups : CallIsTruthful(lookup'[d], published)
  <2>1. CASE Returns(c, "unavailable")
    BY <2>1, ReturnIsTruthful
  <2>2. CASE ~Returns(c, "unavailable")
    <3>1. PICK call : call = [lookup[c] EXCEPT !.at = "answered", !.live =
                 IF lookup[c].hash \subseteq published THEN "known_malicious" ELSE "not_found"]
      OBVIOUS
    <3>2. lookup' = [lookup EXCEPT ![c] = call] /\ lookup[c].at = "request"
      BY <2>2, <3>1 DEF Respond
    <3>3. CallIsTruthful(lookup[c], published)
      BY DEF IntelInv
    <3>4. CallIsTruthful(call, published)
      BY <3>1, <3>3 DEF CallIsTruthful
    <3> QED BY <3>2, <3>4, CallChanges
  <2> QED BY <2>1, <2>2
<1>2. UNCHANGED <<published, entries, file, sync, now>>
  BY DEF Respond
<1> QED BY <1>1, <1>2 DEF IntelInv

(* The answer is put into the cache as it is by now.                       *)
LEMMA PutStep ==
    ASSUME IntelInv, NEW c \in Lookups, Put(c)
    PROVE  IntelInv'
<1>0. CallIsTruthful(lookup[c], published) /\ Truthful(entries, published) /\ now \in Nat
  BY DEF IntelInv
<1>1. /\ Truthful(entries', published)
      /\ DOMAIN lookup' = Lookups /\ lookup' = [d \in Lookups |-> lookup'[d]]
      /\ \A d \in Lookups : CallIsTruthful(lookup'[d], published)
  <2>1. CASE Returns(c, "unavailable") /\ UNCHANGED entries
    BY <1>0, <2>1, ReturnIsTruthful
  <2>2. CASE /\ entries' = Stored(entries, lookup[c].hash, lookup[c].live)
             /\ lookup' = [lookup EXCEPT ![c].at = "mkdir"]
    <3>1. lookup[c].at = "answered"
      BY DEF Put
    <3>2. /\ lookup[c].hash \in SUBSET Hashes /\ lookup[c].live \in {"known_malicious", "not_found"}
          /\ lookup[c].live = "known_malicious" => lookup[c].hash \subseteq published
      BY <1>0, <3>1 DEF CallIsTruthful
    <3>3. Truthful(entries', published)
      BY <1>0, <2>2, <3>2, StoredIsTruthful
    <3>4. PICK call : call = [lookup[c] EXCEPT !.at = "mkdir"]
      OBVIOUS
    <3>5. CallIsTruthful(call, published)
      BY <1>0, <3>1, <3>4 DEF CallIsTruthful
    <3>6. lookup' = [lookup EXCEPT ![c] = call]
      BY <2>2, <3>4
    <3> QED BY <3>3, <3>5, <3>6, CallChanges
  <2> QED BY <2>1, <2>2 DEF Put
<1>2. UNCHANGED <<published, file, sync, now>>
  BY DEF Put
<1> QED BY <1>1, <1>2 DEF IntelInv

(* What is written is what the cache held when the save began.             *)
LEMMA SaveStep ==
    ASSUME IntelInv, NEW c \in Lookups, Save(c)
    PROVE  IntelInv'
<1>0. CallIsTruthful(lookup[c], published) /\ Truthful(entries, published)
      /\ (file.ok => Truthful(file.list, published))
  BY DEF IntelInv
<1>1. /\ file'.ok => Truthful(file'.list, published)
      /\ DOMAIN lookup' = Lookups /\ lookup' = [d \in Lookups |-> lookup'[d]]
      /\ \A d \in Lookups : CallIsTruthful(lookup'[d], published)
  <2>1. CASE Returns(c, "unavailable") /\ UNCHANGED file
    BY <1>0, <2>1, ReturnIsTruthful
  <2>2. CASE /\ lookup[c].at = "mkdir" /\ UNCHANGED file
             /\ lookup' = [lookup EXCEPT ![c].at = "rename", ![c].doc = entries]
    <3>1. PICK call : call = [lookup[c] EXCEPT !.at = "rename", !.doc = entries]
      OBVIOUS
    <3>2. CallIsTruthful(call, published)
      BY <1>0, <2>2, <3>1 DEF CallIsTruthful, Truthful
    <3>3. lookup' = [lookup EXCEPT ![c] = call]
      BY <2>2, <3>1
    <3> QED BY <1>0, <2>2, <3>2, <3>3, CallChanges
  <2>3. CASE /\ lookup[c].at = "rename" /\ Returns(c, lookup[c].live)
             /\ file' = [ok |-> TRUE, list |-> lookup[c].doc]
    <3>1. Truthful(file'.list, published)
      BY <1>0, <2>3 DEF CallIsTruthful
    <3> QED BY <2>3, <3>1, ReturnIsTruthful
  <2> QED BY <2>1, <2>2, <2>3 DEF Save
<1>2. UNCHANGED <<published, entries, sync, now>>
  BY DEF Save
<1> QED BY <1>1, <1>2 DEF IntelInv

(* The import of the recent feed.                                          *)
LEMMA SyncStepInv ==
    ASSUME IntelInv, SyncStep
    PROVE  IntelInv'
<1>0. /\ SyncIsTruthful(sync, published) /\ Truthful(entries, published)
      /\ now \in Nat /\ published \subseteq Hashes /\ (file.ok => Truthful(file.list, published))
  BY DEF IntelInv
<1>1. SyncIsTruthful(NoSync, published)
  BY EmptyIsTruthful DEF NoSync, SyncIsTruthful
<1>2. /\ SyncIsTruthful(sync', published) /\ Truthful(entries', published)
      /\ file'.ok => Truthful(file'.list, published)
  <2>1. CASE SyncRespond
    BY <1>0, <1>1, <2>1 DEF SyncRespond, SyncOver, SyncIsTruthful
  <2>2. CASE SyncPut
    <3>1. SyncIsTruthful(sync', published) /\ UNCHANGED file
      BY <1>0, <1>1, <2>2 DEF SyncPut, SyncOver, SyncIsTruthful
    <3>2. Truthful(Stored(entries, sync.feed, "known_malicious"), published)
      <4>1. sync.feed \in SUBSET Hashes /\ sync.feed \subseteq published
        BY <1>0 DEF SyncIsTruthful
      <4> QED BY <1>0, <4>1, StoredIsTruthful
    <3>3. Truthful(entries', published)
      BY <1>0, <2>2, <3>2 DEF SyncPut
    <3> QED BY <1>0, <3>1, <3>3
  <2>3. CASE SyncSave
    <3>1. Truthful(entries', published)
      BY <1>0, <2>3 DEF SyncSave
    <3>2. file'.ok => Truthful(file'.list, published)
      <4>1. file' = file \/ file' = [ok |-> TRUE, list |-> sync.doc]
        BY <2>3 DEF SyncSave
      <4> QED BY <1>0, <4>1 DEF SyncIsTruthful
    <3>3. SyncIsTruthful(sync', published)
      <4>1. sync' = NoSync \/ sync' = [sync EXCEPT !.at = "rename", !.doc = entries]
        BY <2>3 DEF SyncSave, SyncOver
      <4>2. CASE sync' = [sync EXCEPT !.at = "rename", !.doc = entries]
        BY <1>0, <4>2 DEF SyncIsTruthful
      <4> QED BY <1>1, <4>1, <4>2
    <3> QED BY <3>1, <3>2, <3>3
  <2> QED BY <2>1, <2>2, <2>3 DEF SyncStep
<1>3. UNCHANGED <<published, lookup, now>>
  BY DEF SyncStep, SyncRespond, SyncPut, SyncSave
<1> QED BY <1>2, <1>3 DEF IntelInv

(* More is published, time passes, or the service starts again.            *)
LEMMA IntelOutside ==
    ASSUME IntelInv, (\E h \in Hashes : Publish(h)) \/ IntelTick \/ IntelRestart
    PROVE  IntelInv'
<1>1. ASSUME NEW h \in Hashes, Publish(h) PROVE IntelInv'
  <2>1. published' \subseteq Hashes /\ published \subseteq published'
        /\ UNCHANGED <<entries, file, lookup, sync, now>>
    BY <1>1 DEF IntelInv, Publish
  <2>2. \A es : Truthful(es, published) => Truthful(es, published')
    BY <2>1 DEF Truthful
  <2>3. \A call : CallIsTruthful(call, published) => CallIsTruthful(call, published')
    BY <2>1, <2>2 DEF CallIsTruthful
  <2>4. SyncIsTruthful(sync, published) => SyncIsTruthful(sync, published')
    BY <2>1, <2>2 DEF SyncIsTruthful
  <2> QED BY <2>1, <2>2, <2>3, <2>4 DEF IntelInv
<1>2. CASE IntelTick
  BY <1>2 DEF IntelInv, IntelTick
<1>3. CASE IntelRestart
  BY <1>3, EmptyIsTruthful, NoLookupIsTruthful DEF IntelInv, IntelRestart, NoSync, SyncIsTruthful
<1> QED BY <1>1, <1>2, <1>3

(* A file of an earlier run holds only what was published then.            *)
LEMMA IntelInitInv == IntelInit => IntelInv
<1> SUFFICES ASSUME IntelInit PROVE IntelInv
  OBVIOUS
<1>1. file.ok => Truthful(file.list, published)
  <2>1. ASSUME NEW h \in Hashes, NEW status \in {"known_malicious", "not_found"},
               status = "known_malicious" => h \in published,
               NEW list, list = [k \in {h} |-> Entry(status, 0)]
        PROVE  Truthful(list, published)
    <3>1. DOMAIN list \subseteq Hashes /\ list \in [DOMAIN list -> CacheEntries]
      BY <2>1 DEF Entry, CacheEntries
    <3> QED BY <2>1, <3>1, CachesAreFunctions DEF Truthful, Entry
  <2>2. CASE file = [ok |-> TRUE, list |-> <<>>]
    BY <2>2, EmptyIsTruthful
  <2>3. ASSUME NEW h \in published,
               file = [ok |-> TRUE, list |-> [k \in {h} |-> Entry("known_malicious", 0)]]
        PROVE  Truthful(file.list, published)
    BY <2>1, <2>3 DEF IntelInit
  <2>4. ASSUME NEW h \in Hashes,
               file = [ok |-> TRUE, list |-> [k \in {h} |-> Entry("not_found", 0)]]
        PROVE  Truthful(file.list, published)
    BY <2>1, <2>4
  <2>5. ASSUME NEW h \in Hashes,
               file = [ok |-> FALSE, list |-> [k \in {h} |-> Entry("known_malicious", 0)]]
        PROVE  ~file.ok
    BY <2>5
  <2> QED BY <2>2, <2>3, <2>4, <2>5 DEF IntelInit, FileInit
<1>2. SyncIsTruthful(NoSync, published)
  BY EmptyIsTruthful DEF NoSync, SyncIsTruthful
<1> QED BY <1>1, <1>2, EmptyIsTruthful, NoLookupIsTruthful DEF IntelInit, IntelInv, NoSync

(* Every step keeps the invariant.                                         *)
LEMMA IntelStepInv == IntelInv /\ [IntelNext]_intelVars => IntelInv'
<1> SUFFICES ASSUME IntelInv, [IntelNext]_intelVars PROVE IntelInv'
  OBVIOUS
<1>1. CASE UNCHANGED intelVars
  BY <1>1 DEF intelVars, IntelInv
<1>2. CASE IntelNext
  BY <1>2, LookupStep, LoadStep, RespondStep, PutStep, SaveStep, SyncStepInv, IntelOutside
  DEF IntelNext
<1> QED BY <1>1, <1>2

(* The cache, its file, the saves in progress and the import hold no       *)
(* detection the database does not list, however calls, imports, failures  *)
(* and restarts overlap.                                                   *)
THEOREM IntelInvariant == IntelSpec => []IntelInv
BY IntelInitInv, IntelStepInv, PTL DEF IntelSpec

(* lookupSha256 never answers "known malicious" for a hash the database    *)
(* does not list.                                                          *)
THEOREM NoVerdictIsMadeUp == IntelSpec => []NoManufacturedVerdict
<1>1. IntelInv => NoManufacturedVerdict
  BY DEF IntelInv, CallIsTruthful, NoManufacturedVerdict
<1> QED BY <1>1, IntelInvariant, PTL

(* lookupSha256 never answers from the cache what the database said longer *)
(* ago than its time to live when the lookup was made, also if the entry   *)
(* came through the file, a restart or an overtaken save.                  *)
THEOREM CacheAnswersInTime == IntelSpec => []CachedAnswerWithinTtl
<1>1. IntelInv => CachedAnswerWithinTtl
  BY DEF IntelInv, CallIsTruthful, CachedAnswerWithinTtl
<1> QED BY <1>1, IntelInvariant, PTL

------------------------------------------------------------------------------
(* Files of the service.                                                   *)

(* Every initial state of the files satisfies their invariant.             *)
LEMMA FilesInitInv == FilesInit => FilesInv
BY FilesAssumption DEF FilesInit, FilesInv, FilesTypes, LaunchCount, ReportCount, NotSaving

(* The count and its marker go on, the settings stay as they are.          *)
LEMMA LaunchStep ==
    ASSUME FilesInv, LaunchBegins \/ LaunchAsks \/ LaunchEnds
    PROVE  FilesInv'
<1>0. FilesTypes /\ LaunchCount /\ ReportCount
  BY DEF FilesInv
<1>1. FilesTypes'
  <2>1. CASE LaunchBegins
    BY <1>0, <2>1 DEF FilesTypes, LaunchBegins, MayCount
  <2>2. CASE LaunchAsks
    BY <1>0, <2>2 DEF FilesTypes, LaunchAsks
  <2>3. CASE LaunchEnds
    <3>1. /\ markers' \subseteq {"pending", "counted"} /\ lost' \in Nat /\ launch' = "idle"
          /\ UNCHANGED <<settingsFile, config, saving, hits, received>>
      <4>1. lost' \in {lost, lost + 1}
        BY <2>3 DEF LaunchEnds
      <4>2. markers' \subseteq {"pending", "counted"}
        BY <1>0, <2>3 DEF FilesTypes, LaunchEnds, Outcome
      <4> QED BY <1>0, <2>3, <4>1, <4>2 DEF FilesTypes, LaunchEnds
    <3> QED BY <1>0, <3>1 DEF FilesTypes
  <2> QED BY <2>1, <2>2, <2>3
<1>2. LaunchCount'
  <2>1. CASE LaunchBegins
    BY <1>0, <2>1 DEF FilesTypes, LaunchCount, LaunchBegins, MayCount, FileFault
  <2>2. CASE LaunchAsks
    BY <1>0, <2>2 DEF FilesTypes, LaunchCount, LaunchAsks
  <2>3. CASE LaunchEnds
    BY <1>0, <2>3 DEF FilesTypes, LaunchCount, LaunchEnds, Outcome
  <2> QED BY <2>1, <2>2, <2>3
<1>3. ReportCount'
  BY <1>0 DEF ReportCount, LaunchBegins, LaunchAsks, LaunchEnds
<1> QED BY <1>1, <1>2, <1>3 DEF FilesInv

(* The report and its marker go on.                                        *)
LEMMA ReportStep ==
    ASSUME FilesInv, ReportBegins \/ ReportAsks \/ ReportEnds
    PROVE  FilesInv'
<1>0. FilesTypes /\ LaunchCount /\ ReportCount
  BY DEF FilesInv
<1>1. FilesTypes'
  <2>1. CASE ReportBegins
    BY <1>0, <2>1 DEF FilesTypes, ReportBegins
  <2>2. CASE ReportAsks
    BY <1>0, <2>2 DEF FilesTypes, ReportAsks
  <2>3. CASE ReportEnds
    BY <1>0, <2>3 DEF FilesTypes, ReportEnds
  <2> QED BY <2>1, <2>2, <2>3
<1>2. LaunchCount'
  BY <1>0 DEF LaunchCount, ReportBegins, ReportAsks, ReportEnds
<1>3. ReportCount'
  BY <1>0 DEF FilesTypes, ReportCount, ReportBegins, ReportAsks, ReportEnds
<1> QED BY <1>1, <1>2, <1>3 DEF FilesInv

(* A call of applySettings saves valid settings and then takes them over.  *)
LEMMA SettingsStep ==
    ASSUME FilesInv, NEW c \in Savers,
           \/ \E v \in Settings : ApplySettings(c, v)
           \/ SaveTemp(c) \/ SaveRename(c) \/ Applied(c)
    PROVE  FilesInv'
<1>0. FilesTypes /\ LaunchCount /\ ReportCount
  BY DEF FilesInv
<1>1. FilesTypes'
  <2>1. /\ settingsFile' \in Settings \cup {"missing", "corrupt", "foreign"}
        /\ config' \in Settings
        /\ UNCHANGED sendVars
    BY <1>0 DEF FilesTypes, ApplySettings, SaveTemp, SaveWrites, SaveRename, Applied
  <2>2. saving' \in [Savers -> [at : {"idle", "write", "rename", "renamed"}, value : Settings]]
    BY <1>0, FilesAssumption
    DEF FilesTypes, ApplySettings, SaveTemp, SaveWrites, SaveRename, Applied, NotSaving
  <2> QED BY <1>0, <2>1, <2>2 DEF FilesTypes, sendVars
<1>2. LaunchCount' /\ ReportCount'
  BY <1>0 DEF LaunchCount, ReportCount, ApplySettings, SaveTemp, SaveWrites, SaveRename, Applied,
     sendVars
<1> QED BY <1>1, <1>2 DEF FilesInv

(* The process starts, is killed, or another program damages its file.     *)
LEMMA ProcessStep ==
    ASSUME FilesInv, Boot \/ Kill \/ Damage
    PROVE  FilesInv'
<1>0. FilesTypes /\ LaunchCount /\ ReportCount
  BY DEF FilesInv
<1>1. FilesTypes'
  <2>1. CASE Boot
    <3>1. /\ settingsFile' \in Settings \cup {"missing", "corrupt", "foreign"}
          /\ config' \in Settings
      BY <1>0, <2>1, FilesAssumption DEF FilesTypes, Boot, Repaired, HalfRepaired, Loaded
    <3> QED BY <1>0, <2>1, <3>1 DEF FilesTypes, Boot
  <2>2. CASE Kill
    BY <1>0, <2>2, FilesAssumption DEF FilesTypes, Kill, NotSaving
  <2>3. CASE Damage
    BY <1>0, <2>3 DEF FilesTypes, Damage, sendVars
  <2> QED BY <2>1, <2>2, <2>3
<1>2. LaunchCount' /\ ReportCount'
  BY <1>0 DEF FilesTypes, LaunchCount, ReportCount, Boot, Kill, Damage, sendVars
<1> QED BY <1>1, <1>2 DEF FilesInv

(* Every step keeps the invariant.                                         *)
LEMMA FilesStepInv == FilesInv /\ [FilesNext]_filesVars => FilesInv'
<1> SUFFICES ASSUME FilesInv, [FilesNext]_filesVars PROVE FilesInv'
  OBVIOUS
<1>1. CASE UNCHANGED filesVars
  BY <1>1 DEF filesVars, sendVars, FilesInv, FilesTypes, LaunchCount, ReportCount
<1>2. CASE FilesNext
  BY <1>2, LaunchStep, ReportStep, SettingsStep, ProcessStep DEF FilesNext
<1> QED BY <1>1, <1>2

(* The invariant of the service's files holds in every state, whatever the *)
(* number of concurrent saves, kills, damaged files and lost answers.      *)
THEOREM FilesInvariant == FilesSpec => []FilesInv
BY FilesInitInv, FilesStepInv, PTL DEF FilesSpec

(* recordFirstSuccessfulLaunch counts an installation once however often   *)
(* the process is killed, and again only for a count a fault made it       *)
(* forget: a lost answer, a marker not renamed, or one not looked up.      *)
THEOREM InstallationCountedOnce == FilesSpec => []CountedOnce
<1>1. FilesInv => CountedOnce
  BY DEF FilesInv, FilesTypes, LaunchCount, CountedOnce
<1> QED BY <1>1, FilesInvariant, PTL

(* The markers of the first launch and of the compatibility report are     *)
(* there only for what the other side has really received.                 *)
THEOREM MarkersHonest == FilesSpec => []MarkersAreHonest
<1>1. FilesInv => MarkersAreHonest
  BY DEF FilesInv, FilesTypes, LaunchCount, ReportCount, MarkersAreHonest
<1> QED BY <1>1, FilesInvariant, PTL

(* Valid settings are replaced only by what a call of applySettings has    *)
(* completely written, by another program, or by a start that fails to     *)
(* read them: no other start, no kill and no failed save does it, and none *)
(* of the service's steps leaves a file that does not parse.               *)
THEOREM SettingsSurviveSteps == FilesSpec => SettingsSurvive
<1> DEFINE Replaced == \/ \E c \in Savers :
                             saving[c].at = "rename" /\ settingsFile' = saving[c].value
                       \/ Damage
                       \/ ~up /\ FileFault /\ settingsFile' \in {Default, "missing"}
           Kept == /\ settingsFile \in Settings \cup {"foreign"} /\ settingsFile' # settingsFile
                        => Replaced
                   /\ settingsFile' = "corrupt" => settingsFile = "corrupt" \/ Damage
<1>1. ASSUME FilesInv, FilesNext PROVE Kept
  <2>0. FilesTypes
    BY <1>1 DEF FilesInv
  <2>1. CASE Boot
    <3>1. CASE (Repaired(settingsFile) \/ UNCHANGED settingsFile) /\ UNCHANGED fileFaults
      BY <2>0, <3>1, FilesAssumption DEF FilesTypes, Repaired
    <3>2. CASE /\ FileFault
               /\ \E taken \in {settingsFile, "missing", "corrupt"} :
                     Repaired(taken) \/ HalfRepaired(taken)
      BY <2>0, <2>1, <3>2, FilesAssumption DEF Boot, Repaired, HalfRepaired
    <3> QED BY <2>1, <3>1, <3>2 DEF Boot
  <2>2. ASSUME NEW c \in Savers,
               \/ \E v \in Settings : ApplySettings(c, v)
               \/ SaveTemp(c) \/ SaveRename(c) \/ Applied(c)
        PROVE  Kept
    <3>1. CASE SaveRename(c)
      BY <2>0, <3>1, FilesAssumption DEF FilesTypes, SaveRename
    <3>2. CASE (\E v \in Settings : ApplySettings(c, v)) \/ SaveTemp(c) \/ Applied(c)
      BY <3>2 DEF ApplySettings, SaveTemp, SaveWrites, Applied
    <3> QED BY <2>2, <3>1, <3>2
  <2>3. CASE Kill \/ LaunchBegins \/ LaunchAsks \/ LaunchEnds \/ ReportBegins \/ ReportAsks
             \/ ReportEnds
    BY <2>3 DEF Kill, LaunchBegins, LaunchAsks, LaunchEnds, ReportBegins, ReportAsks, ReportEnds
  <2>4. CASE Damage
    BY <2>4
  <2> QED BY <1>1, <2>1, <2>2, <2>3, <2>4 DEF FilesNext
<1>2. FilesInv /\ [FilesNext]_filesVars => [Kept]_filesVars
  BY <1>1
<1> QED BY <1>2, FilesInvariant, PTL DEF FilesSpec, SettingsSurvive
------------------------------------------------------------------------------
(* The order of versions.                                                  *)

(* A version whose identifiers are in Ids.                                 *)
VersionsOver(Ids) == [core : [1..3 -> Nat], prerelease : Seq(Ids)]

(* Prerelease identifiers: a number is its value, which different numbers  *)
(* below 2^53 do not share, and any other identifier is its text.          *)
AreIdentifiers(Ids) ==
    /\ Ids \subseteq [numeric : BOOLEAN, value : Nat, text : Nat]
    /\ \A a, b \in Ids : /\ a.numeric /\ b.numeric /\ a.value = b.value => a = b
                         /\ ~a.numeric /\ ~b.numeric /\ a.text = b.text => a = b

(* Precedence as Semantic Versioning states it (section 11).               *)
IdPrecedes(a, b) ==
    \/ a.numeric /\ b.numeric /\ a.value < b.value
    \/ a.numeric /\ ~b.numeric
    \/ ~a.numeric /\ ~b.numeric /\ a.text < b.text

PrereleasePrecedes(p, q) ==
    /\ p # <<>>
    /\ \/ q = <<>>
       \/ \E i \in 1..Len(p) : /\ i <= Len(q) /\ IdPrecedes(p[i], q[i])
                               /\ \A j \in 1..(i - 1) : p[j] = q[j]
       \/ Len(p) < Len(q) /\ \A j \in 1..Len(p) : p[j] = q[j]

Precedes(v, w) ==
    \/ \E i \in 1..3 : v.core[i] < w.core[i] /\ \A j \in 1..(i - 1) : v.core[j] = w.core[j]
    \/ /\ \A j \in 1..3 : v.core[j] = w.core[j]
       /\ PrereleasePrecedes(v.prerelease, w.prerelease)

(* Min of a set of natural numbers.                                        *)
LEMMA MinIsLeast ==
    ASSUME NEW S \in SUBSET Nat, S # {}
    PROVE  Min(S) \in S /\ \A x \in S : Min(S) <= x
<1>1. \A x, y \in Nat : x < y => <<x, y>> \in OpToRel(<, Nat)
  BY Zenon DEF OpToRel
<1>2. PICK R : IsWellFoundedOn(R, Nat) /\ \A x, y \in Nat : x < y => <<x, y>> \in R
  BY <1>1, NatLessThanWellFounded, Zenon
<1>3. PICK m \in S : \A x \in S : ~(<<x, m>> \in R)
  <2>1. IsWellFoundedOn(R, Nat)
    BY <1>2
  <2>2. S \subseteq Nat
    OBVIOUS
  <2> QED BY <2>1, <2>2, WFMin, Zenon
<1>4. ASSUME NEW x \in S PROVE m <= x
  <2>1. m \in Nat /\ x \in Nat /\ ~(x < m)
    BY <1>2, <1>3
  <2> QED BY <2>1
<1> QED BY <1>4 DEF Min

(* Identifiers: what is compared is their precedence, a strict total order.*)
LEMMA IdsAreOrdered ==
    ASSUME NEW Ids, AreIdentifiers(Ids), NEW a \in Ids, NEW b \in Ids, a # b
    PROVE  /\ CompareIds(a, b) \in Int
           /\ CompareIds(a, b) > 0 <=> IdPrecedes(b, a)
           /\ IdPrecedes(a, b) <=> ~IdPrecedes(b, a)
BY DEF AreIdentifiers, CompareIds, IdPrecedes

LEMMA IdsAreTransitive ==
    ASSUME NEW Ids, AreIdentifiers(Ids), NEW a \in Ids, NEW b \in Ids, NEW c \in Ids
    PROVE  /\ ~IdPrecedes(a, a)
           /\ IdPrecedes(a, b) /\ IdPrecedes(b, c) => IdPrecedes(a, c)
BY DEF AreIdentifiers, IdPrecedes

(* Prereleases.                                                            *)
LEMMA PrereleasesAreOrdered ==
    ASSUME NEW Ids, AreIdentifiers(Ids), NEW p \in Seq(Ids), NEW q \in Seq(Ids)
    PROVE  /\ ComparePrerelease(p, q) \in Int
           /\ ComparePrerelease(p, q) > 0 <=> PrereleasePrecedes(q, p)
<1>0. Len(p) \in Nat /\ Len(q) \in Nat /\ (p = <<>> <=> Len(p) = 0) /\ (q = <<>> <=> Len(q) = 0)
  OBVIOUS
<1>1. CASE p = <<>> \/ q = <<>>
  <2>1. ComparePrerelease(p, q) = Len(q) - Len(p)
    BY <1>1 DEF ComparePrerelease
  <2> QED BY <1>0, <1>1, <2>1 DEF PrereleasePrecedes
<1>2. CASE p # <<>> /\ q # <<>>
  <2>1. PICK common : common = Min({Len(p), Len(q)})
    OBVIOUS
  <2>2. common \in Nat /\ common <= Len(p) /\ common <= Len(q)
        /\ (common = Len(p) \/ common = Len(q))
    <3>1. {Len(p), Len(q)} \in SUBSET Nat /\ {Len(p), Len(q)} # {}
      BY <1>0
    <3>2. common \in {Len(p), Len(q)} /\ \A x \in {Len(p), Len(q)} : common <= x
      BY <2>1, <3>1, MinIsLeast
    <3> QED BY <1>0, <3>2
  <2>3. PICK differ : differ = {i \in 1..common : p[i] # q[i]}
    OBVIOUS
  <2>4. CASE differ = {}
    <3>1. ComparePrerelease(p, q) = Len(p) - Len(q)
      BY <1>2, <2>1, <2>3, <2>4 DEF ComparePrerelease
    <3>2. \A j \in 1..common : p[j] = q[j]
      BY <2>3, <2>4
    <3>3. \A j \in 1..common : p[j] \in Ids /\ ~IdPrecedes(p[j], p[j])
      BY <2>2, IdsAreTransitive
    <3>4. PrereleasePrecedes(q, p) <=> Len(q) < Len(p)
      BY <1>0, <1>2, <2>2, <3>2, <3>3 DEF PrereleasePrecedes
    <3> QED BY <1>0, <3>1, <3>4
  <2>5. CASE differ # {}
    <3>1. PICK m : m = Min(differ)
      OBVIOUS
    <3>2. m \in 1..common /\ p[m] # q[m] /\ \A j \in 1..(m - 1) : p[j] = q[j]
      <4>1. differ \in SUBSET Nat
        BY <2>2, <2>3
      <4>2. m \in differ /\ \A x \in differ : m <= x
        BY <2>5, <3>1, <4>1, MinIsLeast
      <4>3. \A j \in 1..(m - 1) : j \in 1..common /\ j \notin differ
        BY <2>2, <2>3, <4>1, <4>2
      <4> QED BY <2>3, <4>2, <4>3
    <3>3. ComparePrerelease(p, q) = CompareIds(p[m], q[m])
      BY <1>2, <2>1, <2>3, <2>5, <3>1 DEF ComparePrerelease
    <3>4. p[m] \in Ids /\ q[m] \in Ids
      BY <1>0, <2>2, <3>2
    <3>5. PrereleasePrecedes(q, p) <=> IdPrecedes(q[m], p[m])
      <4>1. ASSUME IdPrecedes(q[m], p[m]) PROVE PrereleasePrecedes(q, p)
        BY <1>0, <1>2, <2>2, <3>2, <4>1 DEF PrereleasePrecedes
      <4>2. ASSUME NEW i \in 1..Len(q), i <= Len(p), IdPrecedes(q[i], p[i]),
                   \A j \in 1..(i - 1) : q[j] = p[j]
            PROVE  IdPrecedes(q[m], p[m])
        <5>1. ~(i < m)
          <6>1. q[i] \in Ids
            OBVIOUS
          <6> QED BY <1>0, <3>2, <4>2, <6>1, IdsAreTransitive
        <5>2. ~(m < i)
          BY <1>0, <2>2, <3>2, <4>2
        <5> QED BY <1>0, <2>2, <3>2, <4>2, <5>1, <5>2
      <4>3. ~(Len(q) < Len(p) /\ \A j \in 1..Len(q) : q[j] = p[j])
        BY <1>0, <2>2, <3>2
      <4> QED BY <1>2, <4>1, <4>2, <4>3 DEF PrereleasePrecedes
    <3> QED BY <3>2, <3>3, <3>4, <3>5, IdsAreOrdered
  <2> QED BY <2>4, <2>5
<1> QED BY <1>1, <1>2

LEMMA PrereleasesAsymmetric ==
    ASSUME NEW Ids, AreIdentifiers(Ids), NEW p \in Seq(Ids), NEW q \in Seq(Ids),
           PrereleasePrecedes(p, q)
    PROVE  ~PrereleasePrecedes(q, p)
<1>0. Len(p) \in Nat /\ Len(q) \in Nat
  OBVIOUS
<1> SUFFICES ASSUME PrereleasePrecedes(q, p) PROVE FALSE
  OBVIOUS
<1>1. q # <<>> /\ p # <<>>
  BY DEF PrereleasePrecedes
<1>2. \A i \in 1..Len(p) : p[i] \in Ids
  OBVIOUS
<1>3. \A i \in 1..Len(q) : q[i] \in Ids
  OBVIOUS
<1>4. CASE \E i \in 1..Len(p) : /\ i <= Len(q) /\ IdPrecedes(p[i], q[i])
                                /\ \A j \in 1..(i - 1) : p[j] = q[j]
  <2>1. PICK i \in 1..Len(p) : /\ i <= Len(q) /\ IdPrecedes(p[i], q[i])
                               /\ \A j \in 1..(i - 1) : p[j] = q[j]
    BY <1>4
  <2>2. p[i] \in Ids /\ q[i] \in Ids /\ p[i] # q[i] /\ ~IdPrecedes(q[i], p[i])
    BY <1>2, <1>3, <2>1, IdsAreTransitive, IdsAreOrdered
  <2>3. ASSUME NEW k \in 1..Len(q), k <= Len(p), IdPrecedes(q[k], p[k]),
               \A j \in 1..(k - 1) : q[j] = p[j]
        PROVE  FALSE
    <3>1. k # i
      BY <2>2, <2>3
    <3>2. ~(i < k)
      BY <2>1, <2>2, <2>3
    <3>3. ~(k < i)
      <4>1. q[k] \in Ids
        OBVIOUS
      <4> QED BY <2>1, <2>3, <4>1, IdsAreTransitive
    <3> QED BY <2>1, <3>1, <3>2, <3>3
  <2>4. ~(Len(q) < Len(p) /\ \A j \in 1..Len(q) : q[j] = p[j])
    BY <2>1, <2>2
  <2> QED BY <1>1, <2>3, <2>4 DEF PrereleasePrecedes
<1>5. CASE Len(p) < Len(q) /\ \A j \in 1..Len(p) : p[j] = q[j]
  <2>1. ASSUME NEW k \in 1..Len(q), k <= Len(p), IdPrecedes(q[k], p[k])
        PROVE  FALSE
    <3>1. q[k] \in Ids /\ p[k] = q[k]
      BY <1>3, <1>5, <2>1
    <3> QED BY <2>1, <3>1, IdsAreTransitive
  <2> QED BY <1>1, <1>5, <2>1 DEF PrereleasePrecedes
<1> QED BY <1>1, <1>4, <1>5 DEF PrereleasePrecedes
LEMMA PrereleasesTransitive ==
    ASSUME NEW Ids, AreIdentifiers(Ids), NEW p \in Seq(Ids), NEW q \in Seq(Ids), NEW r \in Seq(Ids),
           PrereleasePrecedes(p, q), PrereleasePrecedes(q, r)
    PROVE  PrereleasePrecedes(p, r)
<1> SUFFICES ASSUME r # <<>> PROVE PrereleasePrecedes(p, r)
  BY DEF PrereleasePrecedes
<1> DEFINE FirstAt(x, y, i) == /\ i <= Len(y) /\ IdPrecedes(x[i], y[i])
                               /\ \A j \in 1..(i - 1) : x[j] = y[j]
           Prefix(x, y) == Len(x) < Len(y) /\ \A j \in 1..Len(x) : x[j] = y[j]
<1>0. /\ Len(p) \in Nat /\ Len(q) \in Nat /\ Len(r) \in Nat /\ p # <<>> /\ q # <<>>
      /\ \A i \in 1..Len(p) : p[i] \in Ids
      /\ \A i \in 1..Len(q) : q[i] \in Ids
      /\ \A i \in 1..Len(r) : r[i] \in Ids
  BY DEF PrereleasePrecedes
<1>1. (\E i \in 1..Len(p) : FirstAt(p, q, i)) \/ Prefix(p, q)
  BY <1>0 DEF PrereleasePrecedes
<1>2. (\E i \in 1..Len(q) : FirstAt(q, r, i)) \/ Prefix(q, r)
  BY <1>0 DEF PrereleasePrecedes
<1>3. (\E i \in 1..Len(p) : FirstAt(p, r, i)) \/ Prefix(p, r)
  <2>1. ASSUME NEW i \in 1..Len(p), FirstAt(p, q, i), NEW k \in 1..Len(q), FirstAt(q, r, k)
        PROVE  \E n \in 1..Len(p) : FirstAt(p, r, n)
    <3>1. CASE i < k
      <4>1. q[i] = r[i] /\ \A j \in 1..(i - 1) : q[j] = r[j]
        BY <1>0, <2>1, <3>1
      <4> QED BY <1>0, <2>1, <3>1, <4>1
    <3>2. CASE i = k
      <4>1. IdPrecedes(p[i], r[i])
        BY <1>0, <2>1, <3>2, IdsAreTransitive
      <4> QED BY <2>1, <3>2, <4>1
    <3>3. CASE k < i
      <4>1. p[k] = q[k] /\ \A j \in 1..(k - 1) : p[j] = q[j]
        BY <1>0, <2>1, <3>3
      <4> QED BY <1>0, <2>1, <3>3, <4>1
    <3> QED BY <3>1, <3>2, <3>3
  <2>2. ASSUME NEW i \in 1..Len(p), FirstAt(p, q, i), Prefix(q, r)
        PROVE  \E n \in 1..Len(p) : FirstAt(p, r, n)
    <3>1. q[i] = r[i] /\ \A j \in 1..(i - 1) : q[j] = r[j]
      BY <1>0, <2>2
    <3> QED BY <1>0, <2>2, <3>1
  <2>3. ASSUME Prefix(p, q), NEW k \in 1..Len(q), FirstAt(q, r, k)
        PROVE  (\E n \in 1..Len(p) : FirstAt(p, r, n)) \/ Prefix(p, r)
    <3>1. CASE k <= Len(p)
      <4>1. p[k] = q[k] /\ \A j \in 1..(k - 1) : p[j] = q[j]
        BY <1>0, <2>3, <3>1
      <4> QED BY <1>0, <2>3, <3>1, <4>1
    <3>2. CASE Len(p) < k
      BY <1>0, <2>3, <3>2
    <3> QED BY <1>0, <3>1, <3>2
  <2>4. ASSUME Prefix(p, q), Prefix(q, r)
        PROVE  Prefix(p, r)
    BY <1>0, <2>4
  <2> QED BY <1>1, <1>2, <2>1, <2>2, <2>3, <2>4
<1> QED BY <1>0, <1>3 DEF PrereleasePrecedes

(* compareVersions puts any two versions in the order of Semantic          *)
(* Versioning: the later one is the one with the higher precedence.        *)
THEOREM CompareVersionsIsPrecedence ==
    ASSUME NEW Ids, AreIdentifiers(Ids), NEW v \in VersionsOver(Ids), NEW w \in VersionsOver(Ids)
    PROVE  CompareVersions(v, w) > 0 <=> Precedes(w, v)
<1>0. /\ v.core \in [1..3 -> Nat] /\ w.core \in [1..3 -> Nat]
      /\ v.prerelease \in Seq(Ids) /\ w.prerelease \in Seq(Ids)
  BY DEF VersionsOver
<1>1. PICK differ : differ = {i \in 1..3 : v.core[i] # w.core[i]}
  OBVIOUS
<1>2. CASE differ = {}
  <2>1. CompareVersions(v, w) = ComparePrerelease(v.prerelease, w.prerelease)
    BY <1>1, <1>2 DEF CompareVersions
  <2>2. \A j \in 1..3 : v.core[j] = w.core[j]
    BY <1>1, <1>2
  <2>3. Precedes(w, v) <=> PrereleasePrecedes(w.prerelease, v.prerelease)
    BY <1>0, <2>2 DEF Precedes
  <2> QED BY <1>0, <2>1, <2>3, PrereleasesAreOrdered
<1>3. CASE differ # {}
  <2>1. PICK m : m = Min(differ)
    OBVIOUS
  <2>2. CompareVersions(v, w) = v.core[m] - w.core[m]
    BY <1>1, <1>3, <2>1 DEF CompareVersions
  <2>3. m \in differ /\ \A x \in differ : m <= x
    <3>1. differ \in SUBSET Nat
      BY <1>1
    <3> QED BY <1>3, <2>1, <3>1, MinIsLeast
  <2>4. m \in 1..3 /\ v.core[m] # w.core[m] /\ \A j \in 1..(m - 1) : v.core[j] = w.core[j]
    BY <1>1, <2>3
  <2>5. Precedes(w, v) <=> w.core[m] < v.core[m]
    <3>1. ASSUME w.core[m] < v.core[m] PROVE Precedes(w, v)
      BY <2>4, <3>1 DEF Precedes
    <3>2. ASSUME NEW i \in 1..3, w.core[i] < v.core[i], \A j \in 1..(i - 1) : w.core[j] = v.core[j]
          PROVE  i = m
      BY <1>0, <2>4, <3>2
    <3> QED BY <2>4, <3>1, <3>2 DEF Precedes
  <2> QED BY <1>0, <2>2, <2>4, <2>5
<1> QED BY <1>2, <1>3

(* No version is both before and after another, and the order is           *)
(* transitive: a chain of updates that all go forward never comes back.    *)
THEOREM PrecedenceIsAnOrder ==
    ASSUME NEW Ids, AreIdentifiers(Ids),
           NEW u \in VersionsOver(Ids), NEW v \in VersionsOver(Ids), NEW w \in VersionsOver(Ids)
    PROVE  /\ Precedes(u, v) => ~Precedes(v, u)
           /\ Precedes(u, v) /\ Precedes(v, w) => Precedes(u, w)
<1>0. /\ u.core \in [1..3 -> Nat] /\ v.core \in [1..3 -> Nat] /\ w.core \in [1..3 -> Nat]
      /\ u.prerelease \in Seq(Ids) /\ v.prerelease \in Seq(Ids) /\ w.prerelease \in Seq(Ids)
  BY DEF VersionsOver
<1> DEFINE CoreAt(x, y, i) == x.core[i] < y.core[i] /\ \A j \in 1..(i - 1) : x.core[j] = y.core[j]
           SameCore(x, y) == \A j \in 1..3 : x.core[j] = y.core[j]
<1>1. Precedes(u, v) => ~Precedes(v, u)
  <2>1. ASSUME NEW i \in 1..3, CoreAt(u, v, i) PROVE ~Precedes(v, u)
    BY <1>0, <2>1 DEF Precedes
  <2>2. ASSUME SameCore(u, v), PrereleasePrecedes(u.prerelease, v.prerelease)
        PROVE  ~Precedes(v, u)
    <3>1. ~PrereleasePrecedes(v.prerelease, u.prerelease)
      BY <1>0, <2>2, PrereleasesAsymmetric
    <3>2. \A i \in 1..3 : ~(v.core[i] < u.core[i])
      BY <1>0, <2>2
    <3> QED BY <3>1, <3>2 DEF Precedes
  <2> QED BY <2>1, <2>2 DEF Precedes
<1>2. ASSUME Precedes(u, v), Precedes(v, w) PROVE Precedes(u, w)
  <2>1. ASSUME NEW i \in 1..3, CoreAt(u, v, i), NEW k \in 1..3, CoreAt(v, w, k)
        PROVE  \E n \in 1..3 : CoreAt(u, w, n)
    <3>1. CASE i < k
      <4>1. v.core[i] = w.core[i] /\ \A j \in 1..(i - 1) : v.core[j] = w.core[j]
        BY <2>1, <3>1
      <4>2. CoreAt(u, w, i)
        BY <2>1, <4>1
      <4> QED BY <4>2
    <3>2. CASE i = k
      <4>1. u.core[i] < v.core[i] /\ v.core[i] < w.core[i]
        BY <2>1, <3>2
      <4>2. u.core[i] \in Nat /\ v.core[i] \in Nat /\ w.core[i] \in Nat
        BY <1>0
      <4>3. u.core[i] < w.core[i]
        BY <4>1, <4>2
      <4>4. \A j \in 1..(i - 1) : u.core[j] = w.core[j]
        BY <2>1, <3>2
      <4> QED BY <4>3, <4>4
    <3>3. CASE k < i
      <4>1. u.core[k] = v.core[k] /\ \A j \in 1..(k - 1) : u.core[j] = v.core[j]
        BY <2>1, <3>3
      <4>2. CoreAt(u, w, k)
        BY <2>1, <4>1
      <4> QED BY <4>2
    <3> QED BY <3>1, <3>2, <3>3
  <2>2. ASSUME NEW i \in 1..3, CoreAt(u, v, i), SameCore(v, w)
        PROVE  CoreAt(u, w, i)
    BY <1>0, <2>2
  <2>3. ASSUME SameCore(u, v), NEW k \in 1..3, CoreAt(v, w, k)
        PROVE  CoreAt(u, w, k)
    BY <1>0, <2>3
  <2>4. ASSUME SameCore(u, v), PrereleasePrecedes(u.prerelease, v.prerelease),
               SameCore(v, w), PrereleasePrecedes(v.prerelease, w.prerelease)
        PROVE  SameCore(u, w) /\ PrereleasePrecedes(u.prerelease, w.prerelease)
    BY <1>0, <2>4, PrereleasesTransitive
  <2>5. \/ \E i \in 1..3 : CoreAt(u, v, i)
        \/ SameCore(u, v) /\ PrereleasePrecedes(u.prerelease, v.prerelease)
    BY <1>2 DEF Precedes
  <2>6. \/ \E i \in 1..3 : CoreAt(v, w, i)
        \/ SameCore(v, w) /\ PrereleasePrecedes(v.prerelease, w.prerelease)
    BY <1>2 DEF Precedes
  <2>7. (\E i \in 1..3 : CoreAt(u, w, i)) => Precedes(u, w)
    BY DEF Precedes
  <2>8. SameCore(u, w) /\ PrereleasePrecedes(u.prerelease, w.prerelease) => Precedes(u, w)
    BY DEF Precedes
  <2> QED BY <2>1, <2>2, <2>3, <2>4, <2>5, <2>6, <2>7, <2>8
<1> QED BY <1>1, <1>2

------------------------------------------------------------------------------
(* Updates.                                                                *)

(* The first state: nothing is staged, and no release has sequence 0.      *)
LEMMA UpdateInitInv == UpdateInit => UpdateInv
BY UpdateAssumption
DEF UpdateInit, UpdateInv, UpdateTypes, AcceptedIsStaged, StagingIsNewer, RunsNothingNewer, NoUpdate

(* A manifest and the downloaded package are verified.                     *)
LEMMA VerifyStep ==
    ASSUME UpdateInv, NEW r \in Releases, Verify(r)
    PROVE  UpdateInv'
<1>0. UpdateTypes /\ AcceptedIsStaged /\ RunsNothingNewer
  BY DEF UpdateInv
<1>1. UpdateTypes'
  BY <1>0 DEF UpdateTypes, Verify, To
<1>2. AcceptedIsStaged' /\ RunsNothingNewer'
  BY <1>0 DEF AcceptedIsStaged, RunsNothingNewer, Verify
<1>3. StagingIsNewer'
  BY DEF StagingIsNewer, Verify, To, Acceptable
<1> QED BY <1>1, <1>2, <1>3 DEF UpdateInv

(* The package is copied: an accepted release keeps its file.              *)
LEMMA CopyStep ==
    ASSUME UpdateInv, NEW r \in Releases, Copy(r)
    PROVE  UpdateInv'
<1>0. UpdateTypes /\ AcceptedIsStaged /\ StagingIsNewer /\ RunsNothingNewer
  BY DEF UpdateInv
<1>1. CASE r \in DOMAIN staged
  BY <1>0, <1>1 DEF UpdateInv, UpdateTypes, AcceptedIsStaged, StagingIsNewer, RunsNothingNewer,
     Copy, NoUpdate
<1>2. CASE r \notin DOMAIN staged
  <2>1. /\ update' = [at |-> "copied", release |-> {r}]
        /\ update.at = "verified" /\ r \in update.release
        /\ staged' = [q \in DOMAIN staged \cup {r} |-> IF q = r THEN download ELSE staged[q]]
        /\ UNCHANGED <<state, download, current>>
    BY <1>2 DEF Copy, At, To, WithCopy
  <2>2. UpdateTypes'
    BY <1>0, <2>1 DEF UpdateTypes
  <2>3. AcceptedIsStaged'
    BY <1>0, <1>2, <2>1 DEF AcceptedIsStaged
  <2>4. StagingIsNewer'
    BY <1>0, <2>1 DEF StagingIsNewer, Acceptable
  <2>5. RunsNothingNewer'
    BY <1>0, <2>1 DEF RunsNothingNewer
  <2> QED BY <2>2, <2>3, <2>4, <2>5 DEF UpdateInv
<1> QED BY <1>1, <1>2

(* A copy that is taken back is not that of the accepted release.          *)
LEMMA CopyTakenBack ==
    ASSUME UpdateInv, NEW r \in Releases, r \in update.release, update.at # "idle",
           update' = NoUpdate, staged' = Unstaged(r), UNCHANGED <<state, download, current>>
    PROVE  UpdateInv'
<1>0. UpdateTypes /\ AcceptedIsStaged /\ StagingIsNewer /\ RunsNothingNewer
  BY DEF UpdateInv
<1>1. r.sequence > state.sequence
  BY <1>0 DEF StagingIsNewer, Acceptable
<1>2. UpdateTypes'
  BY <1>0 DEF UpdateTypes, Unstaged, NoUpdate
<1>3. AcceptedIsStaged'
  <2>1. state # [sequence |-> r.sequence, version |-> r.version]
    BY <1>0, <1>1, UpdateAssumption DEF UpdateTypes
  <2> QED BY <1>0, <2>1 DEF AcceptedIsStaged, Unstaged
<1>4. StagingIsNewer' /\ RunsNothingNewer'
  BY <1>0 DEF StagingIsNewer, RunsNothingNewer, NoUpdate
<1> QED BY <1>2, <1>3, <1>4 DEF UpdateInv

(* The copy is verified once more.                                         *)
LEMMA VerifyCopyStep ==
    ASSUME UpdateInv, NEW r \in Releases, VerifyCopy(r)
    PROVE  UpdateInv'
<1>0. UpdateTypes /\ AcceptedIsStaged /\ StagingIsNewer /\ RunsNothingNewer
  BY DEF UpdateInv
<1>1. CASE CopyIsGood(r)
  <2>1. /\ update' = [at |-> "persist", release |-> {r}]
        /\ update.at = "copied" /\ r \in update.release /\ staged[r] = "signed"
        /\ UNCHANGED <<staged, state, download, current>>
    BY <1>1 DEF VerifyCopy, CopyIsGood, At, To
  <2> QED BY <1>0, <2>1 DEF UpdateInv, UpdateTypes, AcceptedIsStaged, StagingIsNewer,
          RunsNothingNewer, Acceptable
<1>2. CASE ~CopyIsGood(r)
  BY <1>2, CopyTakenBack DEF VerifyCopy, At
<1> QED BY <1>1, <1>2

(* The release becomes the accepted one, or its copy is taken back.        *)
LEMMA PersistStep ==
    ASSUME UpdateInv, NEW r \in Releases, Persist(r)
    PROVE  UpdateInv'
<1>0. UpdateTypes /\ AcceptedIsStaged /\ StagingIsNewer /\ RunsNothingNewer
  BY DEF UpdateInv
<1>1. CASE state' = [sequence |-> r.sequence, version |-> r.version] /\ UNCHANGED staged
  <2>1. /\ update' = NoUpdate /\ update.at = "persist" /\ r \in update.release
        /\ UNCHANGED <<download, current>>
    BY DEF Persist, At
  <2>2. UpdateTypes'
    BY <1>0, <1>1, <2>1, UpdateAssumption DEF UpdateTypes, NoUpdate
  <2>3. AcceptedIsStaged'
    <3> SUFFICES ASSUME NEW q \in Releases, state' = [sequence |-> q.sequence, version |-> q.version]
                 PROVE  q \in DOMAIN staged' /\ staged'[q] # "other"
      BY DEF AcceptedIsStaged
    <3>1. q = r
      BY <1>1, UpdateAssumption
    <3> QED BY <1>0, <1>1, <2>1, <3>1 DEF StagingIsNewer
  <2>4. StagingIsNewer'
    BY <2>1 DEF StagingIsNewer, NoUpdate
  <2>5. RunsNothingNewer'
    BY <1>0, <1>1, <2>1 DEF StagingIsNewer, RunsNothingNewer, Acceptable
  <2> QED BY <2>2, <2>3, <2>4, <2>5 DEF UpdateInv
<1>2. CASE UNCHANGED state /\ staged' = Unstaged(r)
  BY <1>2, CopyTakenBack DEF Persist, At
<1> QED BY <1>1, <1>2 DEF Persist

(* The accepted release is installed.                                      *)
LEMMA InstallStep ==
    ASSUME UpdateInv, NEW r \in Releases, Install(r)
    PROVE  UpdateInv'
<1>0. UpdateTypes /\ AcceptedIsStaged /\ StagingIsNewer /\ RunsNothingNewer
  BY DEF UpdateInv
<1>1. UpdateTypes' /\ AcceptedIsStaged'
  BY <1>0 DEF UpdateTypes, AcceptedIsStaged, Install
<1>2. StagingIsNewer'
  BY <1>0 DEF StagingIsNewer, Install
<1>3. RunsNothingNewer'
  BY DEF RunsNothingNewer, Install, Installable
<1> QED BY <1>1, <1>2, <1>3 DEF UpdateInv

(* A kill, and another program's changes: a signed copy becomes changed.   *)
LEMMA OutsideStep ==
    ASSUME UpdateInv, KillUpdate \/ ChangePackage
    PROVE  UpdateInv'
<1>0. UpdateTypes /\ AcceptedIsStaged /\ StagingIsNewer /\ RunsNothingNewer
  BY DEF UpdateInv
<1>1. CASE KillUpdate
  BY <1>0, <1>1 DEF UpdateInv, UpdateTypes, AcceptedIsStaged, StagingIsNewer, RunsNothingNewer,
     KillUpdate, NoUpdate
<1>2. CASE ChangePackage
  <2>1. /\ DOMAIN staged' = DOMAIN staged /\ download' \in {"signed", "other"}
        /\ staged' \in [DOMAIN staged -> {"signed", "other", "changed"}]
        /\ \A q \in DOMAIN staged : staged[q] # "other" => staged'[q] # "other"
        /\ UNCHANGED <<state, update, current>>
    BY <1>0, <1>2 DEF UpdateTypes, ChangePackage
  <2>2. UpdateTypes' /\ AcceptedIsStaged' /\ RunsNothingNewer'
    BY <1>0, <2>1 DEF UpdateTypes, AcceptedIsStaged, RunsNothingNewer
  <2>3. StagingIsNewer'
    BY <1>0, <2>1 DEF StagingIsNewer, Acceptable
  <2> QED BY <2>2, <2>3 DEF UpdateInv
<1> QED BY <1>1, <1>2

(* Every step keeps the invariant.                                         *)
LEMMA UpdateStepInv == UpdateInv /\ [UpdateNext]_updateVars => UpdateInv'
<1> SUFFICES ASSUME UpdateInv, [UpdateNext]_updateVars PROVE UpdateInv'
  OBVIOUS
<1>1. CASE UNCHANGED updateVars
  BY <1>1 DEF updateVars, UpdateInv, UpdateTypes, AcceptedIsStaged, StagingIsNewer,
     RunsNothingNewer, Acceptable
<1>2. CASE UpdateNext
  BY <1>2, VerifyStep, CopyStep, VerifyCopyStep, PersistStep, InstallStep, OutsideStep
  DEF UpdateNext
<1> QED BY <1>1, <1>2

(* The invariant of the updates holds for any set of signed releases, and  *)
(* however often a package is changed or the updater killed.               *)
THEOREM UpdateInvariant == UpdateSpec => []UpdateInv
BY UpdateInitInv, UpdateStepInv, PTL DEF UpdateSpec

(* stageVerifiedCandidate never leaves a state file that names a package   *)
(* which is not staged, or whose copy was not the signed package.          *)
THEOREM AcceptedReleaseIsStaged == UpdateSpec => []AcceptedIsStaged
<1>1. UpdateInv => AcceptedIsStaged
  BY DEF UpdateInv
<1> QED BY <1>1, UpdateInvariant, PTL
(* One step of the updates: a new running version is later, by             *)
(* compareVersions, than the old one, and so is a new accepted version,    *)
(* whose sequence is higher as well.                                       *)
LEMMA UpdatesGoForward ==
    ASSUME UpdateInv, UpdateNext
    PROVE  /\ current' # current => /\ CompareVersions(current', current) > 0
                                    /\ \E r \in Releases : current' = r.version
           /\ state' # state => /\ state'.sequence > state.sequence
                                /\ CompareVersions(state'.version, state.version) > 0
                                /\ \E r \in Releases : state'.version = r.version
<1> DEFINE Forward ==
           /\ current' # current => /\ CompareVersions(current', current) > 0
                                    /\ \E r \in Releases : current' = r.version
           /\ state' # state => /\ state'.sequence > state.sequence
                                /\ CompareVersions(state'.version, state.version) > 0
                                /\ \E r \in Releases : state'.version = r.version
<1>0. UpdateTypes /\ StagingIsNewer /\ RunsNothingNewer
  BY DEF UpdateInv
<1>1. ASSUME NEW r \in Releases, Verify(r) \/ Copy(r) \/ VerifyCopy(r) PROVE Forward
  BY <1>1 DEF Verify, Copy, VerifyCopy
<1>2. ASSUME NEW r \in Releases, Persist(r) PROVE Forward
  <2>1. Acceptable(r) /\ UNCHANGED current
    BY <1>0, <1>2 DEF Persist, At, StagingIsNewer
  <2> QED BY <1>2, <2>1 DEF Persist, Acceptable
<1>3. ASSUME NEW r \in Releases, Install(r) PROVE Forward
  <2>1. state.version = r.version /\ current' = r.version /\ UNCHANGED state
    BY <1>3 DEF Install, Installable
  <2> QED BY <1>0, <2>1 DEF RunsNothingNewer
<1>4. CASE KillUpdate \/ ChangePackage
  BY <1>4 DEF KillUpdate, ChangePackage
<1> QED BY <1>1, <1>2, <1>3, <1>4 DEF UpdateNext

(* The program and the accepted state never roll back, whatever signed     *)
(* manifests are replayed, if Precedence lists the versions that occur in  *)
(* the order of Semantic Versioning.                                       *)
THEOREM UpdatesNeverRollBack ==
    ASSUME NEW Ids, AreIdentifiers(Ids), Precedence \in Seq(VersionsOver(Ids)),
           \A i, j \in DOMAIN Precedence : i < j => Precedes(Precedence[i], Precedence[j]),
           Installed \in {Precedence[i] : i \in DOMAIN Precedence},
           \A r \in Releases : r.version \in {Precedence[i] : i \in DOMAIN Precedence}
    PROVE  UpdateSpec => NeverRollsBack
<1> DEFINE Listed == {Precedence[i] : i \in DOMAIN Precedence}
           InOrder == current \in Listed
           Step == /\ current' # current => PrecedenceOf(current') > PrecedenceOf(current)
                   /\ state' # state => /\ state'.sequence > state.sequence
                                        /\ PrecedenceOf(state'.version) > PrecedenceOf(state.version)
<1>1. ASSUME NEW v \in Listed, NEW w \in Listed, CompareVersions(v, w) > 0
      PROVE  PrecedenceOf(v) > PrecedenceOf(w)
  <2>1. /\ PrecedenceOf(v) \in DOMAIN Precedence /\ Precedence[PrecedenceOf(v)] = v
        /\ PrecedenceOf(w) \in DOMAIN Precedence /\ Precedence[PrecedenceOf(w)] = w
    BY DEF PrecedenceOf
  <2>2. PICK i, j \in DOMAIN Precedence : i = PrecedenceOf(v) /\ j = PrecedenceOf(w)
    BY <2>1
  <2>3. /\ i \in Nat /\ j \in Nat /\ Precedence[i] = v /\ Precedence[j] = w
        /\ v \in VersionsOver(Ids) /\ w \in VersionsOver(Ids)
    BY <2>1, <2>2
  <2>4. Precedes(w, v)
    BY <1>1, <2>3, CompareVersionsIsPrecedence
  <2>5. i # j
    BY <2>3, <2>4, PrecedenceIsAnOrder
  <2>6. ~(i < j)
    BY <2>2, <2>3, <2>4, PrecedenceIsAnOrder
  <2> QED BY <2>2, <2>3, <2>5, <2>6
<1>2. UpdateInit => InOrder
  BY DEF UpdateInit
<1>3. UpdateInv /\ InOrder /\ UpdateNext => InOrder' /\ Step
  <2> SUFFICES ASSUME UpdateInv, InOrder, UpdateNext PROVE InOrder' /\ Step
    OBVIOUS
  <2>1. state.version \in Listed
    BY DEF UpdateInv, UpdateTypes
  <2>2. current' # current => current' \in Listed /\ CompareVersions(current', current) > 0
    BY UpdatesGoForward
  <2>3. state' # state => /\ state'.version \in Listed
                          /\ state'.sequence > state.sequence
                          /\ CompareVersions(state'.version, state.version) > 0
    BY UpdatesGoForward
  <2>4. InOrder'
    BY <2>2
  <2>5. Step
    BY <1>1, <2>1, <2>2, <2>3
  <2> QED BY <2>4, <2>5
<1>4. InOrder /\ UNCHANGED updateVars => InOrder'
  BY DEF updateVars
<1>5. UpdateInv /\ InOrder /\ [UpdateNext]_updateVars => InOrder' /\ [Step]_updateVars
  BY <1>3, <1>4
<1> QED BY <1>2, <1>5, UpdateInvariant, PTL DEF UpdateSpec, NeverRollsBack
=============================================================================
