----------------------------- MODULE ThreatIntel -----------------------------
(***************************************************************************)
(* Threat intelligence of the desktop service: the MalwareBazaar client,   *)
(* the cache with its file, and the service that looks a hash up in the    *)
(* cache, then in the database, and now and then imports the database's    *)
(* recent feed.  A call stands at one of its awaits; what runs up to the   *)
(* next one is a step.  The database's answer is fixed when it answers and *)
(* may be read much later.                                                 *)
(***************************************************************************)
EXTENDS Naturals, FiniteSets

CONSTANTS
    Hashes,        \* SHA-256 values of scanned and of published samples
    Lookups,       \* bound: calls of lookupSha256 at once
    FoundTtl, NotFoundTtl, SyncInterval,   \* in ticks of the clock
    MaxEntries,    \* maxEntries of the cache
    MaxNow,        \* bound: ticks
    MaxIntelFaults \* bound: failed requests, reads and writes

ASSUME IntelAssumption ==
    /\ FoundTtl \in Nat /\ NotFoundTtl \in Nat /\ SyncInterval \in Nat
    /\ MaxEntries \in Nat /\ MaxNow \in Nat /\ MaxIntelFaults \in Nat

VARIABLES
    published,   \* hashes the database lists as malware
    entries,     \* ThreatIntelCache.entries: hash -> [status, at]
    loaded,      \* ThreatIntelCache.loaded
    file,        \* the cache file: its entries, and whether they all validate
    lookup,      \* Lookups -> a call of lookupSha256
    sync,        \* the call behind _recentSyncPromise
    lastSync,    \* lastRecentSyncAttemptAt
    now, intelFaults

intelVars == <<published, entries, loaded, file, lookup, sync, lastSync, now, intelFaults>>

(* An entry: the status, cachedAt, and (history) when the service really   *)
(* put what the database said.                                             *)
Entry(status, t) == [status |-> status, at |-> t, said |-> t]
Ttl(status) == IF status = "known_malicious" THEN FoundTtl ELSE NotFoundTtl
Expired(e, t) == e.at + Ttl(e.status) <= t
Without(es, gone) == [h \in DOMAIN es \ gone |-> es[h]]

(* hash: what is asked.  asked: get's `now'.  live: the database's answer. *)
(* doc: the entries about to be written.  answer: what the call returns.   *)
(* of: what is known of the entry it is from.                              *)
NoLookup == [at |-> "idle", hash |-> {}, asked |-> 0, live |-> "none", doc |-> <<>>,
             answer |-> "none", of |-> 0]
NoSync == [at |-> "idle", feed |-> {}, doc |-> <<>>]

(* The file of an earlier run, or none; it may be damaged after a first    *)
(* entry that reads like a detection.                                      *)
FileInit ==
    \/ file = [ok |-> TRUE, list |-> <<>>]
    \/ \E h \in Hashes : file = [ok |-> FALSE, list |-> [k \in {h} |-> Entry("known_malicious", 0)]]
    \/ \E h \in published : file = [ok |-> TRUE, list |-> [k \in {h} |-> Entry("known_malicious", 0)]]
    \/ \E h \in Hashes : file = [ok |-> TRUE, list |-> [k \in {h} |-> Entry("not_found", 0)]]

IntelInit ==
    /\ published \in SUBSET Hashes
    /\ FileInit
    /\ entries = <<>> /\ loaded = FALSE
    /\ lookup = [c \in Lookups |-> NoLookup]
    /\ sync = NoSync /\ lastSync = 0 /\ now = 0
    /\ intelFaults = 0

IntelFault == intelFaults < MaxIntelFaults /\ intelFaults' = intelFaults + 1

------------------------------------------------------------------------------
(* ThreatIntelCache.                                                       *)

(* _prune: expired entries go, then the oldest beyond the limit.           *)
Pruned(es) ==
    LET fresh == {h \in DOMAIN es : ~Expired(es[h], now)}
        kept == CHOOSE k \in SUBSET fresh :
                  /\ Cardinality(k) = IF Cardinality(fresh) > MaxEntries
                                      THEN MaxEntries ELSE Cardinality(fresh)
                  /\ \A h \in k, g \in fresh \ k : es[h].at >= es[g].at
    IN Without(es, DOMAIN es \ kept)

(* put and putMany: the entries are set, then pruned.                      *)
Stored(es, hs, status) ==
    Pruned([h \in DOMAIN es \cup hs |-> IF h \in hs THEN Entry(status, now) ELSE es[h]])

(* Mutant of LoadedFrom: entries read before the invalid one stay.         *)
LoadedFromPartly(f, es) ==
    Pruned([h \in DOMAIN es \cup DOMAIN f.list |->
              IF h \in DOMAIN f.list THEN f.list[h] ELSE es[h]])

(* Mutant of LoadedFrom: what is read counts as said when it is read.      *)
LoadedFromFresh(f, es) ==
    IF ~f.ok THEN <<>>
    ELSE Pruned([h \in DOMAIN es \cup DOMAIN f.list |->
                   IF h \in DOMAIN f.list THEN [f.list[h] EXCEPT !.at = now] ELSE es[h]])

(* load: what the file holds replaces what was put meanwhile, and then the *)
(* cache is pruned; an invalid file empties it, and a missing one, or one  *)
(* without entries, leaves it.                                             *)
LoadedFrom(f, es) ==
    IF ~f.ok THEN <<>>
    ELSE IF f.list = <<>> THEN es
    ELSE Pruned([h \in DOMAIN es \cup DOMAIN f.list |->
                   IF h \in DOMAIN f.list THEN f.list[h] ELSE es[h]])

(* Mutant of Hit: any entry is served.                                     *)
HitAnyAge(es, h, asked) == h \in DOMAIN es

Hit(es, h, asked) == h \in DOMAIN es /\ ~Expired(es[h], asked)

(* get, after load, by the clock before it: an answer from the cache, or   *)
(* a request to the database.                                              *)
Get(c, h, es, asked) ==
    /\ entries' = IF h \in DOMAIN es /\ ~Hit(es, h, asked) THEN Without(es, {h}) ELSE es
    /\ lookup' = [lookup EXCEPT ![c] =
         IF Hit(es, h, asked)
         THEN [NoLookup EXCEPT !.at = "done", !.hash = {h}, !.asked = asked,
                               !.answer = es[h].status, !.of = es[h].said]
         ELSE [NoLookup EXCEPT !.at = "request", !.hash = {h}]]

------------------------------------------------------------------------------
(* ThreatIntelService.lookupSha256.                                        *)

(* _triggerRecentSyncIfDue.                                                *)
TriggerSync ==
    IF now - lastSync < SyncInterval \/ sync.at # "idle"
    THEN UNCHANGED <<sync, lastSync>>
    ELSE sync' = [NoSync EXCEPT !.at = "request"] /\ lastSync' = now

(* The first caller reads the file; while it does, the cache passes for    *)
(* loaded and the others look into what is there.                          *)
Lookup(c, h) ==
    /\ lookup[c].at \in {"idle", "done"}
    /\ TriggerSync
    /\ loaded' = TRUE
    /\ IF loaded THEN Get(c, h, entries, now)
       ELSE /\ lookup' = [lookup EXCEPT ![c] =
                 [NoLookup EXCEPT !.at = "load", !.hash = {h}, !.asked = now]]
            /\ UNCHANGED entries
    /\ UNCHANGED <<published, file, now, intelFaults>>

Load(c) ==
    /\ lookup[c].at = "load"
    /\ \E h \in lookup[c].hash :
         \/ Get(c, h, LoadedFrom(file, entries), lookup[c].asked) /\ UNCHANGED intelFaults
         \/ IntelFault /\ Get(c, h, entries, lookup[c].asked)
    /\ UNCHANGED <<published, loaded, file, sync, lastSync, now>>

Returns(c, answer) ==
    lookup' = [lookup EXCEPT ![c].at = "done", ![c].answer = answer, ![c].doc = <<>>]

(* MalwareBazaarClient.lookupSha256: the database answers, or the client   *)
(* says why it has no answer (no key, timeout, a status or a body it does  *)
(* not accept).                                                            *)
Respond(c) ==
    /\ lookup[c].at = "request"
    /\ \/ /\ lookup' = [lookup EXCEPT ![c].at = "answered", ![c].live =
               IF lookup[c].hash \subseteq published THEN "known_malicious" ELSE "not_found"]
          /\ UNCHANGED intelFaults
       \/ IntelFault /\ Returns(c, "unavailable")
    /\ UNCHANGED <<published, entries, loaded, file, sync, lastSync, now>>

(* The body has been read: the answer is put, whatever is there by now.    *)
Put(c) ==
    /\ lookup[c].at = "answered"
    /\ \/ /\ entries' = Stored(entries, lookup[c].hash, lookup[c].live)
          /\ lookup' = [lookup EXCEPT ![c].at = "mkdir"]
          /\ UNCHANGED intelFaults
       \/ IntelFault /\ Returns(c, "unavailable") /\ UNCHANGED entries
    /\ UNCHANGED <<published, loaded, file, sync, lastSync, now>>

(* save: the entries are written out to a temporary file, which is then    *)
(* renamed.  A save that fails rejects the lookup, and the scanner takes   *)
(* the service for unavailable.                                            *)
Save(c) ==
    /\ \/ /\ lookup[c].at = "mkdir"
          /\ \/ /\ lookup' = [lookup EXCEPT ![c].at = "rename", ![c].doc = entries]
                /\ UNCHANGED <<file, intelFaults>>
             \/ IntelFault /\ Returns(c, "unavailable") /\ UNCHANGED file
       \/ /\ lookup[c].at = "rename"
          /\ \/ /\ file' = [ok |-> TRUE, list |-> lookup[c].doc]
                /\ Returns(c, lookup[c].live) /\ UNCHANGED intelFaults
             \/ IntelFault /\ Returns(c, "unavailable") /\ UNCHANGED file
    /\ UNCHANGED <<published, entries, loaded, sync, lastSync, now>>

------------------------------------------------------------------------------
(* syncRecent, behind _recentSyncPromise.                                  *)

(* Mutant of SyncOver: the promise of a failed import stays.               *)
SyncOverIfSaved == IF sync.at = "rename" THEN sync' = NoSync ELSE UNCHANGED sync

(* The finally of the promise.                                             *)
SyncOver == sync' = NoSync

(* listRecent answers with the feed, or with why there is none.            *)
SyncRespond ==
    /\ sync.at = "request"
    /\ \/ sync' = [sync EXCEPT !.at = "answered", !.feed = published] /\ UNCHANGED intelFaults
       \/ IntelFault /\ SyncOver
    /\ UNCHANGED <<published, entries, loaded, file, lookup, lastSync, now>>

(* putMany: an empty feed is not saved.                                    *)
SyncPut ==
    /\ sync.at = "answered"
    /\ entries' = IF sync.feed = {} THEN entries ELSE Stored(entries, sync.feed, "known_malicious")
    /\ IF sync.feed = {} THEN SyncOver ELSE sync' = [sync EXCEPT !.at = "mkdir"]
    /\ UNCHANGED <<published, loaded, file, lookup, lastSync, now, intelFaults>>

SyncSave ==
    /\ \/ /\ sync.at = "mkdir"
          /\ \/ /\ sync' = [sync EXCEPT !.at = "rename", !.doc = entries]
                /\ UNCHANGED <<file, intelFaults>>
             \/ IntelFault /\ SyncOver /\ UNCHANGED file
       \/ /\ sync.at = "rename"
          /\ \/ file' = [ok |-> TRUE, list |-> sync.doc] /\ UNCHANGED intelFaults
             \/ IntelFault /\ UNCHANGED file
          /\ SyncOver
    /\ UNCHANGED <<published, entries, loaded, lookup, lastSync, now>>

------------------------------------------------------------------------------
(* Outside the service.                                                    *)

Publish(h) ==
    /\ h \notin published /\ published' = published \cup {h}
    /\ UNCHANGED <<entries, loaded, file, lookup, sync, lastSync, now, intelFaults>>

IntelTick ==
    /\ now < MaxNow /\ now' = now + 1
    /\ UNCHANGED <<published, entries, loaded, file, lookup, sync, lastSync, intelFaults>>

(* The service is killed and started again; finished calls are forgotten.  *)
IntelRestart ==
    /\ IntelFault
    /\ entries' = <<>> /\ loaded' = FALSE /\ sync' = NoSync /\ lastSync' = 0
    /\ lookup' = [c \in Lookups |-> NoLookup]
    /\ UNCHANGED <<published, file, now>>

SyncStep == SyncRespond \/ SyncPut \/ SyncSave

IntelNext ==
    \/ \E c \in Lookups : \/ \E h \in Hashes : Lookup(c, h)
                          \/ Load(c) \/ Respond(c) \/ Put(c) \/ Save(c)
    \/ SyncStep
    \/ \E h \in Hashes : Publish(h)
    \/ IntelTick \/ IntelRestart

IntelSpec == IntelInit /\ [][IntelNext]_intelVars

(* Requests have a timeout and file operations end; for the body of an     *)
(* answer, whose timer is cleared, only the transport has one.             *)
IntelFairness == WF_intelVars(sync.at # "idle" /\ SyncStep)

------------------------------------------------------------------------------
(* No detection is made up: an answer "known malicious" names a hash that  *)
(* the database lists, also when the cache file was damaged, was read      *)
(* while another call put its answer, or was written by an overtaken save  *)
(* (what lookupSha256's comment on a corrupted local database demands).    *)
NoManufacturedVerdict ==
    \A c \in Lookups :
        lookup[c].answer = "known_malicious" => lookup[c].hash \subseteq published

(* What the cache answers was put, after the database had said it, less    *)
(* than its time to live before the lookup was made, however long the file *)
(* took to read: no age is lost when an entry goes through a save, the     *)
(* file, a restart, a load over newer entries or an import of the feed.    *)
CachedAnswerWithinTtl ==
    \A c \in Lookups :
        lookup[c].at = "done" /\ lookup[c].live = "none" /\ lookup[c].answer # "unavailable"
            => lookup[c].asked < lookup[c].of + Ttl(lookup[c].answer)

(* The import of the recent feed never stays "in flight": after a failed   *)
(* request, an empty feed or a failed write the next one can start.        *)
ImportEnds == sync.at # "idle" ~> sync.at = "idle"
------------------------------------------------------------------------------
(* The inductive invariant.                                                *)

CacheEntries == {e \in [status : {"known_malicious", "not_found"}, at : Nat, said : Nat] :
                    e.said = e.at}
IsCache(es) ==
    /\ DOMAIN es \subseteq Hashes
    /\ es = [h \in DOMAIN es |-> es[h]] /\ \A h \in DOMAIN es : es[h] \in CacheEntries

(* Entries as old as they say that take no hash outside known for malware. *)
Truthful(es, known) ==
    IsCache(es) /\ \A h \in DOMAIN es : es[h].status = "known_malicious" => h \in known

(* A call: what it has heard, what it is about to write, and its answer.   *)
CallIsTruthful(call, known) ==
    /\ call \in [at : {"idle", "load", "request", "answered", "mkdir", "rename", "done"},
                 hash : SUBSET Hashes, asked : Nat, live : {"none", "known_malicious", "not_found"},
                 doc : {call.doc}, answer : {"none", "known_malicious", "not_found", "unavailable"},
                 of : Nat]
    /\ Truthful(call.doc, known)
    /\ "known_malicious" \in {call.live, call.answer} => call.hash \subseteq known
    /\ call.at \in {"answered", "mkdir", "rename"} => call.live # "none"
    /\ call.at = "done" /\ call.live = "none" /\ call.answer # "unavailable"
         => call.asked < call.of + Ttl(call.answer)

SyncIsTruthful(import, known) ==
    /\ import \in [at : {"idle", "request", "answered", "mkdir", "rename"},
                   feed : SUBSET known, doc : {import.doc}]
    /\ Truthful(import.doc, known)

IntelInv ==
    /\ published \subseteq Hashes /\ now \in Nat
    /\ Truthful(entries, published)
    /\ file.ok => Truthful(file.list, published)
    /\ SyncIsTruthful(sync, published)
    /\ DOMAIN lookup = Lookups /\ lookup = [c \in Lookups |-> lookup[c]]
    /\ \A c \in Lookups : CallIsTruthful(lookup[c], published)
==============================================================================
