------------------------------ MODULE WebPush ------------------------------
(***************************************************************************)
(* Web Push subscriptions (web_push_store.py): POST /api/push/subscribe on *)
(* the threads of the server, a rate limit per address, and the store,     *)
(* which is a hash in Redis when the server could connect to it at its     *)
(* first use and a dictionary of the process when it could not             *)
(* (WEB_PUSH_STORE=1; without it the request is only logged).              *)
(* Time is in ticks of ten seconds.  Sending changes nothing here: it      *)
(* takes the first subscriptions of the store and removes none.            *)
(***************************************************************************)
EXTENDS Integers, Sequences, FiniteSets

CONSTANTS Browsers,  \* subscribers, all behind one address, one request each
          Limit,     \* WEB_PUSH_SUBSCRIBE_RATE_PER_MIN, 0 for none
          MaxSubs,   \* WEB_PUSH_STORE_MAX_SUBSCRIPTIONS, 0 for no bound
          Minute,    \* ticks of the sliding window
          KeyLife,   \* ticks a counter in Redis lives
          MaxClock, MaxRequests, MaxBoots  \* bounds, for model checking

ASSUME WebPushConstants ==
    /\ Limit \in Nat /\ MaxSubs \in Nat /\ Minute \in Nat /\ KeyLife \in Nat \ {0}
    /\ MaxClock \in Nat /\ MaxRequests \in Nat /\ MaxBoots \in Nat

VARIABLES url,     \* WEB_PUSH_REDIS_URL is set
          client,  \* _redis_client: unset, connected, or False for good
          counter, \* the counter of the address in Redis and when it expires
          hash,    \* the fields of webpush:subscriptions in Redis
          hits,    \* _IP_HITS of the address
          byFp,    \* _BY_FP: [fingerprint -> updated_at]
          req,     \* [Browsers -> where its request is]
          clock,
          \* what happened so far
          requests, boots,
          passed,  \* times at which the memory limit let a request through
          granted, \* requests the counter let through since it was created
          ack,     \* [Browsers -> what its last answered request was told]
          failed   \* the browsers whose HSET failed, and "expire" when a counter's
                   \* creator could not set its end

pushVars == <<url, client, counter, hash, hits, byFp, req, clock,
              requests, boots, passed, granted, ack, failed>>

Never     == -1
NoCounter == [n |-> 0, expires |-> Never]
Idle      == [at |-> "none", stamp |-> 0]
Untold    == [by |-> "none", stamp |-> 0]

PushInit ==
    /\ url \in BOOLEAN
    /\ client = "unset"
    /\ counter = NoCounter /\ hash = {} /\ hits = <<>>
    /\ byFp = [b \in {} |-> 0]
    /\ req = [b \in Browsers |-> Idle]
    /\ clock = 0 /\ requests = 0 /\ boots = 1 /\ passed = <<>> /\ granted = 0
    /\ ack = [b \in Browsers |-> Untold]
    /\ failed = {}

At(b, place) == req' = [req EXCEPT ![b] = [at |-> place, stamp |-> requests]]

(***************************************************************************)
(* The rate limit.                                                         *)
(***************************************************************************)

(* _prune_ip_hits: what it keeps of the first i hits, for every i.         *)
Recent(kept, t) == IF t >= clock - Minute THEN Append(kept, t) ELSE kept

Pruning(h) ==
    LET kept[i \in 0..Len(h)] == IF i = 0 THEN << >> ELSE Recent(kept[i - 1], h[i])
    IN  kept

Fresh(h) == Pruning(h)[Len(h)]

(* _rate_limited_memory: asks and counts under one lock.                   *)
MemoryLimit(b) ==
    IF Limit > 0 /\ Len(Fresh(hits)) >= Limit
    THEN /\ hits' = Fresh(hits)
         /\ At(b, "none")
         /\ UNCHANGED passed
    ELSE /\ hits' = IF Limit > 0 THEN Append(Fresh(hits), clock) ELSE hits
         /\ passed' = Append(passed, clock)
         /\ At(b, "store")

(* A request comes in.  The first one of the process connects to Redis; if *)
(* that fails, _redis_client is False and nothing asks again.              *)
Subscribe(b) ==
    /\ req[b].at = "none" /\ requests < MaxRequests
    /\ requests' = requests + 1
    /\ client' \in IF client # "unset" THEN {client}
                   ELSE IF url THEN {"connected", "False"} ELSE {"unset"}
    /\ IF client' = "connected"
       THEN At(b, "incr") /\ UNCHANGED <<hits, passed>>
       ELSE MemoryLimit(b)
    /\ UNCHANGED <<url, counter, hash, byFp, clock, boots, granted, ack, failed>>

(* Redis does not answer: the memory limit decides.  What Redis was asked  *)
(* may be done all the same; who created the counter without learning it   *)
(* sets no expiry.                                                         *)
RedisFails(b) ==
    /\ \/ /\ req[b].at = "incr" /\ Limit > 0
          /\ \/ UNCHANGED <<counter, granted, failed>>
             \/ /\ counter' = [counter EXCEPT !.n = @ + 1]
                /\ granted' = IF counter.n = 0 THEN 0 ELSE granted
                /\ failed' = IF counter.n = 0 THEN failed \union {"expire"} ELSE failed
       \/ /\ req[b].at = "expire"
          /\ counter' \in {counter, [counter EXCEPT !.expires = clock + KeyLife]}
          /\ failed' = failed \union {"expire"}
          /\ UNCHANGED granted
    /\ MemoryLimit(b)
    /\ UNCHANGED <<url, client, hash, byFp, clock, requests, boots, ack>>

(* Lets one request too many through. *)
Incr_Mutant_OffByOne(b) ==
    /\ req[b].at = "incr"
    /\ counter' = [counter EXCEPT !.n = @ + 1]
    /\ IF counter'.n = 1 THEN At(b, "expire") /\ granted' = 1
       ELSE IF Limit > 0 /\ counter'.n > Limit + 1 THEN At(b, "none") /\ UNCHANGED granted
       ELSE At(b, "store") /\ granted' = granted + 1
    /\ UNCHANGED <<url, client, hash, hits, byFp, clock, requests, boots, passed, ack, failed>>

(* INCR; the call that created the counter goes on to set its expiry.      *)
Incr(b) ==
    /\ req[b].at = "incr"
    /\ IF Limit = 0
       THEN At(b, "store") /\ UNCHANGED <<counter, granted>>
       ELSE /\ counter' = [counter EXCEPT !.n = @ + 1]
            /\ IF counter'.n = 1 THEN At(b, "expire") /\ granted' = 1
               ELSE IF counter'.n > Limit THEN At(b, "none") /\ UNCHANGED granted
               ELSE At(b, "store") /\ granted' = granted + 1
    /\ UNCHANGED <<url, client, hash, hits, byFp, clock, requests, boots, passed, ack, failed>>

Expire(b) ==
    /\ req[b].at = "expire"
    /\ counter' = [counter EXCEPT !.expires = clock + KeyLife]
    /\ At(b, "store")
    /\ UNCHANGED <<url, client, hash, hits, byFp, clock, requests, boots,
                   passed, granted, ack, failed>>

(***************************************************************************)
(* The store.                                                              *)
(***************************************************************************)

(* Makes room by dropping the newest. *)
Trimmed_Mutant_Newest(m) ==
    IF MaxSubs = 0 \/ Cardinality(DOMAIN m) <= MaxSubs THEN m
    ELSE LET newest == CHOOSE b \in DOMAIN m : \A k \in DOMAIN m : m[k] <= m[b]
         IN  [k \in DOMAIN m \ {newest} |-> m[k]]

(* _trim_memory_store: one entry came in, so at most one goes.             *)
Trimmed(m) ==
    IF MaxSubs = 0 \/ Cardinality(DOMAIN m) <= MaxSubs THEN m
    ELSE LET oldest == CHOOSE b \in DOMAIN m : \A k \in DOMAIN m : m[b] <= m[k]
         IN  [k \in DOMAIN m \ {oldest} |-> m[k]]

Answer(b, by) ==
    /\ At(b, "none")
    /\ ack' = [ack EXCEPT ![b] = [by |-> by, stamp |-> req[b].stamp]]

(* HSET; a failure is logged and the answer is stored: True all the same.  *)
StoreInRedis(b) ==
    /\ req[b].at = "store" /\ client = "connected"
    /\ \/ hash' = hash \union {b} /\ UNCHANGED failed
       \/ UNCHANGED hash /\ failed' = failed \union {b}
    /\ Answer(b, "redis")
    /\ UNCHANGED <<url, client, counter, hits, byFp, clock, requests, boots, passed, granted>>

(* updated_at was taken before the lock, so a request that is late may be  *)
(* the oldest entry at once.                                               *)
StoreInMemory(b) ==
    /\ req[b].at = "store" /\ client # "connected"
    /\ byFp' = Trimmed([k \in DOMAIN byFp \union {b} |->
                           IF k = b THEN req[b].stamp ELSE byFp[k]])
    /\ Answer(b, "memory")
    /\ UNCHANGED <<url, client, counter, hash, hits, clock, requests, boots,
                   passed, granted, failed>>

(* Redis drops the counter as its time is up.                              *)
Tick ==
    /\ clock < MaxClock
    /\ clock' = clock + 1
    /\ counter' = IF counter.expires = clock' THEN NoCounter ELSE counter
    /\ UNCHANGED <<url, client, hash, hits, byFp, req, requests, boots,
                   passed, granted, ack, failed>>

(* The server is started anew, or scaled to zero and back.                 *)
Reboot ==
    /\ boots < MaxBoots
    /\ boots' = boots + 1
    /\ client' = "unset" /\ hits' = <<>> /\ passed' = <<>>
    /\ byFp' = [b \in {} |-> 0]
    /\ failed' = IF \E b \in Browsers : req[b].at = "expire" THEN failed \union {"expire"}
                 ELSE failed
    /\ req' = [b \in Browsers |-> Idle]
    /\ ack' = [b \in Browsers |-> IF ack[b].by = "memory" THEN Untold ELSE ack[b]]
    /\ UNCHANGED <<url, counter, hash, clock, requests, granted>>

PushNext ==
    \/ Tick \/ Reboot
    \/ \E b \in Browsers : \/ Subscribe(b) \/ RedisFails(b) \/ Incr(b) \/ Expire(b)
                           \/ StoreInRedis(b) \/ StoreInMemory(b)

PushSpec == PushInit /\ [][PushNext]_pushVars

(***************************************************************************)
(* Properties.                                                             *)
(***************************************************************************)
PushTypeOK ==
    /\ client \in {"unset", "connected", "False"}
    /\ client # "unset" => url
    /\ counter.n \in Nat /\ counter.expires \in {Never} \union clock + 1 .. clock + KeyLife
    /\ hash \subseteq Browsers /\ DOMAIN byFp \subseteq Browsers
    /\ hits \in Seq(0..clock)
    /\ \A b \in Browsers : req[b].at \in {"none", "incr", "expire", "store"}

(* The memory limit is one of a sliding minute: of Limit + 1 requests it   *)
(* let through, in whatever order their threads came, the first and the    *)
(* last are more than a minute apart.  The counter in Redis lets Limit     *)
(* through in its life.                                                    *)
NoneTooMany ==
    Limit > 0 =>
        /\ \A i \in 1..(Len(passed) - Limit) : passed[i + Limit] - passed[i] > Minute
        /\ granted <= Limit

(* A counter has an end, and with it a refusal, unless the one request     *)
(* that had to set it is on its way, or could not: it did not learn that   *)
(* it created the counter, EXPIRE failed, or the server died in between.   *)
(* Nothing repairs that: the address is then refused for good.             *)
RefusalEnds ==
    counter.n > 0 /\ counter.expires = Never =>
        "expire" \in failed \/ \E b \in Browsers : req[b].at = "expire"

(* The rate limit of an address lets no more through than it should, and   *)
(* shuts it out for good in that one case alone.                           *)
LimitKept == NoneTooMany /\ RefusalEnds

(* A subscription answered with stored: True is in the store, unless HSET  *)
(* failed; in memory it may have made room, for newer ones only.           *)
AckKept ==
    \A b \in Browsers :
        /\ ack[b].by = "redis" => b \in hash \union failed
        /\ ack[b].by = "memory" /\ b \notin DOMAIN byFp =>
               /\ Cardinality(DOMAIN byFp) = MaxSubs
               /\ \A k \in DOMAIN byFp : byFp[k] > ack[b].stamp
=============================================================================
