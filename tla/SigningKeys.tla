---------------------------- MODULE SigningKeys -----------------------------
(***************************************************************************)
(* The cache of the identity provider's signing keys (JWKS).               *)
(*                                                                         *)
(* Every request is authenticated with a token that names its signing key. *)
(* The request handlers share one cache: a handler looks its key up under  *)
(* the read lock, and when the key is missing or the cache is too old it   *)
(* fetches the key set again under the write lock, so that everybody else  *)
(* waits, and then looks again.  Meanwhile the provider publishes new keys *)
(* and retires old ones, and the clock goes on.                            *)
(***************************************************************************)
EXTENDS Naturals

CONSTANTS
  Handler,    \* request handlers
  Key,        \* key ids
  TTL,        \* how long a fetched key set is used (five minutes)
  FetchTime   \* timeout of the HTTP client (three seconds)

ASSUME KeysAssumption == TTL \in Nat \ {0} /\ FetchTime \in Nat

(* Time since a key was retired is counted up to here. *)
Overdue == TTL + FetchTime

VARIABLES
  status,    \* "new", "published" or "retired" at the identity provider
  since,     \* time since the key was retired, counted to Overdue
  keys,      \* a.keys
  freshIn,   \* time left until a.keysExpiresAt
  pc,        \* where each handler is
  kid,       \* the key id of its token
  force,     \* argument of its call of refreshKeys
  response,  \* key set in the answer of the provider
  fetchIn,   \* time left until the HTTP client gives up
  outcome,   \* how the last call of signingKey ended
  overdue,   \* history: the key was overdue when the call began
  steady     \* history: the key has been published since the call began

provider == <<status, since>>
cache == <<keys, freshIn>>
fetch == <<response, fetchIn>>
history == <<overdue, steady>>
keysVars == <<provider, cache, fetch, pc, kid, force, outcome, history>>

Published == {k \in Key : status[k] = "published"}

KeysTypeOK ==
  /\ status \in [Key -> {"new", "published", "retired"}]
  /\ since \in [Key -> 0..Overdue]
  /\ keys \in SUBSET Key
  /\ freshIn \in 0..TTL
  /\ pc \in [Handler -> {"idle", "lookup", "refresh", "fetch", "answered", "again"}]
  /\ kid \in [Handler -> Key]
  /\ force \in [Handler -> BOOLEAN]
  /\ response \in SUBSET Key
  /\ fetchIn \in 0..FetchTime
  /\ outcome \in [Handler -> {"none", "found", "not_found", "unavailable"}]
  /\ overdue \in [Handler -> BOOLEAN]
  /\ steady \in [Handler -> BOOLEAN]

KeysInit ==
  /\ status \in [Key -> {"new", "published"}]
  /\ since = [k \in Key |-> 0]
  /\ keys = {}
  /\ freshIn = 0
  /\ pc = [c \in Handler |-> "idle"]
  /\ \E k \in Key : kid = [c \in Handler |-> k]
  /\ force = [c \in Handler |-> FALSE]
  /\ response = {}
  /\ fetchIn = 0
  /\ outcome = [c \in Handler |-> "none"]
  /\ overdue = [c \in Handler |-> FALSE]
  /\ steady = [c \in Handler |-> FALSE]

-----------------------------------------------------------------------------
(* refreshKeys holds the write lock while it fetches. *)
Fetching(c) == pc[c] \in {"fetch", "answered"}
Unlocked == \A c \in Handler : ~Fetching(c)

Return(c, result) ==
  /\ pc' = [pc EXCEPT ![c] = "idle"]
  /\ outcome' = [outcome EXCEPT ![c] = result]

GoTo(c, step) == pc' = [pc EXCEPT ![c] = step] /\ UNCHANGED outcome

(* A token signed with RS256 is to be verified. *)
Call(c, k) ==
  /\ pc[c] = "idle"
  /\ pc' = [pc EXCEPT ![c] = "lookup"]
  /\ outcome' = [outcome EXCEPT ![c] = "none"]
  /\ kid' = [kid EXCEPT ![c] = k]
  /\ overdue' = [overdue EXCEPT ![c] = status[k] = "retired" /\ since[k] = Overdue]
  /\ steady' = [steady EXCEPT ![c] = status[k] = "published"]
  /\ UNCHANGED <<provider, cache, fetch, force>>

(* Mutant of signingKey: a key that is there is used, however old. *)
signingKeyEver(c) ==
  /\ pc[c] = "lookup"
  /\ Unlocked
  /\ IF kid[c] \in keys
       THEN Return(c, "found") /\ UNCHANGED force
       ELSE GoTo(c, "refresh") /\ force' = [force EXCEPT ![c] = TRUE]
  /\ UNCHANGED <<provider, cache, fetch, kid, history>>

(* The first look, under the read lock. *)
signingKey(c) ==
  /\ pc[c] = "lookup"
  /\ Unlocked
  /\ IF kid[c] \in keys /\ freshIn > 0
       THEN Return(c, "found") /\ UNCHANGED force
       ELSE GoTo(c, "refresh") /\ force' = [force EXCEPT ![c] = kid[c] \notin keys]
  /\ UNCHANGED <<provider, cache, fetch, kid, history>>

(* Mutant of refreshKeys: force is ignored. *)
refreshKeysUnforced(c) ==
  /\ pc[c] = "refresh"
  /\ Unlocked
  /\ IF freshIn > 0 /\ keys # {}
       THEN GoTo(c, "again") /\ UNCHANGED fetch
       ELSE GoTo(c, "fetch") /\ response' = {} /\ fetchIn' = FetchTime
  /\ UNCHANGED <<provider, cache, kid, force, history>>

(* refreshKeys has the write lock: somebody else may have fetched the keys *)
(* while it was waiting.                                                   *)
refreshKeys(c) ==
  /\ pc[c] = "refresh"
  /\ Unlocked
  /\ IF ~force[c] /\ freshIn > 0 /\ keys # {}
       THEN GoTo(c, "again") /\ UNCHANGED fetch
       ELSE GoTo(c, "fetch") /\ response' = {} /\ fetchIn' = FetchTime
  /\ UNCHANGED <<provider, cache, kid, force, history>>

(* The provider answers with the keys that are published at that moment. *)
ServeKeys(c) ==
  /\ pc[c] = "fetch"
  /\ GoTo(c, "answered")
  /\ response' = Published
  /\ UNCHANGED <<provider, cache, fetchIn, kid, force, history>>

(* Mutant of StoreKeys: the expiry is extended, not set. *)
StoreKeysLonger(c) ==
  /\ pc[c] = "answered"
  /\ response # {}
  /\ keys' = response
  /\ freshIn' = freshIn + TTL
  /\ GoTo(c, "again")
  /\ response' = {} /\ fetchIn' = 0
  /\ UNCHANGED <<provider, kid, force, history>>

(* The whole set is replaced; an answer without a usable key is an error. *)
StoreKeys(c) ==
  /\ pc[c] = "answered"
  /\ response # {}
  /\ keys' = response
  /\ freshIn' = TTL
  /\ GoTo(c, "again")
  /\ response' = {} /\ fetchIn' = 0
  /\ UNCHANGED <<provider, kid, force, history>>

(* Mutant of FetchFails: the HTTP client has no timeout. *)
FetchFailsLate(c) ==
  /\ pc[c] = "answered"
  /\ Return(c, "unavailable")
  /\ response' = {} /\ fetchIn' = 0
  /\ UNCHANGED <<provider, cache, kid, force, history>>

(* No answer, a bad one, or none in time: the old keys stay, and so does   *)
(* their expiry; the token is refused.                                     *)
FetchFails(c) ==
  /\ Fetching(c)
  /\ Return(c, "unavailable")
  /\ response' = {} /\ fetchIn' = 0
  /\ UNCHANGED <<provider, cache, kid, force, history>>

(* The second look does not ask again how old the keys are. *)
LookAgain(c) ==
  /\ pc[c] = "again"
  /\ Unlocked
  /\ Return(c, IF kid[c] \in keys THEN "found" ELSE "not_found")
  /\ UNCHANGED <<provider, cache, fetch, kid, force, history>>

-----------------------------------------------------------------------------
(* The identity provider: a key id is not used again. *)
Publish(k) ==
  /\ status[k] = "new"
  /\ status' = [status EXCEPT ![k] = "published"]
  /\ UNCHANGED <<since, cache, fetch, pc, kid, force, outcome, history>>

Retire(k) ==
  /\ status[k] = "published"
  /\ status' = [status EXCEPT ![k] = "retired"]
  /\ steady' = [c \in Handler |-> steady[c] /\ (kid[c] # k \/ pc[c] = "idle")]
  /\ UNCHANGED <<since, cache, fetch, pc, kid, force, outcome, overdue>>

(* A fetch never outlasts the timeout of the client. *)
TimePasses ==
  /\ Unlocked \/ fetchIn > 0
  /\ fetchIn' = IF Unlocked THEN 0 ELSE fetchIn - 1
  /\ freshIn' = IF freshIn > 0 THEN freshIn - 1 ELSE 0
  /\ since' = [k \in Key |-> IF status[k] = "retired" /\ since[k] < Overdue
                               THEN since[k] + 1 ELSE since[k]]
  /\ UNCHANGED <<status, keys, response, pc, kid, force, outcome, history>>

Proceed(c) == signingKey(c) \/ refreshKeys(c) \/ LookAgain(c)

KeysNext ==
  \/ \E c \in Handler :
       \/ \E k \in Key : Call(c, k)
       \/ signingKey(c) \/ refreshKeys(c) \/ ServeKeys(c) \/ StoreKeys(c)
       \/ FetchFails(c) \/ LookAgain(c)
  \/ \E k \in Key : Publish(k) \/ Retire(k)
  \/ TimePasses

KeysSpec == KeysInit /\ [][KeysNext]_keysVars

(* A fetch ends, at the latest by its timeout, and sync.RWMutex starves    *)
(* neither readers nor writers.                                            *)
KeysFairness ==
  \A c \in Handler : /\ WF_keysVars(StoreKeys(c) \/ FetchFails(c))
                    /\ SF_keysVars(Proceed(c))

KeysFairSpec == KeysSpec /\ KeysFairness

-----------------------------------------------------------------------------
(* A retired key runs out: no token is accepted on a key that was retired  *)
(* longer ago than the cache lives and a fetch takes when the call began,  *)
(* whether the caller fetched the keys itself or waited for somebody else. *)
RetiredKeysExpire ==
  \A c \in Handler : outcome[c] = "found" => ~overdue[c]

(* A rotation breaks nobody: a token whose key is published during the     *)
(* whole call is never refused as unknown, whichever fetches race with it. *)
PublishedKeysFound ==
  \A c \in Handler : outcome[c] = "not_found" => ~steady[c]

(* The inductive invariant of both. *)

(* The write lock excludes a second fetch. *)
OneFetch == \A c, d \in Handler : Fetching(c) /\ Fetching(d) => c = d

(* A key is in the answer under way, or in the cache, only if it was       *)
(* published when the provider answered: it has been retired for no longer *)
(* than the fetch has taken, or the cache has lived since.                 *)
AnswerIsRecent ==
  /\ Unlocked => response = {}
  /\ \A k \in response : status[k] = "retired" => since[k] + fetchIn <= FetchTime

CacheIsRecent ==
  \A k \in keys : status[k] = "retired" => since[k] + freshIn <= Overdue

RetirementTimed == \A k \in Key : status[k] # "retired" => since[k] = 0

(* A key that was overdue stays so, and a caller that looks a second time  *)
(* does not find it, whoever has fetched the keys.                         *)
OverdueRefused ==
  \A c \in Handler : overdue[c] =>
    /\ status[kid[c]] = "retired" /\ since[kid[c]] = Overdue
    /\ pc[c] = "again" => kid[c] \notin keys

(* A key that is published during the call is in every answer that is      *)
(* served after the first look; it is in the cache at the second look, and *)
(* before the refresh unless that is forced.                               *)
SteadyKnown ==
  \A c \in Handler : steady[c] /\ pc[c] # "idle" =>
    /\ status[kid[c]] = "published"
    /\ pc[c] = "again" \/ (pc[c] = "refresh" /\ ~force[c]) => kid[c] \in keys
    /\ pc[c] # "lookup" /\ (\E d \in Handler : pc[d] = "answered") => kid[c] \in response

KeysInv ==
  /\ KeysTypeOK
  /\ OneFetch
  /\ AnswerIsRecent
  /\ CacheIsRecent
  /\ RetirementTimed
  /\ OverdueRefused
  /\ SteadyKnown
  /\ RetiredKeysExpire
  /\ PublishedKeysFound

(* Nobody waits for ever behind the write lock: every handler is done with *)
(* its token again and again.                                              *)
CallsReturn == \A c \in Handler : []<>(pc[c] = "idle")
=============================================================================
