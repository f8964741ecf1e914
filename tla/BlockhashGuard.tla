--------------------------- MODULE BlockhashGuard ---------------------------
(***************************************************************************)
(* The freshness check of sendTransaction: the LRU cache of blockhashes,   *)
(* the tip, and requests that look a blockhash up or have it verified by   *)
(* an upstream, against a chain that ages blockhashes.                     *)
(*                                                                         *)
(* A blockhash is named by the slot that produced it; 0 is one that no     *)
(* slot produced.  The chain and what upstreams say of it are external:    *)
(* they report a slot the chain has reached, hand out a blockhash of any   *)
(* age, with the slot of its block as the context or without a context,    *)
(* and call a blockhash valid if it was, at a slot at most MaxLag behind   *)
(* the chain.                                                              *)
(*                                                                         *)
(* The text of a request is the first bytes of a transaction, perhaps all  *)
(* of them; one that does not decode has none.                             *)
(***************************************************************************)
EXTENDS TxLayout

CONSTANTS
  Requests,   \* sendTransaction requests
  MaxSlot,    \* bound: the chain stops here
  Validity,   \* age, in slots, at which the chain rejects a blockhash
  MaxLag,     \* how far behind a verifying upstream may be
  MaxAge,     \* health.max_blockhash_age_slots
  CacheSize,  \* health.blockhash_cache_size
  Undated,    \* blockhashes that may be handed out without a context
  Texts       \* records: the layout of a transaction, the blockhash it carries,
              \* the length of its text

Slots == 0..MaxSlot

ASSUME GuardAssumption ==
  /\ MaxSlot \in Nat /\ Validity \in Nat /\ MaxLag \in Nat /\ MaxAge \in Nat
  /\ CacheSize \in Nat \ {0}
  /\ Undated \subseteq 1..MaxSlot
  /\ \A x \in Texts : x.layout \in Layouts /\ x.carries \in Slots /\ x.length \in Nat

VARIABLES
  chain,    \* the newest slot
  tip,      \* tip_slot
  warm,     \* is_warmed_up
  rank,     \* place of each blockhash in the LRU order: 1 is the newest, 0 is not cached
  seen,     \* slot cached for it, 0 if none
  offered,  \* history: the tip when it was last handed out without a context
  pc,       \* where each request is
  carried,  \* the blockhash its transaction carries
  whole,    \* its text is long enough to hold that
  hash,     \* the blockhash that was read
  tipRead   \* the tip it loaded

cacheVars == <<rank, seen, offered>>
textVars == <<carried, whole, hash>>
requestVars == <<pc, textVars, tipRead>>
vars == <<chain, tip, warm, cacheVars, requestVars>>

Init ==
  /\ chain \in Slots \ {0}
  /\ tip = 0
  /\ warm = FALSE
  /\ rank = [h \in Slots |-> 0]
  /\ seen = [h \in Slots |-> 0]
  /\ offered = [h \in Slots |-> 0]
  /\ pc = [t \in Requests |-> "idle"]
  /\ carried = [t \in Requests |-> 0]
  /\ whole = [t \in Requests |-> FALSE]
  /\ hash = [t \in Requests |-> 0]
  /\ tipRead = [t \in Requests |-> 0]

Cached(h) == rank[h] > 0

(***************************************************************************)
(* The LRU order once h is used: h first, what was before it one place     *)
(* down.  If h is new that is everything, and the last place falls off.    *)
(***************************************************************************)
Promoted(h) ==
  [g \in Slots |->
     IF g = h THEN 1
     ELSE IF ~Cached(g) \/ (Cached(h) /\ rank[g] > rank[h]) THEN rank[g]
     ELSE IF rank[g] = CacheSize THEN 0
     ELSE rank[g] + 1]

Mut_InsertOverwrites(h, s) ==
  /\ rank' = Promoted(h)
  /\ seen' = [g \in Slots |-> IF g = h THEN s ELSE IF rank'[g] = 0 THEN 0 ELSE seen[g]]

(* insert keeps the highest slot of a blockhash. *)
Insert(h, s) ==
  /\ rank' = Promoted(h)
  /\ seen' = [g \in Slots |->
                IF g = h THEN (IF seen[h] > s THEN seen[h] ELSE s)
                ELSE IF rank'[g] = 0 THEN 0
                ELSE seen[g]]

-----------------------------------------------------------------------------
(* The chain moves on. *)
Produce ==
  /\ chain < MaxSlot
  /\ chain' = chain + 1
  /\ UNCHANGED <<tip, warm, cacheVars, requestVars>>

Mut_PollSlotAdds(s) ==
  /\ s <= chain
  /\ tip' = tip + s
  /\ UNCHANGED <<chain, warm, cacheVars, requestVars>>

(* A health poll raises the tip to the slot an upstream reports. *)
PollSlot(s) ==
  /\ s <= chain
  /\ tip' = IF s > tip THEN s ELSE tip
  /\ UNCHANGED <<chain, warm, cacheVars, requestVars>>

(* The health loop, or the harvest of a client's getLatestBlockhash, puts  *)
(* a blockhash in the cache, dated by the context of the answer.           *)
Learn(h) ==
  /\ h \in 1..chain
  /\ Insert(h, h)
  /\ UNCHANGED <<chain, tip, warm, offered, requestVars>>

(* The answer has no context.  The harvest dates the blockhash by the tip, *)
(* the health loop by the last slot of its upstream, which is 0 or one it  *)
(* has raised the tip to.                                                  *)
LearnUndated(h, s) ==
  /\ h \in Undated /\ h <= chain
  /\ s <= tip
  /\ Insert(h, s)
  /\ offered' = [offered EXCEPT ![h] = tip]
  /\ UNCHANGED <<chain, tip, warm, requestVars>>

WarmUp ==
  /\ ~warm
  /\ warm' = TRUE
  /\ UNCHANGED <<chain, tip, cacheVars, requestVars>>

-----------------------------------------------------------------------------
GoTo(t, where) == pc' = [pc EXCEPT ![t] = where]

(* What extract_blockhash makes of a text: the blockhash it carries,       *)
(* nothing, or some other bytes, which no slot has produced.               *)
Found == [x \in Texts |-> Extracted(Serialized(x.layout), x.length)]
Read(x) == IF Found[x] = {BlockhashAt(x.layout)} THEN x.carries ELSE 0

(* A request with this text. *)
Receive(t, x) ==
  /\ pc[t] = "idle"
  /\ x.carries <= chain
  /\ carried' = [carried EXCEPT ![t] = x.carries]
  /\ whole' = [whole EXCEPT ![t] = x.length >= Ends(x.layout)]
  /\ hash' = [hash EXCEPT ![t] = Read(x)]
  /\ UNCHANGED <<chain, tip, warm, cacheVars>>

(* check_blockhash_freshness lets it pass before the warmup is over, and   *)
(* if there is no blockhash to read.                                       *)
PassUnchecked(t, x) ==
  /\ Receive(t, x)
  /\ ~warm \/ Found[x] = {}
  /\ GoTo(t, IF warm THEN "unread" ELSE "cold")
  /\ UNCHANGED tipRead

(* Otherwise it loads the tip. *)
Check(t, x) ==
  /\ Receive(t, x)
  /\ warm /\ Found[x] # {}
  /\ GoTo(t, "looking")
  /\ tipRead' = [tipRead EXCEPT ![t] = tip]

(* tip.saturating_sub(seen_slot) > max_age *)
TooOld(t) == tipRead[t] > seen[hash[t]] + MaxAge

Mut_HitAnyAge(t) ==
  /\ pc[t] = "looking"
  /\ Cached(hash[t])
  /\ GoTo(t, "passed")
  /\ rank' = Promoted(hash[t])
  /\ UNCHANGED <<chain, tip, warm, seen, offered, textVars, tipRead>>

(* The blockhash is cached: its cached slot decides. *)
Hit(t) ==
  /\ pc[t] = "looking"
  /\ Cached(hash[t])
  /\ GoTo(t, IF TooOld(t) THEN "rejected" ELSE "passed")
  /\ rank' = Promoted(hash[t])
  /\ UNCHANGED <<chain, tip, warm, seen, offered, textVars, tipRead>>

(* It is not: an upstream is asked. *)
Miss(t) ==
  /\ pc[t] = "looking"
  /\ ~Cached(hash[t])
  /\ GoTo(t, "verifying")
  /\ UNCHANGED <<chain, tip, warm, cacheVars, textVars, tipRead>>

(* What an upstream may call valid. *)
SaidValid(h) == h \in 1..chain /\ chain <= h + Validity + MaxLag

(* isBlockhashValid says yes: the blockhash is cached with the tip that    *)
(* was loaded before the question was asked. *)
Verified(t) ==
  /\ pc[t] = "verifying"
  /\ SaidValid(hash[t])
  /\ Insert(hash[t], tipRead[t])
  /\ GoTo(t, "passed")
  /\ UNCHANGED <<chain, tip, warm, offered, textVars, tipRead>>

Mut_RefutedCaches(t) ==
  /\ pc[t] = "verifying"
  /\ Insert(hash[t], tipRead[t])
  /\ GoTo(t, "rejected")
  /\ UNCHANGED <<chain, tip, warm, offered, textVars, tipRead>>

(* It says no, or nobody answers, or every upstream is dropped. *)
Refuted(t) ==
  /\ pc[t] = "verifying"
  /\ GoTo(t, "rejected")
  /\ UNCHANGED <<chain, tip, warm, cacheVars, textVars, tipRead>>

CheckStep(t) ==
  \/ \E x \in Texts : PassUnchecked(t, x) \/ Check(t, x)
  \/ Hit(t)
  \/ Miss(t)
  \/ Verified(t)
  \/ Refuted(t)

Next ==
  \/ Produce
  \/ WarmUp
  \/ \E s \in Slots : PollSlot(s)
  \/ \E h \in Slots : Learn(h)
  \/ \E h, s \in Slots : LearnUndated(h, s)
  \/ \E t \in Requests : CheckStep(t)

Spec == Init /\ [][Next]_vars

-----------------------------------------------------------------------------
PCs == {"idle", "cold", "unread", "looking", "verifying", "passed", "rejected"}

TypeOK ==
  /\ chain \in Slots
  /\ tip \in Slots
  /\ warm \in BOOLEAN
  /\ rank \in [Slots -> 0..CacheSize]
  /\ seen \in [Slots -> Slots]
  /\ offered \in [Slots -> Slots]
  /\ pc \in [Requests -> PCs]
  /\ carried \in [Requests -> Slots] /\ whole \in [Requests -> BOOLEAN]
  /\ hash \in [Requests -> Slots]
  /\ tipRead \in [Requests -> Slots]
  /\ \A g, h \in Slots : Cached(g) /\ rank[g] = rank[h] => g = h

(* How far off a date can be.  Nothing is cached but what the chain        *)
(* produced, and it is dated at most the chain's own validity (and an      *)
(* upstream's lag) past its slot, although verification dates it by a tip  *)
(* read before the answer; or, if an upstream has handed it out without a  *)
(* context, at most as of the last time that happened.                     *)
DatesAreBounded ==
  \A h \in Slots : Cached(h) =>
    /\ h \in 1..chain
    /\ \/ seen[h] <= h + Validity + MaxLag
       \/ h \in Undated /\ seen[h] <= offered[h]

(* How old a blockhash that passes can be: by the tip the request loaded,  *)
(* no more than MaxAge past the slot up to which a verification may have   *)
(* dated it, or past the tip when an upstream last handed it out without a *)
(* context, whatever was harvested, verified and evicted in between.  One  *)
(* that was never produced does not pass.                                  *)
PassedIsRecent ==
  \A t \in Requests : pc[t] = "passed" =>
    /\ hash[t] # 0
    /\ \/ tipRead[t] <= hash[t] + Validity + MaxLag + MaxAge
       \/ hash[t] \in Undated /\ tipRead[t] <= offered[hash[t]] + MaxAge

(* After the warmup no transaction that is all there goes unchecked, and   *)
(* none is judged by anything but the blockhash it carries, whatever its   *)
(* lengths and wherever a text is cut (solana.rs:57-100).                  *)
JudgedByItsBlockhash ==
  \A t \in Requests : whole[t] => pc[t] # "unread" /\ hash[t] = carried[t]

(* The date of a cached blockhash never goes back, not even when a slow    *)
(* verification comes in with an old tip after a harvest.                  *)
DatesNeverGoBack ==
  [][\A h \in Slots : Cached(h) /\ Cached(h)' => seen[h] <= seen'[h]]_vars

(* The README's promise: a blockhash that has expired, by the tip the      *)
(* request loaded, does not pass (it may: see README).                     *)
ExpiredIsRejected ==
  \A t \in Requests : pc[t] = "passed" => tipRead[t] <= hash[t] + Validity

=============================================================================
