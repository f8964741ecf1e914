------------------------ MODULE BlockhashGuardProofs ------------------------
(***************************************************************************)
(* What holds of BlockhashGuard for every number of requests, cache size,  *)
(* age limit, validity and lag.                                            *)
(***************************************************************************)
EXTENDS BlockhashGuard, TxLayoutProofs

(* Nothing the proxy has read is ahead of the chain. *)
ReadsArePast ==
  /\ tip <= chain
  /\ \A t \in Requests : tipRead[t] <= chain /\ hash[t] <= chain

(* A date that DatesAreBounded allows for h. *)
InBounds(h, s) ==
  \/ s <= h + Validity + MaxLag
  \/ h \in Undated /\ s <= offered[h]

(* DatesAreBounded, also of what is not cached. *)
Dated ==
  \A h \in Slots : (Cached(h) => h \in 1..chain) /\ InBounds(h, seen[h])

(* A blockhash was last handed out without a context at a tip of the past. *)
OffersArePast == \A h \in Slots : offered[h] <= tip

Bounds == Dated /\ PassedIsRecent /\ ReadsArePast /\ OffersArePast

LEMMA SlotsAreNumbers ==
  /\ Slots \subseteq Nat /\ 0 \in Slots
  /\ \A n \in Slots : n <= MaxSlot /\ 1..n \subseteq Slots
BY GuardAssumption DEF Slots

LEMMA TypedNumbers ==
  ASSUME TypeOK
  PROVE  /\ chain \in Nat /\ tip \in Nat
         /\ \A h \in Slots : h \in Nat /\ seen[h] \in Nat /\ offered[h] \in Nat
         /\ \A t \in Requests : hash[t] \in Nat /\ tipRead[t] \in Nat
BY SlotsAreNumbers DEF TypeOK

(* A promotion leaves every blockhash in a place of the cache and no two   *)
(* in one place. *)
LEMMA PromotionKeepsOrder ==
  ASSUME TypeOK, NEW h \in Slots, rank' = Promoted(h)
  PROVE  /\ rank' \in [Slots -> 0..CacheSize]
         /\ \A f, g \in Slots : Cached(f)' /\ rank'[f] = rank'[g] => f = g
         /\ \A g \in Slots : Cached(g)' => Cached(g) \/ g = h
<1> DEFINE place(g) ==
      IF g = h THEN 1
      ELSE IF ~Cached(g) \/ (Cached(h) /\ rank[g] > rank[h]) THEN rank[g]
      ELSE IF rank[g] = CacheSize THEN 0
      ELSE rank[g] + 1
<1>1. \A g \in Slots : rank'[g] = place(g)
  BY DEF Promoted
<1>2. CacheSize \in Nat \ {0} /\ \A g \in Slots : rank[g] \in 0..CacheSize
  BY GuardAssumption DEF TypeOK
<1>3. ASSUME NEW g \in Slots PROVE place(g) \in 0..CacheSize
  BY <1>2 DEF Cached
<1>4. rank' \in [Slots -> 0..CacheSize]
  BY <1>1, <1>3 DEF Promoted
<1>5. ASSUME NEW f \in Slots, NEW g \in Slots, place(f) > 0, place(f) = place(g)
      PROVE  f = g
  <2>1. rank[f] > 0 /\ rank[f] = rank[g] => f = g
    BY DEF TypeOK, Cached
  <2>2. rank[h] > 0 /\ rank[f] = rank[h] => f = h
    BY DEF TypeOK, Cached
  <2>3. rank[h] > 0 /\ rank[g] = rank[h] => g = h
    BY DEF TypeOK, Cached
  <2> QED
    BY <1>2, <1>5, <2>1, <2>2, <2>3 DEF Cached
<1>6. ASSUME NEW g \in Slots, place(g) > 0 PROVE Cached(g) \/ g = h
  BY <1>2, <1>6 DEF Cached
<1> QED
  BY <1>1, <1>4, <1>5, <1>6 DEF Cached

(* What insert does to the dates. *)
LEMMA InsertDates ==
  ASSUME TypeOK, NEW h \in Slots, NEW s \in Slots, Insert(h, s)
  PROVE  /\ seen' \in [Slots -> Slots]
         /\ seen'[h] \in {s, seen[h]} /\ s <= seen'[h] /\ seen[h] <= seen'[h]
         /\ \A g \in Slots : g # h => seen'[g] \in {0, seen[g]}
         /\ \A g \in Slots : g # h /\ Cached(g)' => seen'[g] = seen[g]
<1>1. seen[h] \in Nat /\ s \in Nat
  BY SlotsAreNumbers DEF TypeOK
<1>2. /\ seen'[h] = IF seen[h] > s THEN seen[h] ELSE s
      /\ \A g \in Slots : g # h => seen'[g] = IF rank'[g] = 0 THEN 0 ELSE seen[g]
  BY DEF Insert
<1>3. seen' \in [Slots -> Slots]
  BY SlotsAreNumbers DEF Insert, TypeOK
<1> QED
  BY <1>1, <1>2, <1>3 DEF Cached

(* A request's text, read. *)
LEMMA ReceiveTypes ==
  ASSUME TypeOK, NEW t \in Requests, NEW x \in Texts, Receive(t, x)
  PROVE  /\ carried' \in [Requests -> Slots] /\ whole' \in [Requests -> BOOLEAN]
         /\ hash' \in [Requests -> Slots]
         /\ UNCHANGED <<chain, tip, warm, cacheVars>>
<1>1. Read(x) \in Slots /\ x.carries \in Slots
  BY SlotsAreNumbers, GuardAssumption DEF Read
<1>2. (x.length >= Ends(x.layout)) \in BOOLEAN
  OBVIOUS
<1> QED
  BY <1>1, <1>2 DEF Receive, TypeOK

LEMMA GuardInit == Init => TypeOK /\ Bounds
<1> SUFFICES ASSUME Init PROVE TypeOK /\ Bounds
  OBVIOUS
<1>1. TypeOK
  <2>1. 0 \in 0..CacheSize /\ 0 \in Slots
    BY SlotsAreNumbers, GuardAssumption
  <2>2. rank \in [Slots -> 0..CacheSize] /\ \A h \in Slots : ~Cached(h)
    BY <2>1 DEF Init, Cached
  <2> QED
    BY <2>1, <2>2 DEF Init, TypeOK, PCs
<1>2. Dated
  BY SlotsAreNumbers, GuardAssumption DEF Init, Dated, InBounds, Cached
<1>3. PassedIsRecent /\ ReadsArePast /\ OffersArePast
  BY SlotsAreNumbers DEF Init, PassedIsRecent, ReadsArePast, OffersArePast
<1> QED
  BY <1>1, <1>2, <1>3 DEF Bounds

LEMMA GuardTypesStep ==
  ASSUME TypeOK, [Next]_vars
  PROVE  TypeOK'
<1>1. CASE Produce \/ WarmUp \/ UNCHANGED vars
  <2>1. chain' \in Slots /\ warm' \in BOOLEAN
    <3>1. CASE Produce
      BY <3>1, GuardAssumption DEF Produce, TypeOK, Slots
    <3>2. CASE WarmUp \/ UNCHANGED vars
      BY <3>2 DEF WarmUp, vars, TypeOK
    <3> QED
      BY <1>1, <3>1, <3>2 DEF Produce
  <2>2. tip' = tip /\ rank' = rank /\ seen' = seen /\ offered' = offered /\ pc' = pc /\ hash' = hash /\ tipRead' = tipRead
    BY <1>1 DEF Produce, WarmUp, vars, cacheVars, requestVars, textVars
  <2>3. carried' = carried /\ whole' = whole
    BY <1>1 DEF Produce, WarmUp, vars, requestVars, textVars
  <2> QED
    BY <2>1, <2>2, <2>3 DEF TypeOK, Cached
<1>2. ASSUME NEW s \in Slots, PollSlot(s) PROVE TypeOK'
  BY <1>2 DEF PollSlot, cacheVars, requestVars, textVars, TypeOK, Cached
<1>3. ASSUME NEW h \in Slots, NEW s \in Slots, Insert(h, s) \/ (rank' = Promoted(h) /\ UNCHANGED seen)
      PROVE  /\ rank' \in [Slots -> 0..CacheSize]
             /\ \A f, g \in Slots : Cached(f)' /\ rank'[f] = rank'[g] => f = g
             /\ seen' \in [Slots -> Slots]
  <2>1. rank' = Promoted(h)
    BY <1>3 DEF Insert
  <2>2. seen' \in [Slots -> Slots]
    BY <1>3, InsertDates DEF TypeOK
  <2> QED
    BY <2>1, <2>2, PromotionKeepsOrder
<1>4. ASSUME NEW h \in Slots, NEW s \in Slots, Learn(h) \/ LearnUndated(h, s) PROVE TypeOK'
  <2>1. Insert(h, h) \/ Insert(h, s)
    BY <1>4 DEF Learn, LearnUndated
  <2>2. /\ rank' \in [Slots -> 0..CacheSize] /\ seen' \in [Slots -> Slots]
        /\ \A f, g \in Slots : Cached(f)' /\ rank'[f] = rank'[g] => f = g
    BY <2>1, <1>3
  <2>3. offered' \in [Slots -> Slots] /\ UNCHANGED <<chain, tip, warm, requestVars>>
    BY <1>4 DEF Learn, LearnUndated, TypeOK
  <2> QED
    BY <2>2, <2>3 DEF requestVars, textVars, TypeOK
<1>5. ASSUME NEW t \in Requests, CheckStep(t) PROVE TypeOK'
  <2>1. ASSUME NEW x \in Texts, PassUnchecked(t, x) \/ Check(t, x)
        PROVE  TypeOK'
    <3>1. /\ carried' \in [Requests -> Slots] /\ whole' \in [Requests -> BOOLEAN]
          /\ hash' \in [Requests -> Slots]
          /\ UNCHANGED <<chain, tip, warm, cacheVars>>
      BY <2>1, ReceiveTypes DEF PassUnchecked, Check
    <3>2. pc' \in [Requests -> PCs] /\ tipRead' \in [Requests -> Slots]
      BY <2>1 DEF PassUnchecked, Check, GoTo, TypeOK, PCs
    <3> QED
      BY <3>1, <3>2 DEF cacheVars, TypeOK, Cached
  <2>2. CASE Hit(t)
    <3>1. hash[t] \in Slots /\ rank' = Promoted(hash[t]) /\ UNCHANGED seen
      BY <2>2 DEF Hit, TypeOK
    <3>2. /\ rank' \in [Slots -> 0..CacheSize] /\ seen' \in [Slots -> Slots]
          /\ \A f, g \in Slots : Cached(f)' /\ rank'[f] = rank'[g] => f = g
      BY <3>1, <1>3, SlotsAreNumbers
    <3> QED
      BY <2>2, <3>2 DEF Hit, GoTo, textVars, TypeOK, PCs
  <2>3. CASE Miss(t) \/ Refuted(t)
    BY <2>3 DEF Miss, Refuted, GoTo, cacheVars, textVars, TypeOK, PCs, Cached
  <2>4. CASE Verified(t)
    <3>1. hash[t] \in Slots /\ tipRead[t] \in Slots /\ Insert(hash[t], tipRead[t])
      BY <2>4 DEF Verified, TypeOK
    <3>2. /\ rank' \in [Slots -> 0..CacheSize] /\ seen' \in [Slots -> Slots]
          /\ \A f, g \in Slots : Cached(f)' /\ rank'[f] = rank'[g] => f = g
      BY <3>1, <1>3
    <3> QED
      BY <2>4, <3>2 DEF Verified, GoTo, textVars, TypeOK, PCs
  <2> QED
    BY <1>5, <2>1, <2>2, <2>3, <2>4 DEF CheckStep
<1> QED
  BY <1>1, <1>2, <1>4, <1>5 DEF Next

(* What was allowed stays so when a blockhash is handed out without a      *)
(* context: the tip is no less than when that last happened. *)
LEMMA OffersRise ==
  ASSUME TypeOK, OffersArePast,
         UNCHANGED offered \/ \E h \in Slots : offered' = [offered EXCEPT ![h] = tip]
  PROVE  \A g \in Slots : /\ offered[g] <= offered'[g] /\ offered'[g] \in Nat
                          /\ offered'[g] <= tip
<1>1. \A g \in Slots : offered'[g] \in {offered[g], tip}
  BY DEF TypeOK
<1> QED
  BY <1>1, TypedNumbers DEF OffersArePast

(* An insertion with a date in bounds keeps all dates in bounds. *)
LEMMA InsertInBounds ==
  ASSUME TypeOK, Dated, NEW h \in Slots, NEW s \in Slots, Insert(h, s),
         h \in 1..chain, UNCHANGED chain,
         s <= h + Validity + MaxLag \/ (h \in Undated /\ s <= offered'[h]),
         \A g \in Slots : offered[g] <= offered'[g] /\ offered'[g] \in Nat
  PROVE  Dated'
<1> SUFFICES ASSUME NEW g \in Slots
             PROVE  (Cached(g)' => g \in 1..chain') /\ InBounds(g, seen[g])'
  BY DEF Dated
<1>1. g \in Nat /\ seen[g] \in Nat /\ offered[g] \in Nat
  BY TypedNumbers
<1>2. seen'[g] = 0 => InBounds(g, seen[g])'
  BY <1>1, GuardAssumption DEF InBounds
<1>3. seen'[g] = seen[g] => InBounds(g, seen[g])'
  BY <1>1 DEF Dated, InBounds
<1>4. CASE g = h
  <2>1. seen'[h] = s => InBounds(h, seen[h])'
    BY DEF InBounds
  <2> QED
    BY <1>3, <1>4, <2>1, InsertDates
<1>5. CASE g # h
  <2>1. Cached(g)' => Cached(g)
    BY <1>5, PromotionKeepsOrder DEF Insert
  <2>2. seen'[g] \in {0, seen[g]}
    BY <1>5, InsertDates
  <2> QED
    BY <1>2, <1>3, <2>1, <2>2 DEF Dated
<1> QED
  BY <1>4, <1>5

LEMMA DatedStep ==
  ASSUME TypeOK, Bounds, [Next]_vars
  PROVE  Dated'
<1> USE DEF Bounds
<1>1. CASE Produce
  BY <1>1, SlotsAreNumbers, GuardAssumption DEF Produce, cacheVars, Dated, InBounds, Cached, TypeOK
<1>2. ASSUME UNCHANGED chain, UNCHANGED cacheVars PROVE Dated'
  BY <1>2 DEF cacheVars, Dated, InBounds, Cached
<1>3. ASSUME NEW s \in Slots, PollSlot(s) PROVE Dated'
  BY <1>2, <1>3 DEF PollSlot
<1>4. ASSUME NEW h \in Slots, NEW s \in Slots, Learn(h) \/ LearnUndated(h, s) PROVE Dated'
  <2>1. \A g \in Slots : offered[g] <= offered'[g] /\ offered'[g] \in Nat
    BY <1>4, OffersRise DEF Learn, LearnUndated
  <2>2. CASE Learn(h)
    <3>1. h <= h + Validity + MaxLag
      BY SlotsAreNumbers, GuardAssumption
    <3> QED
      BY <2>1, <2>2, <3>1, InsertInBounds DEF Learn
  <2>3. CASE LearnUndated(h, s)
    <3>1. h \in Undated /\ h \in 1..chain /\ s <= tip /\ Insert(h, s) /\ UNCHANGED chain
      BY <2>3, GuardAssumption, TypedNumbers DEF LearnUndated
    <3>2. offered'[h] = tip
      BY <2>3 DEF LearnUndated, TypeOK
    <3> QED
      BY <2>1, <3>1, <3>2, InsertInBounds
  <2> QED
    BY <1>4, <2>2, <2>3
<1>5. ASSUME NEW t \in Requests, CheckStep(t) PROVE Dated'
  <2>1. ASSUME NEW x \in Texts, PassUnchecked(t, x) \/ Check(t, x)
        PROVE  Dated'
    BY <1>2, <2>1 DEF PassUnchecked, Check, Receive
  <2>2. CASE Hit(t)
    <3>1. hash[t] \in Slots /\ Cached(hash[t]) /\ rank' = Promoted(hash[t])
          /\ UNCHANGED <<chain, seen, offered>>
      BY <2>2 DEF Hit, TypeOK
    <3>2. \A g \in Slots : Cached(g)' => Cached(g)
      BY <3>1, PromotionKeepsOrder
    <3> QED
      BY <3>1, <3>2 DEF Dated, InBounds
  <2>3. CASE Miss(t) \/ Refuted(t)
    BY <1>2, <2>3 DEF Miss, Refuted
  <2>4. CASE Verified(t)
    <3>1. /\ hash[t] \in Slots /\ tipRead[t] \in Slots /\ Insert(hash[t], tipRead[t])
          /\ hash[t] \in 1..chain /\ UNCHANGED <<chain, offered>>
      BY <2>4 DEF Verified, SaidValid, TypeOK
    <3>2. chain <= hash[t] + Validity + MaxLag /\ tipRead[t] <= chain
      BY <2>4 DEF Verified, SaidValid, ReadsArePast
    <3>3. tipRead[t] <= hash[t] + Validity + MaxLag
      BY <3>2, TypedNumbers, GuardAssumption
    <3>4. \A g \in Slots : offered[g] <= offered'[g] /\ offered'[g] \in Nat
      BY <3>1, OffersRise
    <3> QED
      BY <3>1, <3>3, <3>4, InsertInBounds
  <2> QED
    BY <1>5, <2>1, <2>2, <2>3, <2>4 DEF CheckStep
<1> QED
  BY <1>1, <1>2, <1>3, <1>4, <1>5 DEF Next, WarmUp, vars, cacheVars

LEMMA OffersArePastStep ==
  ASSUME TypeOK, Bounds, [Next]_vars
  PROVE  OffersArePast'
<1>1. tip <= tip' /\ tip' \in Nat
  <2>1. ASSUME NEW s \in Slots, PollSlot(s) PROVE tip <= tip' /\ tip' \in Nat
    BY <2>1, SlotsAreNumbers, TypedNumbers DEF PollSlot
  <2> QED
    BY <2>1, TypedNumbers DEF Next, Produce, WarmUp, Learn, LearnUndated, CheckStep, PassUnchecked,
       Check, Receive, Hit, Miss, Verified, Refuted, vars
<1>2. UNCHANGED offered \/ \E h \in Slots : offered' = [offered EXCEPT ![h] = tip]
  BY DEF Next, Produce, WarmUp, PollSlot, Learn, LearnUndated, CheckStep, PassUnchecked,
     Check, Receive, Hit, Miss, Verified, Refuted, cacheVars, vars
<1>3. \A g \in Slots : offered'[g] <= tip /\ offered'[g] \in Nat
  BY <1>2, OffersRise DEF Bounds
<1> QED
  BY <1>1, <1>3, TypedNumbers DEF OffersArePast

LEMMA ReadsArePastStep ==
  ASSUME TypeOK, ReadsArePast, [Next]_vars
  PROVE  ReadsArePast'
<1> USE DEF ReadsArePast
<1>1. CASE Produce \/ WarmUp \/ UNCHANGED vars
  <2>1. chain <= chain' /\ chain' \in Nat /\ chain \in Nat
    BY <1>1, TypedNumbers DEF Produce, WarmUp, vars
  <2>2. tip' = tip /\ hash' = hash /\ tipRead' = tipRead
    BY <1>1 DEF Produce, WarmUp, vars, requestVars, textVars
  <2> QED
    BY <2>1, <2>2, TypedNumbers
<1>2. ASSUME NEW s \in Slots, PollSlot(s) PROVE ReadsArePast'
  BY <1>2 DEF PollSlot, requestVars, textVars
<1>3. ASSUME NEW h \in Slots, NEW s \in Slots, Learn(h) \/ LearnUndated(h, s)
      PROVE  ReadsArePast'
  BY <1>3 DEF Learn, LearnUndated, requestVars, textVars
<1>4. ASSUME NEW t \in Requests, CheckStep(t) PROVE ReadsArePast'
  <2>1. ASSUME NEW x \in Texts, PassUnchecked(t, x) \/ Check(t, x)
        PROVE  ReadsArePast'
    <3>1. /\ x.carries <= chain /\ Read(x) \in {x.carries, 0} /\ 0 <= chain
          /\ hash' = [hash EXCEPT ![t] = Read(x)]
          /\ UNCHANGED <<chain, tip>>
      BY <2>1, TypedNumbers DEF PassUnchecked, Check, Receive, Read
    <3>2. \A r \in Requests : hash'[r] <= chain
      BY <3>1 DEF TypeOK
    <3>3. \A r \in Requests : tipRead'[r] <= chain
      BY <2>1 DEF PassUnchecked, Check, TypeOK
    <3> QED
      BY <3>1, <3>2, <3>3
  <2>2. CASE Hit(t) \/ Miss(t) \/ Verified(t) \/ Refuted(t)
    BY <2>2 DEF Hit, Miss, Verified, Refuted, textVars
  <2> QED
    BY <1>4, <2>1, <2>2 DEF CheckStep
<1> QED
  BY <1>1, <1>2, <1>3, <1>4 DEF Next

LEMMA PassedIsRecentStep ==
  ASSUME TypeOK, Bounds, [Next]_vars
  PROVE  PassedIsRecent'
<1> USE DEF Bounds
<1> DEFINE Recent(t) ==
      /\ hash[t] # 0
      /\ \/ tipRead[t] <= hash[t] + Validity + MaxLag + MaxAge
         \/ hash[t] \in Undated /\ tipRead[t] <= offered[hash[t]] + MaxAge
<1>1. ASSUME UNCHANGED requestVars,
             UNCHANGED offered \/ \E h \in Slots : offered' = [offered EXCEPT ![h] = tip]
      PROVE  PassedIsRecent'
  <2> SUFFICES ASSUME NEW t \in Requests, pc'[t] = "passed" PROVE Recent(t)'
    BY DEF PassedIsRecent
  <2>1. pc' = pc /\ hash' = hash /\ tipRead' = tipRead
    BY <1>1 DEF requestVars, textVars
  <2>2. Recent(t)
    BY <2>1 DEF PassedIsRecent
  <2>3. hash[t] \in Slots /\ offered[hash[t]] \in Nat /\ tipRead[t] \in Nat
    BY TypedNumbers DEF TypeOK
  <2>4. offered[hash[t]] <= offered'[hash[t]] /\ offered'[hash[t]] \in Nat
    BY <1>1, <2>3, OffersRise
  <2> QED
    BY <2>1, <2>2, <2>3, <2>4, GuardAssumption
<1>2. ASSUME NEW t \in Requests, CheckStep(t) PROVE PassedIsRecent'
  <2>1. ASSUME NEW x \in Texts, PassUnchecked(t, x) \/ Check(t, x)
        PROVE  PassedIsRecent'
    <3>1. /\ UNCHANGED offered
          /\ pc' = [pc EXCEPT ![t] = pc'[t]] /\ pc'[t] # "passed"
          /\ hash' = [hash EXCEPT ![t] = Read(x)]
          /\ \A r \in Requests : r # t => tipRead'[r] = tipRead[r]
      BY <2>1 DEF PassUnchecked, Check, Receive, GoTo, cacheVars, TypeOK
    <3> QED
      BY <3>1 DEF PassedIsRecent, TypeOK
  <2>2. CASE Hit(t)
    <3>1. /\ pc' = [pc EXCEPT ![t] = IF TooOld(t) THEN "rejected" ELSE "passed"]
          /\ hash' = hash /\ tipRead' = tipRead /\ offered' = offered
      BY <2>2 DEF Hit, GoTo, textVars
    <3>2. ASSUME ~TooOld(t) PROVE Recent(t)
      <4>1. hash[t] \in Slots /\ hash[t] \in 1..chain /\ InBounds(hash[t], seen[hash[t]])
        BY <2>2 DEF Hit, Dated, TypeOK
      <4>2. /\ hash[t] \in Nat /\ tipRead[t] \in Nat /\ seen[hash[t]] \in Nat
            /\ offered[hash[t]] \in Nat
        BY TypedNumbers DEF TypeOK
      <4>3. tipRead[t] <= seen[hash[t]] + MaxAge
        BY <3>2, <4>2, GuardAssumption DEF TooOld
      <4> QED
        BY <4>1, <4>2, <4>3, GuardAssumption DEF InBounds
    <3> QED
      BY <3>1, <3>2 DEF PassedIsRecent, TypeOK
  <2>3. CASE Miss(t) \/ Refuted(t)
    BY <2>3 DEF Miss, Refuted, GoTo, cacheVars, textVars, PassedIsRecent, TypeOK
  <2>4. CASE Verified(t)
    <3>1. hash[t] # 0 /\ tipRead[t] <= chain /\ chain <= hash[t] + Validity + MaxLag
      BY <2>4 DEF Verified, SaidValid, ReadsArePast
    <3>2. tipRead[t] <= hash[t] + Validity + MaxLag + MaxAge
      BY <3>1, TypedNumbers, GuardAssumption
    <3> QED
      BY <2>4, <3>1, <3>2 DEF Verified, GoTo, textVars, PassedIsRecent, TypeOK
  <2> QED
    BY <1>2, <2>1, <2>2, <2>3, <2>4 DEF CheckStep
<1> QED
  BY <1>1, <1>2 DEF Next, Produce, WarmUp, PollSlot, Learn, LearnUndated, cacheVars, requestVars, vars

LEMMA GuardInductive == Spec => [](TypeOK /\ Bounds)
<1>1. Init => TypeOK /\ Bounds
  BY GuardInit
<1>2. TypeOK /\ Bounds /\ [Next]_vars => (TypeOK /\ Bounds)'
  BY GuardTypesStep, DatedStep, ReadsArePastStep, OffersArePastStep, PassedIsRecentStep DEF Bounds
<1> QED
  BY <1>1, <1>2, PTL DEF Spec

-----------------------------------------------------------------------------
(* The cache stays within its size, with no two blockhashes in one place   *)
(* of the LRU order, through every insertion, lookup and eviction. *)
THEOREM GuardTypes == Spec => []TypeOK
BY GuardInductive, PTL

(* No cached blockhash is dated further past its slot than the chain's     *)
(* validity and the lag of the upstream that vouched for it, unless an     *)
(* upstream handed it out without a context: then the date is no later     *)
(* than the tip was when that last happened. *)
THEOREM DatesBounded == Spec => []DatesAreBounded
<1>1. TypeOK /\ Bounds => DatesAreBounded
  BY DEF Bounds, Dated, InBounds, DatesAreBounded
<1> QED
  BY <1>1, GuardInductive, PTL

(* What the freshness check guarantees, for every configuration and every  *)
(* mix of dated and undated answers: a blockhash that passes is real, and  *)
(* the tip its request loaded is at most MaxAge past a slot at which the   *)
(* chain would still have taken it, or past the tip at the last answer     *)
(* that gave it without a context. *)
THEOREM OnlyRecentPass == Spec => []PassedIsRecent
<1>1. TypeOK /\ Bounds => PassedIsRecent
  BY DEF Bounds
<1> QED
  BY <1>1, GuardInductive, PTL

(* What a request's text gives: the blockhash it carries if it is there,   *)
(* nothing if it is not. *)
LEMMA FoundIfWhole ==
  ASSUME NEW x \in Texts
  PROVE  Found[x] = IF x.length >= Ends(x.layout) THEN {BlockhashAt(x.layout)} ELSE {}
<1>1. x.layout \in Layouts /\ x.length \in Nat
  BY GuardAssumption
<1>2. Ends(x.layout) \in Nat
  BY <1>1, Parts DEF Ends, HashBytes
<1>3. x.length >= Ends(x.layout) <=> Ends(x.layout) <= x.length
  BY <1>1, <1>2
<1> QED
  BY <1>1, <1>3, ExtractsTheBlockhash DEF Found

LEMMA JudgedStep ==
  ASSUME TypeOK, JudgedByItsBlockhash, [Next]_vars
  PROVE  JudgedByItsBlockhash'
<1>1. ASSUME UNCHANGED textVars,
             \A t \in Requests : pc'[t] = "unread" => pc[t] = "unread"
      PROVE  JudgedByItsBlockhash'
  BY <1>1 DEF textVars, JudgedByItsBlockhash
<1>2. ASSUME NEW t \in Requests, CheckStep(t) PROVE JudgedByItsBlockhash'
  <2>1. ASSUME NEW x \in Texts, PassUnchecked(t, x) \/ Check(t, x)
        PROVE  JudgedByItsBlockhash'
    <3>1. /\ carried' = [carried EXCEPT ![t] = x.carries]
          /\ whole' = [whole EXCEPT ![t] = x.length >= Ends(x.layout)]
          /\ hash' = [hash EXCEPT ![t] = Read(x)]
      BY <2>1 DEF PassUnchecked, Check, Receive
    <3>2. x.length >= Ends(x.layout) => Read(x) = x.carries /\ Found[x] # {}
      BY FoundIfWhole DEF Read
    <3>3. /\ pc' = [pc EXCEPT ![t] = pc'[t]]
          /\ Found[x] # {} => pc'[t] # "unread"
      BY <2>1 DEF PassUnchecked, Check, GoTo, TypeOK
    <3>4. ASSUME NEW r \in Requests, whole'[r] PROVE pc'[r] # "unread" /\ hash'[r] = carried'[r]
      <4>1. CASE r = t
        BY <3>1, <3>2, <3>3, <3>4, <4>1 DEF TypeOK
      <4>2. CASE r # t
        BY <3>1, <3>3, <3>4, <4>2 DEF TypeOK, JudgedByItsBlockhash
      <4> QED
        BY <4>1, <4>2
    <3> QED
      BY <3>4 DEF JudgedByItsBlockhash
  <2>2. CASE Hit(t) \/ Miss(t) \/ Verified(t) \/ Refuted(t)
    <3>1. UNCHANGED textVars
      BY <2>2 DEF Hit, Miss, Verified, Refuted
    <3>2. \A r \in Requests : pc'[r] = "unread" => pc[r] = "unread"
      BY <2>2 DEF Hit, Miss, Verified, Refuted, GoTo, TypeOK
    <3> QED
      BY <1>1, <3>1, <3>2
  <2> QED
    BY <1>2, <2>1, <2>2 DEF CheckStep
<1>3. ASSUME UNCHANGED requestVars PROVE JudgedByItsBlockhash'
  BY <1>1, <1>3 DEF requestVars
<1> QED
  BY <1>2, <1>3 DEF Next, Produce, WarmUp, PollSlot, Learn, LearnUndated, vars

(* After the warmup every transaction that is all there is judged, and by  *)
(* the blockhash it carries, for any number of signatures and accounts. *)
THEOREM JudgedRight == Spec => []JudgedByItsBlockhash
<1>1. Init => JudgedByItsBlockhash
  BY DEF Init, JudgedByItsBlockhash
<1>2. TypeOK /\ JudgedByItsBlockhash /\ [Next]_vars => JudgedByItsBlockhash'
  BY JudgedStep
<1> QED
  BY <1>1, <1>2, GuardTypes, PTL DEF Spec

LEMMA RisenStep ==
  ASSUME TypeOK, [Next]_vars, NEW g \in Slots, Cached(g)'
  PROVE  seen[g] <= seen'[g]
<1>1. seen[g] \in Nat
  BY TypedNumbers
<1>2. ASSUME NEW h \in Slots, NEW s \in Slots, Insert(h, s) PROVE seen[g] <= seen'[g]
  <2>1. CASE g = h
    BY <1>2, <2>1, InsertDates
  <2>2. CASE g # h
    BY <1>1, <1>2, <2>2, InsertDates
  <2> QED
    BY <2>1, <2>2
<1>3. ASSUME UNCHANGED seen PROVE seen[g] <= seen'[g]
  BY <1>1, <1>3
<1>4. ASSUME NEW h \in Slots, NEW s \in Slots, Learn(h) \/ LearnUndated(h, s)
      PROVE  seen[g] <= seen'[g]
  BY <1>2, <1>4 DEF Learn, LearnUndated
<1>5. ASSUME NEW t \in Requests, Verified(t) PROVE seen[g] <= seen'[g]
  <2>1. hash[t] \in Slots /\ tipRead[t] \in Slots
    BY DEF TypeOK
  <2>2. Insert(hash[t], tipRead[t])
    BY <1>5 DEF Verified
  <2> QED
    BY <1>2, <2>1, <2>2
<1>6. ASSUME NEW t \in Requests, CheckStep(t), ~Verified(t) PROVE UNCHANGED seen
  BY <1>6 DEF CheckStep, PassUnchecked, Check, Receive, Hit, Miss, Refuted, cacheVars
<1>7. Produce \/ WarmUp \/ (\E s \in Slots : PollSlot(s)) \/ UNCHANGED vars => UNCHANGED seen
  BY DEF Produce, WarmUp, PollSlot, cacheVars, vars
<1> QED
  BY <1>3, <1>4, <1>5, <1>6, <1>7 DEF Next

(* While a blockhash is cached its date only goes up, whatever order       *)
(* harvests and slow verifications come in. *)
THEOREM DatesOnlyRise == Spec => DatesNeverGoBack
<1>1. TypeOK /\ [Next]_vars =>
        [\A h \in Slots : Cached(h) /\ Cached(h)' => seen[h] <= seen'[h]]_vars
  BY RisenStep
<1> QED
  BY <1>1, GuardTypes, PTL DEF Spec, DatesNeverGoBack

=============================================================================
