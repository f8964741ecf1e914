------------------------- MODULE RollingWindowProofs -------------------------
(***************************************************************************)
(* What a push and a tick leave of a queue of StatsStore, for any kind of  *)
(* entries S that have an age, any window and any length.                  *)
(***************************************************************************)
EXTENDS RollingWindow, SequenceTheorems, WellFoundedInduction, TLAPS

(* Pruning stops, at an entry that is not too old. *)
LEMMA PruningStops ==
  ASSUME NEW S, NEW q \in Seq(S), NEW now \in Nat, NEW window \in Nat,
         NEW n \in 1..Len(q), ~TooOld(q[n], now, window)
  PROVE  /\ FirstYoung(q, now, window) \in 1..Len(q)
         /\ ~TooOld(q[FirstYoung(q, now, window)], now, window)
<1> DEFINE Young == {i \in 1..Len(q) : ~TooOld(q[i], now, window)}
<1>1. Young \subseteq Nat /\ n \in Young
  BY LenProperties
<1>2. PICK i \in Young : \A j \in Young : ~(<<j, i>> \in OpToRel(<, Nat))
  <2> HIDE DEF Young
  <2> QED BY <1>1, NatLessThanWellFounded, WFMin
<1>3. \A j \in Young : ~(j < i)
  BY <1>1, <1>2 DEF OpToRel
<1>4. /\ i \in 1..Len(q) /\ ~TooOld(q[i], now, window)
      /\ \A j \in 1..(i - 1) : TooOld(q[j], now, window)
  <2>1. Len(q) \in Nat
    BY LenProperties
  <2> QED BY <1>3, <2>1
<1>5. DOMAIN q = 1..Len(q)
  BY LenProperties
<1> QED
  BY <1>4, <1>5 DEF FirstYoung

(* What a push leaves: the new entry last, some entries before it, and a   *)
(* first one that is not too old.                                          *)
LeavesWindow(S, p, q, e, window) ==
  /\ p \in Seq(S)
  /\ Len(p) \in Nat \ {0} /\ p[Len(p)] = e
  /\ p[1].age <= e.age + window
  /\ \E k \in Nat : \A i \in 1..(Len(p) - 1) : i + k \in 1..Len(q) /\ p[i] = q[i + k]

LEMMA PushLeaves ==
  ASSUME NEW S, \A x \in S : x.age \in Nat,
         NEW q \in Seq(S), NEW e \in S, NEW window \in Nat
  PROVE  LeavesWindow(S, Pushed(q, e, window), q, e, window)
<1> DEFINE r == Append(q, e)
           k == FirstYoung(r, e.age, window)
           p == SubSeq(r, k, Len(r))
<1>1. /\ r \in Seq(S) /\ Len(q) \in Nat /\ Len(r) = Len(q) + 1
      /\ r[Len(r)] = e /\ \A i \in 1..Len(q) : r[i] = q[i]
  BY AppendProperties, LenProperties
<1>2. e.age \in Nat
  OBVIOUS
<1>3. ~TooOld(r[Len(r)], e.age, window)
  BY <1>1, <1>2 DEF TooOld
<1>4. Len(r) \in 1..Len(r)
  BY <1>1
<1>5. k \in 1..Len(r) /\ ~TooOld(r[k], e.age, window)
  <2> HIDE DEF r
  <2> QED BY <1>1, <1>2, <1>3, <1>4, PruningStops
<1> HIDE DEF k, r
<1>6. /\ p \in Seq(S) /\ Len(p) = Len(r) - k + 1
      /\ \A i \in 1..(Len(r) - k + 1) : p[i] = r[k + i - 1]
  <2>1. \A i \in k..Len(r) : r[i] \in S
    BY <1>1, <1>5, ElementOfSeq
  <2>2. k \in Int /\ Len(r) \in Int /\ k <= Len(r)
    BY <1>1, <1>5
  <2> QED BY <2>1, <2>2, SubSeqProperties
<1> HIDE DEF p
<1>7. Len(p) \in Nat \ {0} /\ p[Len(p)] = e
  BY <1>1, <1>5, <1>6
<1>8. p[1] = r[k]
  BY <1>1, <1>5, <1>6
<1>9. r[k] \in S
  BY <1>1, <1>5, ElementOfSeq
<1>10. p[1].age <= e.age + window
  BY <1>2, <1>5, <1>8, <1>9 DEF TooOld
<1>11. ASSUME NEW i \in 1..(Len(p) - 1)
       PROVE  i + (k - 1) \in 1..Len(q) /\ p[i] = q[i + (k - 1)]
  <2>1. i \in 1..(Len(r) - k + 1) /\ i + (k - 1) \in 1..Len(q) /\ k + i - 1 = i + (k - 1)
    BY <1>1, <1>5, <1>6
  <2>2. p[i] = r[i + (k - 1)]
    BY <1>6, <2>1
  <2> QED BY <1>1, <2>1, <2>2
<1>12. k - 1 \in Nat
  BY <1>1, <1>5
<1>13. Pushed(q, e, window) = p
  BY DEF Pushed, p, k, r
<1> QED
  BY <1>6, <1>7, <1>10, <1>11, <1>12, <1>13 DEF LeavesWindow

(* A tick leaves the queue as long as it was, with every entry aged.       *)
Older1(e, cap) == [e EXCEPT !.age = IF @ < cap THEN @ + 1 ELSE @]
LeavesAged(S, p, q, cap) ==
  /\ p \in Seq(S) /\ Len(p) = Len(q)
  /\ \A i \in 1..Len(q) : p[i] = Older1(q[i], cap)

LEMMA TickLeaves ==
  ASSUME NEW S, NEW q \in Seq(S), NEW cap, \A e \in S : Older1(e, cap) \in S
  PROVE  LeavesAged(S, Aged(q, cap), q, cap)
<1> DEFINE p == Aged(q, cap)
<1>1. DOMAIN q = 1..Len(q) /\ Len(q) \in Nat
  BY LenProperties
<1>2. p = [i \in 1..Len(q) |-> Older1(q[i], cap)]
  BY <1>1 DEF Aged, Older1
<1>3. \A e \in S : Older1(e, cap) \in S
  OBVIOUS
<1> HIDE DEF p
<1>4. \A i \in 1..Len(q) : Older1(q[i], cap) \in S
  BY <1>3, ElementOfSeq
<1>5. p \in [1..Len(q) -> S]
  BY <1>2, <1>4
<1>6. p \in Seq(S)
  BY <1>5, <1>1, SeqDef
<1>7. Len(p) = Len(q)
  BY <1>5, <1>6, <1>1, LenProperties
<1> QED
  BY <1>2, <1>6, <1>7 DEF LeavesAged, p

=============================================================================
