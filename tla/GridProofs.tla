----------------------------- MODULE GridProofs -----------------------------
(* Facts about the decision of Grid.tla, for every ladder and every price. *)
EXTENDS Grid, FiniteSetTheorems, WellFoundedInduction, TLAPS

(* LeastOf finds the least element of any non-empty set of naturals.  The  *)
(* code takes it of sorted(...)[0] and of its two upward scans.            *)
LEMMA LeastIsThere ==
    ASSUME NEW S, S \subseteq Nat, S # {}
    PROVE  /\ LeastOf(S) \in S
           /\ \A j \in S : LeastOf(S) <= j
<1> DEFINE R == {ss \in Nat \X Nat : ss[1] < ss[2]}
<1>1. R = OpToRel(<, Nat)
  BY Zenon DEF OpToRel
<1>2. IsWellFoundedOn(R, Nat)
  BY <1>1, NatLessThanWellFounded, Zenon
<1>3. PICK x \in S : \A y \in S : <<y, x>> \notin R
  <2> HIDE DEF R
  <2> QED  BY <1>2, WFMin, Zenon
<1>4. ASSUME NEW y \in S  PROVE x <= y
  <2>1. x \in Nat /\ y \in Nat
    OBVIOUS
  <2>2. y < x => <<y, x>> \in R
    BY <2>1
  <2> HIDE DEF R
  <2> QED  BY <1>3, <2>1, <2>2
<1> QED  BY <1>4 DEF LeastOf

(* The rungs a price reaches are the first ones: the scan of               *)
(* level_for_price stops at the first rung above the price.                *)
LEMMA ReachedIsAPrefix ==
    ASSUME NEW g, IsLadder(g), NEW price \in Int
    PROVE  \E k \in Nat : /\ Reached(g, price) = 0 .. k-1
                          /\ k <= Cardinality(DOMAIN g)
                          /\ k \in DOMAIN g => price < g[k]
<1> DEFINE n == Cardinality(DOMAIN g)
           Beyond == {i \in Nat : i \notin Reached(g, price)}
           k == LeastOf(Beyond)
<1>1. n \in Nat /\ DOMAIN g = 0 .. n-1
  BY FS_CardinalityType DEF IsLadder
<1>2. n \in Beyond
  BY <1>1 DEF Reached
<1> HIDE DEF n
<1>3. k \in Nat /\ k <= n /\ k \notin Reached(g, price) /\ \A j \in Beyond : k <= j
  BY <1>2, LeastIsThere
<1> HIDE DEF k
<1>4. \A i \in 0 .. k-1 : i \in Reached(g, price)
  BY <1>3
<1>5. \A i \in Reached(g, price) : i < k
  <2> SUFFICES ASSUME NEW i \in Reached(g, price), k <= i
               PROVE  FALSE
    BY <1>1, <1>3 DEF Reached
  <2>1. k \in DOMAIN g /\ \A j \in 0 .. k : price >= g[j]
    BY <1>1, <1>3 DEF Reached
  <2> QED  BY <2>1, <1>3 DEF Reached
<1>6. Reached(g, price) = 0 .. k-1
  BY <1>1, <1>3, <1>4, <1>5 DEF Reached
<1>7. k \in DOMAIN g => price < g[k]
  <2> SUFFICES ASSUME k \in DOMAIN g  PROVE price < g[k]
    OBVIOUS
  <2>1. \A j \in 0 .. k-1 : price >= g[j]
    BY <1>1, <1>3, <1>4 DEF Reached
  <2>2. PICK j \in 0 .. k : ~(price >= g[j])
    BY <1>3 DEF Reached
  <2>3. j = k
    BY <2>1, <2>2, <1>3
  <2>4. g[k] \in Int
    BY DEF IsLadder
  <2> QED  BY <2>2, <2>3, <2>4
<1> QED  BY <1>3, <1>6, <1>7 DEF n

(* level_for_price returns -1 or a rung, and stands right under the price: *)
(* its own level is at or below it and the next one is above it.           *)
LEMMA LevelStandsUnderPrice ==
    ASSUME NEW g, IsLadder(g), NEW price \in Int,
           NEW idx, idx = LevelForPrice(g, price)
    PROVE  /\ idx \in Int
           /\ idx >= -1
           /\ idx >= 0 => idx \in DOMAIN g /\ g[idx] <= price
           /\ idx+1 \in DOMAIN g => price < g[idx+1]
<1>1. PICK k \in Nat : /\ Reached(g, price) = 0 .. k-1
                       /\ k <= Cardinality(DOMAIN g)
                       /\ k \in DOMAIN g => price < g[k]
  BY ReachedIsAPrefix
<1>2. Cardinality(Reached(g, price)) = k
  BY <1>1, FS_Interval
<1>3. idx = k - 1
  BY <1>2 DEF LevelForPrice
<1>4. idx >= 0 => idx \in Reached(g, price)
  BY <1>1, <1>3
<1>5. idx >= 0 /\ idx \in Reached(g, price) => idx \in DOMAIN g /\ price >= g[idx]
  BY <1>3 DEF Reached
<1>6. idx \in DOMAIN g => g[idx] \in Int
  BY DEF IsLadder
<1> QED  BY <1>1, <1>3, <1>4, <1>5, <1>6

(* decide sells a lot that is held and whose target is reached, and buys a *)
(* rung that is empty, at or below the centre, with the price in its band. *)
LEMMA DecisionIsSound ==
    ASSUME NEW g, IsLadder(g) \/ g = NoGrid, NEW price \in Int,
           NEW filled, filled \subseteq Nat, NEW center \in Int,
           NEW d, d = Decide(g, price, filled, center)
    PROVE  /\ d \in [action : {"hold", "buy", "sell"}, level : Int]
           /\ d.action = "sell" => /\ d.level \in filled
                                   /\ d.level + 1 \in DOMAIN g
                                   /\ price >= g[d.level + 1]
           /\ d.action = "buy" => /\ d.level \in DOMAIN g
                                  /\ d.level \in Nat
                                  /\ d.level \notin filled
                                  /\ d.level <= center
                                  /\ d.level + 1 \in DOMAIN g => price < g[d.level + 1]
<1> DEFINE idx == LevelForPrice(g, price)
           sellable == Sellable(g, price, filled)
<1>1. CASE g = NoGrid
  <2>1. Reached(g, price) = {}
    BY <1>1 DEF Reached, NoGrid
  <2>2. idx < 0
    BY <2>1, FS_EmptySet DEF LevelForPrice
  <2>3. d = Hold
    BY <2>2 DEF Decide
  <2> QED  BY <2>3 DEF Hold
<1>2. CASE IsLadder(g)
  <2>1. /\ idx \in Int
        /\ idx >= 0 => idx \in DOMAIN g
        /\ idx+1 \in DOMAIN g => price < g[idx+1]
    BY <1>2, LevelStandsUnderPrice
  <2>2. sellable # {} => LeastOf(sellable) \in sellable
    BY LeastIsThere DEF Sellable
  <2>3. \/ d = Hold
        \/ sellable # {} /\ d = [action |-> "sell", level |-> LeastOf(sellable)]
        \/ /\ idx >= 0 /\ idx <= center /\ idx \notin filled
           /\ d = [action |-> "buy", level |-> idx]
    <3> HIDE DEF idx, sellable
    <3> QED  BY <2>1 DEF Decide, idx, sellable
  <2>4. CASE d = Hold
    BY <2>4 DEF Hold
  <2>5. CASE sellable # {} /\ d = [action |-> "sell", level |-> LeastOf(sellable)]
    <3> DEFINE i == LeastOf(sellable)
    <3>1. i \in filled /\ i \in Nat /\ i+1 \in DOMAIN g /\ price >= g[i+1]
      BY <2>2, <2>5 DEF Sellable
    <3> HIDE DEF i
    <3> QED  BY <2>5, <3>1 DEF i
  <2>6. CASE /\ idx >= 0 /\ idx <= center /\ idx \notin filled
             /\ d = [action |-> "buy", level |-> idx]
    <3> HIDE DEF idx
    <3> QED  BY <2>1, <2>6
  <2> QED  BY <2>3, <2>4, <2>5, <2>6
<1> QED  BY <1>1, <1>2

-----------------------------------------------------------------------------
(* The loop of update_grid *)

(* The keys of the lots are visited in an order without ties or cycles,    *)
(* although it is not that of the rungs.                                   *)
LEMMA KeysAreOrdered ==
    /\ \A i, k \in Nat : i # k => KeyBefore(i, k) \/ KeyBefore(k, i)
    /\ \A i, j, k \in Nat : KeyBefore(i, j) /\ KeyBefore(j, k) => KeyBefore(i, k)
<1>1. \A i \in Nat : LeadingDigit(i) \in Int
  <2>1. \A i \in Nat : i \div 10 \in Int
    OBVIOUS
  <2> QED  BY <2>1 DEF LeadingDigit
<1>2. ASSUME NEW i \in Nat, NEW k \in Nat, i # k
      PROVE  KeyBefore(i, k) \/ KeyBefore(k, i)
  BY <1>1, <1>2 DEF KeyBefore
<1>3. ASSUME NEW i \in Nat, NEW j \in Nat, NEW k \in Nat, KeyBefore(i, j), KeyBefore(j, k)
      PROVE  KeyBefore(i, k)
  BY <1>1, <1>3 DEF KeyBefore
<1> QED  BY <1>2, <1>3

(* The nudging loop ends on the new ladder, no lower than it began, and on *)
(* a rung that is taken only if that is the top one.                       *)
LEMMA NudgedUpwards ==
    ASSUME NEW g, IsLadder(g), NEW base \in 0 .. Top(g), NEW taken,
           NEW r, r = Nudged(g, base, taken)
    PROVE  /\ r \in DOMAIN g /\ r \in Nat
           /\ base <= r /\ r <= Top(g)
           /\ r \in taken => r = Top(g)
<1> DEFINE S == {j \in base .. Top(g) : j \notin taken \/ j = Top(g)}
<1>1. Cardinality(DOMAIN g) \in Nat /\ DOMAIN g = 0 .. Top(g) /\ Top(g) \in Int
  BY FS_CardinalityType DEF IsLadder, Top
<1>2. Top(g) \in S
  BY <1>1
<1>3. S \subseteq Nat /\ S # {}
  BY <1>1, <1>2
<1>4. r \in S
  BY <1>3, LeastIsThere DEF Nudged
<1> QED  BY <1>1, <1>4

(* The rung the search for a lot's place begins at. *)
LEMMA SearchBegins ==
    ASSUME NEW g, IsLadder(g), NEW price \in Int,
           NEW base, base = IF LevelForPrice(g, price) < 0 THEN 0 ELSE LevelForPrice(g, price)
    PROVE  /\ base \in 0 .. Top(g)
           /\ base + 1 \in DOMAIN g => price < g[base + 1]
<1> DEFINE level == LevelForPrice(g, price)
<1>1. Cardinality(DOMAIN g) \in Nat /\ DOMAIN g = 0 .. Top(g) /\ Top(g) \in Int /\ Top(g) >= 1
  BY FS_CardinalityType DEF IsLadder, Top
<1>2. /\ level \in Int /\ level >= -1
      /\ level >= 0 => level \in DOMAIN g
      /\ level + 1 \in DOMAIN g => price < g[level + 1]
  BY LevelStandsUnderPrice
<1>3. base = IF level < 0 THEN 0 ELSE level
  OBVIOUS
<1> HIDE DEF level
<1>4. CASE level >= 0
  BY <1>1, <1>2, <1>3, <1>4
<1>5. CASE level < 0
  <2>1. level = -1 /\ base = 0 /\ price < g[0] /\ 0 \in DOMAIN g /\ 1 \in DOMAIN g
    BY <1>1, <1>2, <1>3, <1>5
  <2>2. g[0] < g[1] /\ g[0] \in Int /\ g[1] \in Int
    BY <2>1 DEF IsLadder
  <2>3. price < g[1]
    BY <2>1, <2>2
  <2> QED  BY <1>1, <2>1, <2>3
<1> QED  BY <1>2, <1>4, <1>5

(* update_grid's docstring: a lot "keeps its sell target's meaning": on    *)
(* whatever ladder it lands, and whichever lots were placed before it, the *)
(* rung it is now to be sold at lies above the price of the rung it was    *)
(* bought on.                                                              *)
THEOREM UpdatesKeepTargetsAbovePrice ==
    ASSUME NEW old, NEW new, IsLadder(old), IsLadder(new),
           NEW filled, filled \subseteq DOMAIN old, NEW m, IsPlacement(old, new, filled, m),
           NEW i \in filled
    PROVE  /\ m[i] \in DOMAIN new
           /\ m[i] + 1 \in DOMAIN new => old[i] < new[m[i] + 1]
<1> DEFINE taken == {m[k] : k \in {k \in filled : KeyBefore(k, i)}}
           level == LevelForPrice(new, old[i])
           base  == IF level < 0 THEN 0 ELSE level
<1>1. m[i] = Nudged(new, base, taken)
  BY Zenon DEF IsPlacement
<1>2. old[i] \in Int
  BY DEF IsLadder
<1>3. base \in 0 .. Top(new) /\ (base + 1 \in DOMAIN new => old[i] < new[base + 1])
  BY <1>2, SearchBegins
<1> HIDE DEF base, taken
<1>4. m[i] \in DOMAIN new /\ m[i] \in Nat /\ base <= m[i]
  BY <1>1, <1>3, NudgedUpwards
<1>5. ASSUME m[i] + 1 \in DOMAIN new  PROVE old[i] < new[m[i] + 1]
  <2>1. DOMAIN new = 0 .. Cardinality(DOMAIN new) - 1 /\ Cardinality(DOMAIN new) \in Nat
    BY FS_CardinalityType DEF IsLadder
  <2>2. base + 1 \in DOMAIN new /\ base + 1 <= m[i] + 1 /\ base + 1 \in Int
    BY <1>3, <1>4, <1>5, <2>1
  <2>3. new[base + 1] <= new[m[i] + 1] /\ new[base + 1] \in Int /\ new[m[i] + 1] \in Int
    <3>1. CASE base + 1 = m[i] + 1
      BY <1>5, <3>1 DEF IsLadder
    <3>2. CASE base + 1 < m[i] + 1
      BY <1>5, <2>2, <3>2 DEF IsLadder
    <3> QED  BY <1>4, <2>2, <3>1, <3>2
  <2> QED  BY <1>2, <1>3, <2>2, <2>3
<1> QED  BY <1>4, <1>5

(* update_grid: "Two old lots can land on one new rung; keep them separate *)
(* by nudging up": two lots are only ever brought together, and one of     *)
(* them lost to the ledger, on the top rung of the new ladder.             *)
THEOREM LotsMeetOnTheTopRung ==
    ASSUME NEW old, NEW new, IsLadder(old), IsLadder(new),
           NEW filled, filled \subseteq DOMAIN old, NEW m, IsPlacement(old, new, filled, m),
           NEW i \in filled, NEW j \in filled, i # j, m[i] = m[j]
    PROVE  m[i] = Top(new)
<1>1. \A a, b \in filled : KeyBefore(a, b) /\ m[a] = m[b] => m[b] = Top(new)
  <2> SUFFICES ASSUME NEW a \in filled, NEW b \in filled, KeyBefore(a, b), m[a] = m[b]
               PROVE  m[b] = Top(new)
    OBVIOUS
  <2> DEFINE taken == {m[k] : k \in {k \in filled : KeyBefore(k, b)}}
             level == LevelForPrice(new, old[b])
             base  == IF level < 0 THEN 0 ELSE level
  <2>1. m[b] = Nudged(new, base, taken)
    BY Zenon DEF IsPlacement
  <2>2. old[b] \in Int
    BY DEF IsLadder
  <2>3. base \in 0 .. Top(new)
    BY <2>2, SearchBegins
  <2>4. m[b] \in taken
    OBVIOUS
  <2> HIDE DEF base, taken
  <2> QED  BY <2>1, <2>3, <2>4, NudgedUpwards
<1>2. i \in Nat /\ j \in Nat
  <2>1. Cardinality(DOMAIN old) \in Nat
    BY FS_CardinalityType DEF IsLadder
  <2> QED  BY <2>1 DEF IsLadder
<1>3. KeyBefore(i, j) \/ KeyBefore(j, i)
  BY <1>2, KeysAreOrdered
<1> QED  BY <1>1, <1>3
=============================================================================
