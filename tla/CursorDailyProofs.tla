--------------------------- MODULE CursorDailyProofs ---------------------------
(***************************************************************************)
(* Lemmas about CursorDaily: its steps preserve DailyInv, however many     *)
(* events there are and wherever late ones are listed.                     *)
(***************************************************************************)
EXTENDS CursorDaily, TLAPS

LEMMA DailyStarts == DailyInit /\ 1 \in PageLengths \union {1} => DailyInv
  <1> SUFFICES ASSUME DailyInit PROVE DailyInv
    OBVIOUS
  <1>1. DailyTypeOK
    BY DailyAssumption DEF DailyInit, DailyTypeOK
  <1>2. ListingInv
    BY DailyAssumption DEF DailyInit, ListingInv
  <1>3. PrefixInv
    BY DEF DailyInit, PrefixInv
  <1> QED BY <1>1, <1>2, <1>3 DEF DailyInv

LEMMA StartDailyInv == DailyInv /\ StartDaily => DailyInv'
  <1> SUFFICES ASSUME DailyInv, StartDaily PROVE DailyInv'
    OBVIOUS
  <1> PICK n \in 0..MaxEvents : listing' = Oldest(n) /\ unpriced' \in 0..n
    BY DEF StartDaily
  <1>1. n \in Nat /\ n <= MaxEvents /\ MaxEvents \in Nat
    BY DailyAssumption
  <1>2. /\ listing' \in Seq(Events) /\ Len(listing') = n
        /\ \A i \in 1..n : listing'[i] = i
    BY <1>1 DEF Oldest, Events
  <1>3. DailyTypeOK'
    BY <1>1, <1>2 DEF DailyInv, DailyTypeOK, StartDaily, sum
  <1>4. ListingInv'
    BY <1>1, <1>2 DEF ListingInv
  <1>5. PrefixInv'
    BY DEF DailyInv, PrefixInv, StartDaily, sum
  <1> QED BY <1>3, <1>4, <1>5 DEF DailyInv

LEMMA SkipDailyInv == DailyInv /\ SkipDaily => DailyInv'
  BY DEF DailyInv, DailyTypeOK, ListingInv, PrefixInv, SkipDaily, dashboard, sum

\* An event is put into the listing at some place.
LEMMA InsertedListing ==
  ASSUME NEW i \in 0..Len(listing), listing \in Seq(Events),
         Len(listing) < MaxEvents, ListingInv
  PROVE  /\ Inserted(i) \in Seq(Events) /\ Len(Inserted(i)) = Len(listing) + 1
         /\ \A j \in 1..(Len(listing) + 1) : Inserted(i)[j] <= Len(listing) + 1
         /\ \A j, k \in 1..(Len(listing) + 1) :
              Inserted(i)[j] = Inserted(i)[k] => j = k
  <1> DEFINE n == Len(listing)
             new == Inserted(i)
  <1>1. n \in Nat /\ MaxEvents \in Nat /\ i \in Nat /\ i <= n
    BY DailyAssumption
  <1>2. \A j \in 1..n : listing[j] \in Nat /\ listing[j] \in Events /\ listing[j] <= n
    BY <1>1 DEF Events, ListingInv
  <1>3. n + 1 \in Events
    BY <1>1 DEF Events
  <1>4. \A j \in 1..(n + 1) :
          new[j] = IF j <= i THEN listing[j]
                   ELSE IF j = i + 1 THEN n + 1 ELSE listing[j - 1]
    BY DEF Inserted
  <1>5. \A j \in 1..(n + 1) : (j <= i => j \in 1..n) /\ (j > i + 1 => j - 1 \in 1..n)
    BY <1>1
  <1>6. ASSUME NEW j \in 1..(n + 1)
        PROVE  new[j] \in Events /\ new[j] <= n + 1
    <2>1. CASE j <= i
      BY <2>1, <1>1, <1>2, <1>4, <1>5
    <2>2. CASE j = i + 1
      BY <2>2, <1>1, <1>3, <1>4
    <2>3. CASE j > i + 1
      BY <2>3, <1>1, <1>2, <1>4, <1>5
    <2> QED BY <1>1, <2>1, <2>2, <2>3
  <1>7. new \in [1..(n + 1) -> Events]
    BY <1>6 DEF Inserted
  <1>8. new \in Seq(Events) /\ Len(new) = n + 1
    BY <1>1, <1>7
  <1>9. ASSUME NEW j \in 1..(n + 1), NEW k \in 1..(n + 1), new[j] = new[k]
        PROVE  j = k
    <2>1. \A q \in 1..(n + 1) : q <= i \/ q = i + 1 \/ q > i + 1
      BY <1>1
    <2>2. \A p, q \in 1..n : listing[p] = listing[q] => p = q
      BY DEF ListingInv
    <2>3. CASE j = i + 1
      BY <2>1, <2>3, <1>1, <1>2, <1>4, <1>5, <1>9
    <2>4. CASE k = i + 1
      BY <2>1, <2>4, <1>1, <1>2, <1>4, <1>5, <1>9
    <2>5. CASE j <= i
      BY <2>1, <2>2, <2>4, <2>5, <1>1, <1>4, <1>5, <1>9
    <2>6. CASE j > i + 1
      BY <2>1, <2>2, <2>4, <2>6, <1>1, <1>4, <1>5, <1>9
    <2> QED BY <2>1, <2>3, <2>5, <2>6
  <1> QED BY <1>6, <1>8, <1>9

LEMMA ArriveInv == DailyInv /\ Arrive => DailyInv'
  <1> SUFFICES ASSUME DailyInv, Arrive PROVE DailyInv'
    OBVIOUS
  <1> PICK i \in 0..Len(listing) : listing' = Inserted(i)
    BY DEF Arrive
  <1>1. listing \in Seq(Events) /\ Len(listing) \in Nat /\ MaxEvents \in Nat /\ total \in Nat
    BY DailyAssumption DEF DailyInv, DailyTypeOK
  <1>2. /\ listing' \in Seq(Events) /\ Len(listing') = Len(listing) + 1
        /\ \A j \in 1..Len(listing') : listing'[j] <= Len(listing')
        /\ \A j, k \in 1..Len(listing') : listing'[j] = listing'[k] => j = k
    BY <1>1, InsertedListing DEF DailyInv, Arrive
  <1>3. DailyTypeOK'
    BY <1>2 DEF DailyInv, DailyTypeOK, Arrive, sum
  <1>4. ListingInv'
    BY <1>1, <1>2 DEF ListingInv, Arrive
  <1>5. PrefixInv'
    BY <1>1, <1>2 DEF DailyInv, PrefixInv, Arrive, sum
  <1> QED BY <1>3, <1>4, <1>5 DEF DailyInv

LEMMA PageFailsInv == DailyInv /\ PageFails => DailyInv'
  <1> SUFFICES ASSUME DailyInv, PageFails PROVE DailyInv'
    OBVIOUS
  <1>1. DailyTypeOK'
    BY DEF DailyInv, DailyTypeOK, PageFails, sum, dashboard
  <1>2. ListingInv'
    BY DEF DailyInv, ListingInv, PageFails, dashboard
  <1>3. PrefixInv'
    BY DEF DailyInv, PrefixInv, PageFails, sum, dashboard
  <1> QED BY <1>1, <1>2, <1>3 DEF DailyInv

\* An acceptable page is the next positions of an unchanged listing.
LEMMA ReadPageInv == DailyInv /\ ReadPage => DailyInv'
  <1> SUFFICES ASSUME DailyInv, ReadPage PROVE DailyInv'
    OBVIOUS
  <1>0. /\ listing \in Seq(Events) /\ Len(listing) \in Nat /\ total \in Nat
        /\ offset \in Nat /\ seen \in Nat /\ page \in Nat /\ length \in Nat \ {0}
        /\ times \in [Events -> Nat] /\ MaxPages \in Nat
    BY DailyAssumption DEF DailyInv, DailyTypeOK
  <1>1. CASE ~Acceptable
    <2>1. DailyTypeOK'
      BY <1>1 DEF DailyInv, DailyTypeOK, ReadPage, sum, dashboard
    <2>2. ListingInv'
      BY <1>1 DEF DailyInv, ListingInv, ReadPage, dashboard
    <2>3. PrefixInv'
      BY <1>1 DEF DailyInv, PrefixInv, ReadPage, sum, dashboard
    <2> QED BY <2>1, <2>2, <2>3 DEF DailyInv
  <1>2. CASE Acceptable
    <2>1. /\ PageLength \in Nat /\ Total = Len(listing)
          /\ seen + PageLength <= Len(listing)
      BY <1>0, <1>2 DEF Acceptable, Steady, PageLength
    <2>2. /\ total' = Len(listing) /\ seen' = seen + PageLength
          /\ page' = page + 1 /\ offset' = offset + length
          /\ reading' \in {"pages", "complete", "nil"}
          /\ reading' = "complete" => seen' = total'
          /\ UNCHANGED <<listing, length, unpriced>>
          /\ times' = [e \in Events |->
                         IF \E i \in OnPage : listing[i] = e
                           THEN times[e] + 1 ELSE times[e]]
      BY <1>2, <2>1 DEF ReadPage, dashboard
    <2>3. reading = "pages"
      BY DEF ReadPage
    <2>4. seen = IF offset < Len(listing) THEN offset ELSE Len(listing)
      <3>1. CASE page = 1
        BY <3>1, <1>0 DEF DailyInv, PrefixInv
      <3>2. CASE page # 1
        BY <3>2, <1>0, <2>1, <2>3 DEF DailyInv, PrefixInv, Total
      <3> QED BY <3>1, <3>2
    <2>5. \A i \in 1..Len(listing) :
            /\ times[listing[i]] = IF i <= seen THEN 1 ELSE 0
            /\ i <= seen => listing[i] # unpriced
      <3>1. CASE page = 1
        BY <3>1, <1>0 DEF DailyInv, PrefixInv
      <3>2. CASE page # 1
        BY <3>2, <1>0, <2>1, <2>3 DEF DailyInv, PrefixInv, Total
      <3> QED BY <3>1, <3>2
    <2>6. seen' = IF offset' < Len(listing) THEN offset' ELSE Len(listing)
      <3>1. CASE Len(listing) <= offset
        BY <1>0, <2>2, <2>4, <3>1 DEF PageLength
      <3>2. CASE offset < Len(listing) /\ Len(listing) < offset + length
        BY <1>0, <2>2, <2>4, <3>2 DEF PageLength
      <3>3. CASE offset < Len(listing) /\ offset + length <= Len(listing)
        <4>1. PageLength = length /\ seen = offset
          BY <1>0, <2>4, <3>3 DEF PageLength
        <4>2. seen' = offset + length /\ offset' = offset + length
          BY <2>2, <4>1
        <4>3. offset' = Len(listing) \/ offset' < Len(listing)
          BY <1>0, <3>3, <4>2
        <4> QED BY <1>0, <4>2, <4>3
      <3> QED BY <1>0, <3>1, <3>2, <3>3
    <2>7. \A i \in 1..Len(listing) : i \in OnPage <=> seen < i /\ i <= seen'
      BY <1>0, <2>2, <2>4, <2>6 DEF OnPage
    <2>8. \A i \in 1..Len(listing) :
            /\ times'[listing[i]] = IF i <= seen' THEN 1 ELSE 0
            /\ i <= seen' => listing[i] # unpriced
      <3> SUFFICES ASSUME NEW i \in 1..Len(listing)
                   PROVE  /\ times'[listing[i]] = IF i <= seen' THEN 1 ELSE 0
                          /\ i <= seen' => listing[i] # unpriced
        OBVIOUS
      <3>1. listing[i] \in Events /\ i \in Nat
        BY <1>0
      <3>2. (\E j \in OnPage : listing[j] = listing[i]) <=> i \in OnPage
        BY <1>0 DEF OnPage, DailyInv, ListingInv
      <3>3. times'[listing[i]] = IF i \in OnPage THEN times[listing[i]] + 1
                                 ELSE times[listing[i]]
        BY <2>2, <3>1, <3>2
      <3>4. i \in OnPage => listing[i] # unpriced
        BY <1>2 DEF Acceptable, Priced
      <3>5. seen <= seen' /\ seen' \in Nat
        BY <1>0, <2>1, <2>2
      <3> QED BY <1>0, <2>5, <2>7, <3>1, <3>3, <3>4, <3>5
    <2>9. DailyTypeOK'
      <3>1. times' \in [Events -> Nat]
        BY <1>0, <2>2
      <3> QED BY <1>0, <2>1, <2>2, <3>1 DEF DailyInv, DailyTypeOK
    <2>10. ListingInv'
      BY <2>2 DEF DailyInv, ListingInv
    <2>11. PrefixInv'
      <3>1. page' # 1 /\ reading' # "off"
        <4>1. page # 0
          BY DEF DailyInv, PrefixInv
        <4> QED BY <4>1, <1>0, <2>2
      <3>2. seen' \in Nat /\ total' \in Nat /\ page' # 0
        BY <1>0, <2>1, <2>2
      <3>3. Len(listing') = Len(listing) /\ total' = Len(listing')
        BY <2>2
      <3>4. seen' = IF offset' < total' THEN offset' ELSE total'
        BY <2>2, <2>6
      <3>5. \A i \in 1..total' :
              /\ times'[listing'[i]] = IF i <= seen' THEN 1 ELSE 0
              /\ i <= seen' => listing'[i] # unpriced'
        BY <2>2, <2>8
      <3> QED BY <2>2, <3>1, <3>2, <3>3, <3>4, <3>5 DEF PrefixInv
    <2> QED BY <2>9, <2>10, <2>11 DEF DailyInv
  <1> QED BY <1>1, <1>2

LEMMA DailyCompleteHolds == DailyInv => DailyComplete
  <1> SUFFICES ASSUME DailyInv, reading = "complete", NEW i \in 1..Len(listing)
               PROVE  times[listing[i]] = 1 /\ listing[i] # unpriced
    BY DEF DailyComplete
  <1>1. page # 1 /\ total = Len(listing) /\ seen = total
    BY DEF DailyInv, PrefixInv
  <1> QED BY <1>1 DEF DailyInv, PrefixInv
================================================================================
