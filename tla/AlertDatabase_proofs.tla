------------------------ MODULE AlertDatabase_proofs ------------------------
(***************************************************************************)
(* What the statements of AlertDatabase preserve, for every database and   *)
(* every alert.                                                            *)
(***************************************************************************)
EXTENDS AlertDatabase, TLAPS

(* The upsert of a row is a row that saw the MJD and did not forget the    *)
(* latest one it had seen.                                                 *)
LEMMA UpsertRow ==
    ASSUME NEW r \in Tracking \cup {None}, NEW mjd \in Nat
    PROVE  /\ Upsert(r, mjd) \in Tracking
           /\ Upsert(r, mjd).last >= mjd
           /\ r # None => Upsert(r, mjd).last >= r.last
<1>1. CASE r = None
  BY <1>1 DEF Upsert, Tracking
<1>2. CASE r # None
  BY <1>2 DEF Upsert, Tracking
<1> QED BY <1>1, <1>2

(* Tracking an alert's source changes the row of that source only.         *)
LEMMA TrackSourceRows ==
    ASSUME NEW src \in [Sources -> Tracking \cup {None}], NEW a \in Alerts
    PROVE  /\ TrackSource(src, a) \in [Sources -> Tracking \cup {None}]
           /\ TrackSource(src, a)[SourceOf[a]]
                = Upsert(src[SourceOf[a]], MjdOf[a])
           /\ \A s \in Sources :
                 s # SourceOf[a] => TrackSource(src, a)[s] = src[s]
<1>1. SourceOf[a] \in Sources /\ MjdOf[a] \in Nat
  BY AlertsAssumption
<1>2. Upsert(src[SourceOf[a]], MjdOf[a]) \in Tracking
  BY <1>1, UpsertRow
<1> QED BY <1>1, <1>2 DEF TrackSource

(* Adding an alert to the table together with the upsert of its source, or *)
(* the upsert alone for an alert of a source in the table, keeps the two   *)
(* tables in agreement.                                                    *)
LEMMA TrackingPreserved ==
    ASSUME NEW d \in Database, NEW e \in Database, NEW a \in Alerts,
           NEW h \in Nat, Tracked(d, h),
           e.src = TrackSource(d.src, a),
           d.raw \subseteq e.raw, e.raw \subseteq d.raw \cup {a},
           \E b \in e.raw : SourceOf[b] = SourceOf[a]
    PROVE  Tracked(e, h)
<1> DEFINE sa == SourceOf[a]
<1>1. sa \in Sources /\ MjdOf[a] \in Nat
  BY AlertsAssumption
<1>2. d.src \in [Sources -> Tracking \cup {None}] /\ d.raw \subseteq Alerts
  BY DEF Database
<1>3. /\ e.src[sa] = Upsert(d.src[sa], MjdOf[a])
      /\ \A s \in Sources : s # sa => e.src[s] = d.src[s]
  BY <1>2, TrackSourceRows
<1>4. /\ e.src[sa] \in Tracking
      /\ e.src[sa].last >= MjdOf[a]
      /\ d.src[sa] # None => e.src[sa].last >= d.src[sa].last
  BY <1>1, <1>2, <1>3, UpsertRow
<1>5. e.src[sa] # None
  BY <1>4, NoneAssumption
<1>6. \A b \in d.raw : SourceOf[b] \in Sources /\ MjdOf[b] \in Nat
  BY <1>2, AlertsAssumption
<1>7. NoPhantomSource(e)
  BY <1>3 DEF NoPhantomSource, Tracked
<1>8. RecentSourceTracked(e, h)
  BY <1>3, <1>5, <1>6 DEF RecentSourceTracked, Tracked
<1>9. LastSeenCovers(e, h)
  <2>1. SUFFICES ASSUME NEW b \in e.raw, MjdOf[b] >= h, e.src[SourceOf[b]] # None
                 PROVE  e.src[SourceOf[b]].last >= MjdOf[b]
    BY DEF LastSeenCovers
  <2>2. CASE b = a
    BY <2>2, <1>4
  <2>3. CASE b \in d.raw /\ SourceOf[b] # sa
    BY <2>1, <2>3, <1>3, <1>6 DEF Tracked, LastSeenCovers
  <2>4. CASE b \in d.raw /\ SourceOf[b] = sa
    <3>1. d.src[sa] # None /\ d.src[sa].last >= MjdOf[b]
      BY <2>1, <2>4 DEF Tracked, RecentSourceTracked, LastSeenCovers
    <3>2. d.src[sa].last \in Nat /\ e.src[sa].last \in Nat /\ MjdOf[b] \in Nat
      BY <3>1, <2>4, <1>1, <1>2, <1>4, <1>6 DEF Tracking
    <3> QED BY <3>1, <3>2, <2>4, <1>4
  <2> QED BY <2>2, <2>3, <2>4
<1> QED BY <1>7, <1>8, <1>9 DEF Tracked

(* One row of write_batch: afterwards the key of the row is stored, nothing *)
(* that was stored is lost, and the tables still agree.                    *)
LEMMA InsertPreserves ==
    ASSUME NEW d \in Database, NEW a \in Alerts, NEW h \in Nat, Tracked(d, h)
    PROVE  /\ InsertOrIgnore(d, a) \in Database
           /\ d.raw \subseteq InsertOrIgnore(d, a).raw
           /\ Stored(InsertOrIgnore(d, a), a)
           /\ Tracked(InsertOrIgnore(d, a), h)
<1>1. CASE Stored(d, a)
  BY <1>1 DEF InsertOrIgnore
<1>2. CASE ~ Stored(d, a)
  <2> DEFINE e == [raw |-> d.raw \cup {a}, src |-> TrackSource(d.src, a)]
  <2>1. InsertOrIgnore(d, a) = e
    BY <1>2 DEF InsertOrIgnore
  <2>2. e \in Database
    BY TrackSourceRows DEF Database
  <2>3. Stored(e, a)
    BY DEF Stored, SameKey
  <2>4. Tracked(e, h)
    <3>1. /\ e.src = TrackSource(d.src, a)
          /\ d.raw \subseteq e.raw
          /\ e.raw \subseteq d.raw \cup {a}
          /\ \E b \in e.raw : SourceOf[b] = SourceOf[a]
      OBVIOUS
    <3> HIDE DEF e
    <3> QED BY <3>1, <2>2, TrackingPreserved
  <2> QED BY <2>1, <2>2, <2>3, <2>4
<1> QED BY <1>1, <1>2

(* update_processed_source for an alert whose key is stored.               *)
LEMMA UpdatePreserves ==
    ASSUME NEW d \in Database, NEW a \in Alerts, NEW h \in Nat, Tracked(d, h),
           Stored(d, a)
    PROVE  /\ UpdateProcessedSource(d, a) \in Database
           /\ UpdateProcessedSource(d, a).raw = d.raw
           /\ Tracked(UpdateProcessedSource(d, a), h)
<1> DEFINE e == UpdateProcessedSource(d, a)
<1>1. e.raw = d.raw /\ e.src = TrackSource(d.src, a)
  BY DEF UpdateProcessedSource
<1>2. e \in Database
  BY TrackSourceRows DEF UpdateProcessedSource, Database
<1>3. \E b \in e.raw : SourceOf[b] = SourceOf[a]
  BY <1>1 DEF Stored, SameKey
<1> HIDE DEF e
<1>4. Tracked(e, h)
  BY <1>1, <1>2, <1>3, TrackingPreserved
<1> QED BY <1>1, <1>2, <1>4 DEF e

(* Retention with threshold t, from horizon h: it moves the horizon far    *)
(* enough that every source it forgets has no alert at or after it.        *)
LEMMA CleanupPreserves ==
    ASSUME NEW d \in Database, NEW h \in Nat, NEW t \in Nat, Tracked(d, h)
    PROVE  /\ CleanupOldState(d, t) \in Database
           /\ CleanupOldState(d, t).raw = d.raw
           /\ Tracked(CleanupOldState(d, t), IF h < t THEN t ELSE h)
<1> DEFINE e == CleanupOldState(d, t)
           k == IF h < t THEN t ELSE h
<1>1. d.src \in [Sources -> Tracking \cup {None}] /\ d.raw \subseteq Alerts
  BY DEF Database
<1>2. /\ e.raw = d.raw
      /\ e \in Database
      /\ \A s \in Sources : \/ e.src[s] = d.src[s]
                            \/ /\ e.src[s] = None
                               /\ d.src[s] # None
                               /\ d.src[s].last < t
  BY <1>1 DEF CleanupOldState, Database
<1>3. \A a \in d.raw : SourceOf[a] \in Sources /\ MjdOf[a] \in Nat
  BY <1>1, AlertsAssumption
<1>4. NoPhantomSource(e)
  BY <1>2 DEF NoPhantomSource, Tracked
<1>5. k \in Nat /\ k >= h /\ k >= t
  OBVIOUS
<1> HIDE DEF e, k
<1>6. RecentSourceTracked(e, k)
  <2>1. SUFFICES ASSUME NEW a \in d.raw, MjdOf[a] >= k
                 PROVE  e.src[SourceOf[a]] # None
    BY <1>2 DEF RecentSourceTracked
  <2>2. /\ d.src[SourceOf[a]] # None
        /\ d.src[SourceOf[a]].last >= MjdOf[a]
    BY <2>1, <1>3, <1>5 DEF Tracked, RecentSourceTracked, LastSeenCovers
  <2>3. d.src[SourceOf[a]].last \in Nat
    BY <2>2, <1>1, <1>3 DEF Tracking
  <2> QED BY <2>1, <2>2, <2>3, <1>2, <1>3, <1>5
<1>7. LastSeenCovers(e, k)
  BY <1>2, <1>3, <1>5 DEF LastSeenCovers, Tracked
<1> QED BY <1>2, <1>4, <1>6, <1>7 DEF Tracked, e, k

(* A larger table still holds every stored key.                            *)
LEMMA StoredMonotone ==
    ASSUME NEW d, NEW e, NEW a, d.raw \subseteq e.raw, Stored(d, a)
    PROVE  Stored(e, a)
BY DEF Stored
=============================================================================
