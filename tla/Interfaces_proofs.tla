-------------------------- MODULE Interfaces_proofs --------------------------
(***************************************************************************)
(* What surrounds the database, proved for every source, every alert and   *)
(* every number of processes that create the schema.                       *)
(***************************************************************************)
EXTENDS Interfaces, OrderedSets_proofs

-----------------------------------------------------------------------------
(* The schema.  Each creator runs the scripts in order, so that what has   *)
(* been made is a beginning of them, and nobody is further than that.      *)
Beginning(k) == {Scripts[i] : i \in 1 .. k}

SchemaInv ==
    /\ SchemaTypeOK
    /\ \E k \in 0 .. 5 :
        /\ made = Beginning(k)
        /\ k \in 1 .. 4 => cutOff \/ \E p \in Creators : Creating(p)
        /\ \A p \in Creators : /\ opener[p].pc = "away" => opener[p].next = 1
                               /\ opener[p].pc = "creating" => opener[p].next <= k + 1
                               /\ opener[p].pc = "ready" => k >= 2

LEMMA BeginningIs ==
  /\ DOMAIN Scripts = 1 .. 5
  /\ Beginning(0) = {} /\ Complete = Beginning(5)
  /\ \A k \in 0 .. 5 : /\ Beginning(k) \subseteq Complete
                       /\ "version" \in Beginning(k) <=> k >= 2
                       /\ "trigger" \in Beginning(k) <=> k = 5
                       /\ Beginning(k) = Complete <=> k = 5
<1>1. DOMAIN Scripts = 1 .. 5
  BY DEF Scripts
<1>2. /\ Scripts[1] = "tables" /\ Scripts[2] = "version" /\ Scripts[3] = "indexes"
      /\ Scripts[4] = "views" /\ Scripts[5] = "trigger"
  BY DEF Scripts
<1>3. Complete = Beginning(5)
  BY <1>1 DEF Complete, Beginning
<1>4. Beginning(0) = {}
  BY DEF Beginning
<1>5. ASSUME NEW k \in 0 .. 5
      PROVE  /\ Beginning(k) \subseteq Complete
             /\ "version" \in Beginning(k) <=> k >= 2
             /\ "trigger" \in Beginning(k) <=> k = 5
  <2>1. \A i \in 1 .. 5 : i = 1 \/ i = 2 \/ i = 3 \/ i = 4 \/ i = 5
    OBVIOUS
  <2>2. \A i \in 1 .. 5 : Scripts[i] = "version" <=> i = 2
    BY <1>2, <2>1
  <2>3. \A i \in 1 .. 5 : Scripts[i] = "trigger" <=> i = 5
    BY <1>2, <2>1
  <2> HIDE DEF Scripts
  <2>4. 1 .. k \subseteq 1 .. 5
    OBVIOUS
  <2> QED
    BY <1>2, <1>3, <2>2, <2>3, <2>4 DEF Beginning
<1> QED
  BY <1>1, <1>3, <1>4, <1>5

LEMMA SchemaInvInit == SchemaInit => SchemaInv
<1> SUFFICES ASSUME SchemaInit PROVE SchemaInv
  OBVIOUS
<1>1. SchemaTypeOK
  <2>1. openings \in 0 .. MaxOpenings
    BY SchemaAssumption DEF SchemaInit
  <2>2. Away \in [pc : {"away", "creating", "ready"}, next : 1 .. 5]
    BY DEF Away
  <2>3. opener \in [Creators -> [pc : {"away", "creating", "ready"}, next : 1 .. 5]]
    BY <2>2 DEF SchemaInit
  <2> QED
    BY BeginningIs, <2>1, <2>3 DEF SchemaInit, SchemaTypeOK
<1> QED
  BY <1>1, BeginningIs DEF SchemaInit, SchemaInv, Away

(* One script more, or one that was there.                                 *)
LEMMA BeginningGrows ==
  ASSUME NEW k \in 0 .. 5, NEW n \in 1 .. 5, n <= k + 1
  PROVE  Beginning(k) \cup {Scripts[n]} = Beginning(IF n = k + 1 THEN n ELSE k)
<1>1. CASE n = k + 1
  <2>1. 1 .. n = 1 .. k \cup {n}
    BY <1>1
  <2> QED
    BY <1>1, <2>1 DEF Beginning
<1>2. CASE n # k + 1
  <2>1. n \in 1 .. k
    BY <1>2
  <2> QED
    BY <1>2, <2>1 DEF Beginning
<1> QED
  BY <1>1, <1>2

LEMMA SchemaInvStep ==
  ASSUME SchemaInv, [SchemaNext]_schemaVars
  PROVE  SchemaInv'
<1> PICK k \in 0 .. 5 :
        /\ made = Beginning(k)
        /\ k \in 1 .. 4 => cutOff \/ \E p \in Creators : Creating(p)
        /\ \A p \in Creators : /\ opener[p].pc = "away" => opener[p].next = 1
                               /\ opener[p].pc = "creating" => opener[p].next <= k + 1
                               /\ opener[p].pc = "ready" => k >= 2
  BY DEF SchemaInv
<1> DEFINE St == [pc : {"away", "creating", "ready"}, next : 1 .. 5]
          Becomes(p, o) == opener' = [opener EXCEPT ![p] = o]
<1>1. /\ made \subseteq Complete /\ opener \in [Creators -> St]
      /\ openings \in 0 .. MaxOpenings /\ cutOff \in BOOLEAN
  BY BeginningIs DEF SchemaInv, SchemaTypeOK
<1>2. ASSUME NEW p \in Creators, NEW j \in 0 .. 5, made' = Beginning(j), j >= k,
             NEW o \in St, Becomes(p, o),
             openings' \in 0 .. MaxOpenings, cutOff' \in BOOLEAN,
             cutOff => cutOff',
             j \in 1 .. 4 => cutOff' \/ o.pc = "creating"
                             \/ (opener[p].pc # "creating" /\ j = k),
             o.pc = "away" => o.next = 1,
             o.pc = "creating" => o.next <= j + 1,
             o.pc = "ready" => j >= 2
      PROVE  SchemaInv'
  <2>1. opener' \in [Creators -> St] /\ opener'[p] = o
        /\ \A q \in Creators \ {p} : opener'[q] = opener[q]
    BY <1>1, <1>2
  <2>2. SchemaTypeOK'
    BY <1>1, <1>2, <2>1, BeginningIs DEF SchemaTypeOK
  <2>3. j \in 1 .. 4 => cutOff' \/ \E q \in Creators : opener'[q].pc = "creating"
    BY <1>2, <2>1 DEF Creating
  <2>4. \A q \in Creators : /\ opener'[q].pc = "away" => opener'[q].next = 1
                            /\ opener'[q].pc = "creating" => opener'[q].next <= j + 1
                            /\ opener'[q].pc = "ready" => j >= 2
    <3> SUFFICES ASSUME NEW q \in Creators
                 PROVE  /\ opener'[q].pc = "away" => opener'[q].next = 1
                        /\ opener'[q].pc = "creating" => opener'[q].next <= j + 1
                        /\ opener'[q].pc = "ready" => j >= 2
      OBVIOUS
    <3>1. CASE q = p
      BY <1>2, <2>1, <3>1
    <3>2. CASE q # p
      <4>1. opener[q].next \in Nat
        BY <1>1
      <4> QED
        BY <1>2, <2>1, <3>2, <4>1
    <3> QED
      BY <3>1, <3>2
  <2> QED
    BY <1>2, <2>2, <2>3, <2>4 DEF SchemaInv, Creating
<1>3. ASSUME NEW p \in Creators, Initialize(p)
      PROVE  SchemaInv'
  <2> DEFINE o == [opener[p] EXCEPT !.pc = IF "version" \in made THEN "ready" ELSE "creating"]
  <2>1. Becomes(p, o)
    BY <1>1, <1>3 DEF Initialize
  <2>2. made' = Beginning(k) /\ cutOff' = cutOff /\ openings' \in 0 .. MaxOpenings
    BY <1>1, <1>3, SchemaAssumption DEF Initialize
  <2>3. opener[p].next = 1 /\ opener[p].pc # "creating"
    BY <1>3 DEF Initialize
  <2>4. o \in St /\ o.pc # "away" /\ o.next = 1 /\ (o.pc = "ready" => k >= 2)
    BY <1>1, <2>3, BeginningIs
  <2> HIDE DEF o, St, Becomes
  <2> QED
    BY <1>1, <1>2, <2>1, <2>2, <2>3, <2>4
<1>4. ASSUME NEW p \in Creators, RunScript(p)
      PROVE  SchemaInv'
  <2> DEFINE n == opener[p].next  j == IF n = k + 1 THEN n ELSE k  o == After(opener[p])
  <2>1. n \in 1 .. 5 /\ opener[p] \in St /\ opener[p].pc = "creating"
    BY <1>1, <1>4 DEF RunScript, Creating
  <2>2. n <= k + 1
    BY <2>1
  <2>3. made' = Beginning(j) /\ Becomes(p, o)
        /\ openings' = openings /\ cutOff' = cutOff
    BY <1>1, <1>4, <2>1, <2>2, BeginningGrows DEF RunScript
  <2>4. j \in 0 .. 5 /\ j >= k /\ n <= j
    BY <2>1, <2>2
  <2>5. Len(Scripts) = 5
    BY DEF Scripts
  <2>6. CASE n = 5
    <3>1. o = [opener[p] EXCEPT !.pc = "ready"]
      BY <2>5, <2>6 DEF After
    <3>2. o \in St /\ o.pc = "ready" /\ j = 5
      BY <2>1, <2>4, <2>6, <3>1
    <3> HIDE DEF o, j, St, Becomes
    <3> QED
      BY <1>1, <1>2, <2>3, <2>4, <3>2
  <2>7. CASE n # 5
    <3>1. o = [opener[p] EXCEPT !.next = n + 1]
      BY <2>5, <2>7 DEF After
    <3>2. o \in St /\ o.pc = "creating" /\ o.next <= j + 1
      BY <2>1, <2>4, <2>7, <3>1
    <3> HIDE DEF o, j, St, Becomes
    <3> QED
      BY <1>1, <1>2, <2>3, <2>4, <3>2
  <2> QED
    BY <2>6, <2>7
<1>5. ASSUME NEW p \in Creators, CreatorFails(p)
      PROVE  SchemaInv'
  <2>1. /\ made' = Beginning(k) /\ openings' = openings /\ cutOff' = TRUE
        /\ Becomes(p, Away)
    BY <1>5 DEF CreatorFails
  <2>2. Away \in St /\ Away.pc = "away" /\ Away.next = 1
    BY DEF Away
  <2> HIDE DEF St, Becomes
  <2> QED
    BY <1>1, <1>2, <2>1, <2>2
<1>6. ASSUME NEW p \in Creators, Leave(p)
      PROVE  SchemaInv'
  <2>1. /\ made' = Beginning(k) /\ openings' = openings /\ cutOff' = cutOff
        /\ Becomes(p, Away) /\ opener[p].pc # "creating"
    BY <1>6 DEF Leave
  <2>2. Away \in St /\ Away.pc = "away" /\ Away.next = 1
    BY DEF Away
  <2> HIDE DEF St, Becomes
  <2> QED
    BY <1>1, <1>2, <2>1, <2>2
<1>7. CASE UNCHANGED schemaVars
  BY <1>7 DEF schemaVars, SchemaInv, SchemaTypeOK, Creating
<1> QED
  BY <1>3, <1>4, <1>5, <1>6, <1>7 DEF SchemaNext

(* A process meets an incomplete schema only beside a creator or after one *)
(* that was cut off: SQLiteStorage.initialize and create_schema.           *)
THEOREM SchemaIsComplete == Spec => []SchemaComplete
<1>1. Init => SchemaInv
  BY SchemaInvInit DEF Init
<1>2. SchemaInv /\ [Next]_vars => SchemaInv'
  <2>1. [Next]_vars => [SchemaNext]_schemaVars
    BY DEF Next, vars
  <2> QED
    BY <2>1, SchemaInvStep
<1>3. SchemaInv => SchemaComplete
  BY BeginningIs DEF SchemaInv, SchemaComplete
<1> QED
  BY <1>1, <1>2, <1>3, PTL DEF Spec

-----------------------------------------------------------------------------
(* The filters at the broker.                                              *)
LEMMA LocusTypesStep == LocusTypeOK /\ [LocusNext]_locusVars => LocusTypeOK'
  BY DEF LocusTypeOK, LocusNext, Observe, Handled, Tag, RunTagging, locusVars

LEMMA LocusTypes == Spec => []LocusTypeOK
<1>1. Init => LocusTypeOK
  BY DEF Init, LocusInit, LocusTypeOK
<1>2. LocusTypeOK /\ [LocusNext]_locusVars => LocusTypeOK'
  BY LocusTypesStep
<1>3. [Next]_vars => [LocusNext]_locusVars
  BY DEF Next, vars
<1> QED
  BY <1>1, <1>2, <1>3, PTL DEF Spec

LEMMA FiltersAgreeOn ==
  ASSUME LocusTypeOK
  PROVE  FiltersAgree
<1> SUFFICES ASSUME alert # Absent
             PROVE  /\ Verdict(alert, tags) => WideVerdict(alert, tags)
                    /\ Verdict(alert, tags) /\ ~ Extracted(alert, tags).has =>
                         ~ alert.id /\ (alert.object \/ alert.packet = "empty")
                    /\ IsReassociation(alert, tags) /\ alert.median # Absent =>
                         WideVerdict(alert, tags)
  BY DEF FiltersAgree
<1>1. /\ alert \in Alerts /\ alert.median \in Values \cup {Absent} /\ alert.low \in Values
      /\ alert.id \in BOOLEAN /\ alert.object \in BOOLEAN
      /\ alert.packet \in {"no", "empty", "full"}
  BY DEF LocusTypeOK, Alerts
<1>2. alert.low \in 0 .. 4 /\ (alert.median # Absent => alert.median \in 0 .. 4)
  BY <1>1, FiltersAssumption
<1>3. alert.median # Absent => PassesExtendedness(alert, 0)
  BY <1>2 DEF PassesExtendedness
<1>4. Verdict(alert, tags) => WideVerdict(alert, tags)
  BY <1>3 DEF Verdict, WideVerdict, PassesExtendedness
<1>5. HasSSSource(alert, tags) /\ ~ Extracted(alert, tags).has =>
         ~ alert.id /\ (alert.object \/ alert.packet = "empty")
  BY <1>1 DEF Extracted, HasSSSource
<1>6. Extracted(alert, tags).has /\ Extracted(alert, tags).time # Absent =>
         HasSSSource(alert, tags)
  BY <1>1 DEF Extracted, HasSSSource
<1>7. IsReassociation(alert, tags) /\ alert.median # Absent => WideVerdict(alert, tags)
  BY <1>3, <1>6 DEF IsReassociation, WideVerdict, Within
<1> QED
  BY <1>4, <1>5, <1>7 DEF Verdict

(* What a narrow filter passes the wide one passes, and what comes in as   *)
(* reassociated too: the three filters and ANTARESSource._extract_ss_info. *)
THEOREM FiltersAlwaysAgree == Spec => []FiltersAgree
  BY LocusTypes, FiltersAgreeOn, PTL

-----------------------------------------------------------------------------
(* The exports.  Both programs take the same rows in the same order.       *)
LEMMA SoonerOrders ==
  ASSUME NEW S \in SUBSET (Nat \X Nat), NEW mjd, \A x \in S : mjd[x[1]] \in Nat
  PROVE  IsOrder(S, Sooner(mjd))
<1>1. \A x \in S : x[1] \in Nat /\ x[2] \in Nat /\ x \in Nat \X Nat
                   /\ x = <<x[1], x[2]>> /\ mjd[x[1]] \in Nat
  OBVIOUS
<1>2. ASSUME NEW x \in S, NEW y \in S
      PROVE  <<x, y>> \in Sooner(mjd) <=>
                \/ mjd[x[1]] < mjd[y[1]]
                \/ mjd[x[1]] = mjd[y[1]] /\ <<x, y>> \in Earlier
  BY <1>1 DEF Sooner
<1>3. IsOrder(S, Earlier)
  BY EarlierOrders
<1>4. ASSUME NEW x \in S PROVE <<x, x>> \notin Sooner(mjd)
  <2>1. <<x, x>> \notin Earlier
    BY <1>3 DEF IsOrder
  <2>2. ~ (mjd[x[1]] < mjd[x[1]])
    BY <1>1
  <2> QED
    BY <1>2, <2>1, <2>2
<1>5. ASSUME NEW x \in S, NEW y \in S, x # y
      PROVE  <<x, y>> \in Sooner(mjd) \/ <<y, x>> \in Sooner(mjd)
  <2>1. <<x, y>> \in Earlier \/ <<y, x>> \in Earlier
    BY <1>3, <1>5 DEF IsOrder
  <2>2. mjd[x[1]] \in Nat /\ mjd[y[1]] \in Nat
    BY <1>1
  <2>3. mjd[x[1]] < mjd[y[1]] \/ mjd[y[1]] < mjd[x[1]] \/ mjd[x[1]] = mjd[y[1]]
    BY <2>2
  <2> QED
    BY <1>2, <2>1, <2>3
<1>6. ASSUME NEW x \in S, NEW y \in S, NEW z \in S,
             <<x, y>> \in Sooner(mjd), <<y, z>> \in Sooner(mjd)
      PROVE  <<x, z>> \in Sooner(mjd)
  <2>1. /\ mjd[x[1]] < mjd[y[1]] \/ (mjd[x[1]] = mjd[y[1]] /\ <<x, y>> \in Earlier)
        /\ mjd[y[1]] < mjd[z[1]] \/ (mjd[y[1]] = mjd[z[1]] /\ <<y, z>> \in Earlier)
    BY <1>2, <1>6
  <2>2. <<x, y>> \in Earlier /\ <<y, z>> \in Earlier => <<x, z>> \in Earlier
    BY <1>3 DEF IsOrder
  <2>3. mjd[x[1]] \in Nat /\ mjd[y[1]] \in Nat /\ mjd[z[1]] \in Nat
    BY <1>1
  <2>4. mjd[x[1]] < mjd[z[1]] \/ (mjd[x[1]] = mjd[z[1]] /\ <<x, z>> \in Earlier)
    BY <2>1, <2>2, <2>3
  <2> QED
    BY <1>2, <2>4
<1> QED
  BY <1>4, <1>5, <1>6 DEF IsOrder

LEMMA TableTypes ==
  /\ Len(Table) \in Nat /\ DOMAIN Table = 1 .. Len(Table)
  /\ \A i \in 1 .. Len(Table) :
       Table[i] \in [id : Nat, mjd : Nat, snr : Nat \cup {Blank}, stretch : Nat \ {0},
                     sso : {0, 1}, copies : Nat]
BY ExportsAssumption, LenProperties

LEMMA JoinedRowsFinite ==
  ASSUME NEW n \in 0 .. Len(Table), NEW opt
  PROVE  /\ JoinedRows(n, opt) \in SUBSET ((1 .. Len(Table)) \X Nat)
         /\ IsFiniteSet(JoinedRows(n, opt))
<1> DEFINE copies(i) == IF opt.filtered THEN Table[i].copies ELSE 1
           W == {j \in 1 .. n : Wanted(Table[j], opt)}
           B(i) == {i} \X (1 .. copies(i))
           f == [i \in W |-> B(i)]
           U == {B(i) : i \in W}
<1>1. Len(Table) \in Nat /\ \A i \in 1 .. Len(Table) : Table[i].copies \in Nat
  BY TableTypes
<1>2. W \in SUBSET (1 .. n) /\ W \in SUBSET (1 .. Len(Table))
  BY <1>1
<1>3. IsFiniteSet(W)
  <2>1. 1 \in Int /\ n \in Int
    BY <1>1
  <2>2. IsFiniteSet(1 .. n)
    BY <2>1, FS_Interval
  <2> HIDE DEF W
  <2> QED
    BY <1>2, <2>2, FS_Subset
<1>4. \A i \in W : copies(i) \in Nat
  BY <1>1, <1>2
<1>5. ASSUME NEW i \in W PROVE IsFiniteSet(B(i))
  <2>1. 1 \in Int /\ copies(i) \in Int
    BY <1>4
  <2>2. IsFiniteSet(1 .. copies(i))
    BY <2>1, FS_Interval
  <2>3. IsFiniteSet({i})
    BY FS_Singleton
  <2> QED
    BY <2>2, <2>3, FS_Product
<1>6. JoinedRows(n, opt) = UNION U
  BY DEF JoinedRows
<1>7. IsFiniteSet(U)
  <2>1. f \in Surjection(W, U)
    BY DEF Surjection
  <2> HIDE DEF f, U, W
  <2> QED
    BY <1>3, <2>1, FS_Surjection
<1>8. IsFiniteSet(UNION U)
  <2>1. \A T \in U : IsFiniteSet(T)
    BY <1>5
  <2> HIDE DEF U
  <2> QED
    BY <1>7, <2>1, FS_UNION
<1>9. UNION U \in SUBSET ((1 .. Len(Table)) \X Nat)
  BY <1>2, <1>4
<1> QED
  BY <1>6, <1>8, <1>9

LEMMA SelectedType ==
  ASSUME NEW n \in 0 .. Len(Table), NEW opt
  PROVE  /\ Len(Selected(n, opt)) \in Nat
         /\ DOMAIN Selected(n, opt) = 1 .. Len(Selected(n, opt))
         /\ \A j \in 1 .. Len(Selected(n, opt)) : Selected(n, opt)[j][1] \in 1 .. Len(Table)
<1> DEFINE S == JoinedRows(n, opt)
           mjd == [i \in DOMAIN Table |-> Table[i].mjd]
<1>1. S \in SUBSET ((1 .. Len(Table)) \X Nat) /\ IsFiniteSet(S)
  BY JoinedRowsFinite
<1>2. \A x \in S : x[1] \in 1 .. Len(Table)
  BY <1>1
<1>3. \A x \in S : mjd[x[1]] \in Nat
  BY <1>2, TableTypes
<1>4. S \in SUBSET (Nat \X Nat)
  BY <1>1, TableTypes
<1>5. Selected(n, opt) = InOrder(S, Sooner(mjd))
  BY DEF Selected, ByTime
<1> HIDE DEF S, mjd
<1>6. IsOrder(S, Sooner(mjd))
  BY <1>3, <1>4, SoonerOrders
<1>7. Lists(InOrder(S, Sooner(mjd)), S, Sooner(mjd))
  BY <1>1, <1>6, InOrderLists
<1>8. Selected(n, opt) \in Seq(S)
  BY <1>5, <1>7 DEF Lists
<1> QED
  BY <1>2, <1>8, LenProperties

(* The errors of one row, from both programs.                              *)
LEMMA ErrorsOfRow ==
  ASSUME NEW i \in 1 .. Len(Table), NEW opt \in Options, NEW d, NEW e,
         d.origins = OriginsOfRow(Table[i]),
         d.errors = PumalinkErrors(Table[i], opt), e.errors = ThorErrors(Table[i], opt)
  PROVE  SameErrors(d, e, opt)
<1> DEFINE r == Table[i]
<1>1. r.stretch \in Nat \ {0} /\ r.snr \in Nat \cup {Blank}
  BY TableTypes
<1>2. opt.sigma * 1 = opt.sigma /\ DefaultError * 1 = DefaultError
  <2>1. opt.sigma \in Nat /\ DefaultError \in Nat
    BY ExportsAssumption
  <2>2. \A n \in Nat : n * 1 = n
    OBVIOUS
  <2> QED
    BY <2>1, <2>2
<1> HIDE DEF r
<1>3. d.origins = OriginsOfRow(r) /\ d.errors = PumalinkErrors(r, opt) /\ e.errors = ThorErrors(r, opt)
  BY DEF r
<1>4. CASE r.snr \in {Blank, 0}
  <2>1. Estimated(r.snr, opt.sigma) = opt.sigma /\ Estimated(r.snr, DefaultError) = DefaultError
    BY <1>4 DEF Estimated
  <2>2. Replaced(DefaultError, opt) = opt.sigma
    BY DEF Replaced
  <2>3. d.errors.ra = e.errors.ra
    BY <1>3, <2>1, <2>2 DEF PumalinkErrors, ThorErrors
  <2>4. CASE r.stretch # 1
    <3>1. Untold(d, "dec")
      BY <1>3, <1>4, <2>4 DEF OriginsOfRow, Origins, Untold
    <3> QED
      BY <2>3, <3>1 DEF SameErrors
  <2>5. CASE r.stretch = 1
    <3>1. d.errors.dec = opt.sigma
      BY <1>2, <1>3, <2>1, <2>5 DEF PumalinkErrors
    <3>2. e.errors.dec = opt.sigma
      BY <1>2, <1>3, <2>1, <2>2, <2>5 DEF ThorErrors
    <3> QED
      BY <2>3, <3>1, <3>2 DEF SameErrors
  <2> QED
    BY <2>4, <2>5
<1>5. CASE r.snr \notin {Blank, 0}
  <2> DEFINE x == Fwhm \div r.snr
  <2>1. Estimated(r.snr, opt.sigma) = x /\ Estimated(r.snr, DefaultError) = x
    BY <1>5 DEF Estimated
  <2> HIDE DEF x
  <2>2. /\ d.errors = [ra |-> x, dec |-> x * r.stretch]
        /\ e.errors = [ra |-> Replaced(x, opt), dec |-> Replaced(x * r.stretch, opt)]
    BY <1>3, <2>1 DEF PumalinkErrors, ThorErrors
  <2>3. d.origins = [ra |-> "measured", dec |-> "measured"]
    BY <1>3, <1>5 DEF OriginsOfRow, Origins
  <2> DEFINE y == x * r.stretch
  <2> HIDE DEF y
  <2>4. d.errors = [ra |-> x, dec |-> y]
        /\ e.errors = [ra |-> Replaced(x, opt), dec |-> Replaced(y, opt)]
    BY <2>2 DEF y
  <2> QED
    BY <2>3, <2>4 DEF SameErrors, Untold, Replaced
<1> QED
  BY <1>4, <1>5

LEMMA OptionTypes ==
  ASSUME NEW opt \in Options
  PROVE  opt.filtered \in BOOLEAN
         /\ (opt.filtered = FALSE => [opt EXCEPT !.filtered = FALSE] = opt)
<1>1. opt.filtered \in BOOLEAN
      /\ opt = [sso |-> opt.sso, filtered |-> opt.filtered,
                from |-> opt.from, sigma |-> opt.sigma]
  BY ExportsAssumption
<1> QED
  BY <1>1

LEMMA AsDoubleExact ==
  ASSUME NEW n \in Nat
  PROVE  AsDouble(n) = n \/ n > Exact
BY ExportsAssumption DEF AsDouble

LEMMA SameFromTable ==
  ASSUME NEW n \in 0 .. Len(Table), NEW opt \in Options, NEW from \in {"db", "csv"},
         from = "csv" => ~ opt.filtered
  PROVE  SameDetections(PumalinkRows(from, opt, n), ThorRows(from, opt, n), from, opt)
<1> DEFINE rows == Selected(n, opt)
           L == Len(rows)
           r(j) == Table[rows[j][1]]
           of(j) == OriginsOfRow(r(j))
           P == PumalinkRows(from, opt, n)
           T == ThorRows(from, opt, n)
<1>1. /\ L \in Nat /\ DOMAIN rows = 1 .. L
      /\ \A j \in 1 .. L : rows[j][1] \in 1 .. Len(Table)
  BY SelectedType
<1>2. P = PumalinkDb(n, opt)
  BY DEF PumalinkRows, PumalinkCsv
<1>3. /\ DOMAIN P = 1 .. L
      /\ \A j \in 1 .. L :
           P[j] = Detection(r(j).id, r(j).mjd, "option", of(j), PumalinkErrors(r(j), opt))
  BY <1>1, <1>2 DEF PumalinkDb
<1>4. /\ DOMAIN ThorDb(n, opt) = 1 .. L
      /\ \A j \in 1 .. L : ThorDb(n, opt)[j] =
           Detection(r(j).id, r(j).mjd, "option", of(j), ThorErrors(r(j), opt))
  BY <1>1 DEF ThorDb
<1>5. /\ DOMAIN T = 1 .. L
      /\ \A j \in 1 .. L :
           \E id : /\ T[j] = Detection(id, r(j).mjd, "option", of(j), ThorErrors(r(j), opt))
                   /\ id = r(j).id \/ (from = "csv" /\ r(j).id > Exact)
  <2> HIDE DEF rows
  <2>1. CASE from = "db"
    <3>1. T = ThorDb(n, opt)
      BY <2>1 DEF ThorRows
    <3> QED
      BY <1>4, <3>1
  <2>2. CASE from = "csv"
    <3>1. T = ThorCsv(n, opt)
      BY <2>2 DEF ThorRows
    <3>2. [opt EXCEPT !.filtered = FALSE] = opt
      BY <2>2, OptionTypes
    <3>3. T = [j \in DOMAIN ThorDb(n, opt) |-> [ThorDb(n, opt)[j] EXCEPT !.id = AsDouble(@)]]
      BY <3>1, <3>2 DEF ThorCsv
    <3>4. ASSUME NEW j \in 1 .. L
          PROVE  /\ T[j] = Detection(AsDouble(r(j).id), r(j).mjd, "option", of(j),
                                     ThorErrors(r(j), opt))
                 /\ AsDouble(r(j).id) = r(j).id \/ r(j).id > Exact
      <4>1. r(j).id \in Nat
        BY <1>1, TableTypes
      <4>2. T[j] = [ThorDb(n, opt)[j] EXCEPT !.id = AsDouble(@)]
        BY <1>4, <3>3
      <4>3. T[j] = Detection(AsDouble(r(j).id), r(j).mjd, "option", of(j),
                             ThorErrors(r(j), opt))
        BY <1>4, <4>2 DEF Detection
      <4> QED
        BY <4>1, <4>3, AsDoubleExact
    <3> QED
      BY <1>4, <2>2, <3>3, <3>4
  <2> QED
    BY <2>1, <2>2
<1>6. T \in Seq({T[j] : j \in 1 .. L}) /\ Len(T) = L
  <2> HIDE DEF L
  <2> DEFINE X == {T[j] : j \in 1 .. L}
  <2>1. T = [j \in 1 .. L |-> T[j]]
    <3>1. CASE from = "db"
      BY <1>1, <3>1 DEF ThorRows, ThorDb
    <3>2. CASE from = "csv"
      BY <1>1, <1>5, <3>2 DEF ThorRows, ThorCsv
    <3> QED
      BY <3>1, <3>2
  <2>2. T \in [1 .. L -> X]
    BY <2>1
  <2> HIDE DEF X, T
  <2>3. T \in Seq(X) /\ Len(T) = L
    BY <1>1, <2>2, SeqDef, LenProperties
  <2> QED
    BY <2>3 DEF X
<1> HIDE DEF rows, P, T, L
<1>7. \A j \in 1 .. L : T[j].site = "option"
  BY <1>5 DEF Detection
<1>8. Known(T) = T
  <2>1. {j \in DOMAIN T : T[j].site \in KnownCodes \cup {"option"}} = DOMAIN T
    BY <1>5, <1>7
  <2> QED
    BY <1>6, <2>1, PickedAll DEF Known
<1>9. Len(P) = L
  <2>1. P = [j \in 1 .. L |-> P[j]]
    BY <1>1, <1>2 DEF PumalinkDb, rows, L
  <2>2. P \in [1 .. L -> {P[j] : j \in 1 .. L}]
    BY <2>1
  <2> QED
    BY <1>1, <2>2, SeqDef, LenProperties
<1>10. ASSUME NEW j \in 1 .. L
       PROVE  /\ P[j].mjd = T[j].mjd /\ P[j].site = T[j].site
              /\ SameErrors(P[j], T[j], opt)
              /\ P[j].id = T[j].id \/ (from = "csv" /\ P[j].id > Exact)
  <2>1. PICK id : /\ T[j] = Detection(id, r(j).mjd, "option", of(j), ThorErrors(r(j), opt))
                  /\ id = r(j).id \/ (from = "csv" /\ r(j).id > Exact)
    BY <1>5
  <2>2. P[j] = Detection(r(j).id, r(j).mjd, "option", of(j), PumalinkErrors(r(j), opt))
    BY <1>3
  <2>3. /\ P[j].id = r(j).id /\ P[j].mjd = r(j).mjd /\ P[j].site = "option"
        /\ P[j].origins = of(j) /\ P[j].errors = PumalinkErrors(r(j), opt)
        /\ T[j].id = id /\ T[j].mjd = r(j).mjd /\ T[j].site = "option"
        /\ T[j].origins = of(j) /\ T[j].errors = ThorErrors(r(j), opt)
    BY <2>1, <2>2 DEF Detection
  <2>4. SameErrors(P[j], T[j], opt)
    BY <1>1, <2>3, ErrorsOfRow
  <2> QED
    BY <2>1, <2>3, <2>4
<1>11. SameDetections(P, T, from, opt)
  BY <1>3, <1>6, <1>8, <1>9, <1>10 DEF SameDetections
<1> QED
  BY <1>11 DEF P, T

(* The lines that are kept, in the order of their times.                   *)
ListingTimes == [i \in DOMAIN Listing |-> Listing[i].mjd]
Sorted(codes, opt) == ByTime(Kept(codes, opt) \X {1}, ListingTimes)

LEMMA ListingTypes ==
  /\ Len(Listing) \in Nat /\ DOMAIN Listing = 1 .. Len(Listing)
  /\ \A i \in 1 .. Len(Listing) :
       Listing[i].mjd \in Nat \cup {Blank} /\ Listing[i].code # "option"
BY ExportsAssumption

LEMMA KeptTypes ==
  ASSUME NEW codes, NEW opt
  PROVE  LET S == Kept(codes, opt) \X {1}
         IN /\ Kept(codes, opt) \in SUBSET (1 .. Len(Listing))
            /\ S \in SUBSET (Nat \X Nat) /\ IsFiniteSet(S)
            /\ IsOrder(S, Sooner(ListingTimes))
<1> DEFINE K == Kept(codes, opt)
           S == K \X {1}
<1>1. K \in SUBSET (1 .. Len(Listing)) /\ \A i \in K : Listing[i].mjd \in Nat
  BY ListingTypes DEF Kept
<1>2. \A i \in K : ListingTimes[i] \in Nat
  BY <1>1, ListingTypes DEF ListingTimes
<1> HIDE DEF K
<1>3. S \in SUBSET (Nat \X Nat) /\ \A x \in S : ListingTimes[x[1]] \in Nat
  BY <1>1, <1>2, ListingTypes
<1>4. IsFiniteSet(K)
  <2>1. 1 \in Int /\ Len(Listing) \in Int
    BY ListingTypes
  <2>2. IsFiniteSet(1 .. Len(Listing))
    BY <2>1, FS_Interval
  <2> QED
    BY <1>1, <2>2, FS_Subset
<1>5. IsFiniteSet(S)
  <2>1. IsFiniteSet({1})
    BY FS_Singleton
  <2> QED
    BY <1>4, <2>1, FS_Product
<1>6. IsOrder(S, Sooner(ListingTimes))
  <2> HIDE DEF S
  <2> QED
    BY <1>3, SoonerOrders
<1> QED
  BY <1>1, <1>3, <1>5, <1>6 DEF K

LEMMA SortedType ==
  ASSUME NEW codes, NEW opt
  PROVE  /\ Sorted(codes, opt) \in Seq(Kept(codes, opt) \X {1})
         /\ Len(Sorted(codes, opt)) = Cardinality(Kept(codes, opt) \X {1})
         /\ Len(Sorted(codes, opt)) \in Nat
         /\ DOMAIN Sorted(codes, opt) = 1 .. Len(Sorted(codes, opt))
         /\ \A n \in 1 .. Len(Sorted(codes, opt)) :
              Sorted(codes, opt)[n] \in Kept(codes, opt) \X {1}
<1> DEFINE S == Kept(codes, opt) \X {1}
           o == InOrder(S, Sooner(ListingTimes))
<1>1. IsFiniteSet(S) /\ IsOrder(S, Sooner(ListingTimes))
  BY KeptTypes
<1>2. Sorted(codes, opt) = o
  BY DEF Sorted, ByTime
<1>3. Lists(o, S, Sooner(ListingTimes)) /\ Len(o) = Cardinality(S)
  <2> HIDE DEF S
  <2> QED
    BY <1>1, InOrderLists
<1>4. o \in Seq(S)
  BY <1>3 DEF Lists
<1> HIDE DEF o, S
<1>5. Len(o) \in Nat /\ DOMAIN o = 1 .. Len(o) /\ \A n \in 1 .. Len(o) : o[n] \in S
  BY <1>4, LenProperties
<1>6. /\ o \in Seq(S) /\ Len(o) = Cardinality(S) /\ Len(o) \in Nat
      /\ DOMAIN o = 1 .. Len(o) /\ \A n \in 1 .. Len(o) : o[n] \in S
  BY <1>3, <1>4, <1>5
<1> QED
  BY <1>2, <1>6 DEF S

(* The sites pumalink knows are a part of all sites, in the same order.    *)
LEMMA KnownAreSorted ==
  ASSUME NEW opt \in Options
  PROVE  LET a == Sorted(Codes, opt)
             known == {j \in DOMAIN a : Listing[a[j][1]].code \in KnownCodes \cup {"option"}}
         IN /\ Kept(KnownCodes, opt) \in SUBSET Kept(Codes, opt)
            /\ Picked(a, known) = Sorted(KnownCodes, opt)
            /\ known \in SUBSET Nat /\ IsFiniteSet(known)
<1> DEFINE A == Kept(Codes, opt) \X {1}
           B == Kept(KnownCodes, opt) \X {1}
           a == Sorted(Codes, opt)
           known == {j \in DOMAIN a : Listing[a[j][1]].code \in KnownCodes \cup {"option"}}
           order == Sooner(ListingTimes)
<1>1. IsFiniteSet(A) /\ IsOrder(A, order) /\ Kept(Codes, opt) \in SUBSET (1 .. Len(Listing))
  BY KeptTypes
<1>2. Kept(KnownCodes, opt) \in SUBSET Kept(Codes, opt)
  BY ExportsAssumption DEF Kept, Codes
<1>3. B \in SUBSET A
  BY <1>2
<1>4. a = InOrder(A, order) /\ Sorted(KnownCodes, opt) = InOrder(B, order)
  BY DEF Sorted, ByTime
<1>5. /\ Len(a) \in Nat /\ DOMAIN a = 1 .. Len(a) /\ \A n \in 1 .. Len(a) : a[n] \in A
  BY SortedType
<1>6. \A x \in A : x \in B <=> Listing[x[1]].code \in KnownCodes \cup {"option"}
  <2>1. \A x \in A : x[1] \in Kept(Codes, opt) /\ x = <<x[1], 1>>
    OBVIOUS
  <2>2. \A i \in Kept(Codes, opt) :
          i \in Kept(KnownCodes, opt) <=> Listing[i].code \in KnownCodes \cup {"option"}
    BY <1>1, ListingTypes DEF Kept
  <2>3. \A x \in A : x \in B <=> x[1] \in Kept(KnownCodes, opt)
    BY <2>1
  <2> QED
    BY <2>1, <2>2, <2>3
<1> HIDE DEF A, B, a, order
<1>7. known = {j \in DOMAIN a : a[j] \in B}
  BY <1>5, <1>6
<1>8. Picked(a, known) = InOrder(B, order)
  BY <1>1, <1>3, <1>4, <1>7, PickedOrder
<1>9. known \in SUBSET (1 .. Len(a)) /\ known \in SUBSET Nat
  BY <1>5
<1>10. IsFiniteSet(known)
  <2>1. 1 \in Int /\ Len(a) \in Int
    BY <1>5
  <2>2. IsFiniteSet(1 .. Len(a))
    BY <2>1, FS_Interval
  <2> HIDE DEF known
  <2> QED
    BY <1>9, <2>2, FS_Subset
<1> QED
  BY <1>2, <1>4, <1>8, <1>9, <1>10 DEF a

(* The errors of one line, from both programs.                             *)
LEMMA MeasuredAreKept ==
  ASSUME NEW opt, NEW d, NEW e, NEW x, NEW y,
         d.origins = [ra |-> "measured", dec |-> "measured"],
         d.errors = [ra |-> x, dec |-> y],
         e.errors = [ra |-> Replaced(x, opt), dec |-> Replaced(y, opt)]
  PROVE  SameErrors(d, e, opt)
BY DEF SameErrors, Untold, Replaced

LEMMA ErrorsOfLine ==
  ASSUME NEW opt, NEW d, NEW e, NEW measured \in BOOLEAN, NEW x, NEW y,
         x = Blank <=> ~ measured, y = Blank <=> ~ measured,
         d.origins = Origins(measured, FALSE),
         d.errors = [ra |-> IF x = Blank THEN opt.sigma ELSE x,
                     dec |-> IF y = Blank THEN opt.sigma ELSE y],
         e.errors = [ra |-> Replaced(IF x = Blank THEN DefaultError ELSE x, opt),
                     dec |-> Replaced(IF y = Blank THEN DefaultError ELSE y, opt)]
  PROVE  SameErrors(d, e, opt)
<1>1. CASE ~ measured
  <2>1. d.errors = e.errors
    BY <1>1 DEF Replaced
  <2> QED
    BY <2>1 DEF SameErrors
<1>2. CASE measured
  <2>1. /\ d.errors = [ra |-> x, dec |-> y]
        /\ e.errors = [ra |-> Replaced(x, opt), dec |-> Replaced(y, opt)]
        /\ d.origins = [ra |-> "measured", dec |-> "measured"]
    BY <1>2 DEF Origins
  <2> QED
    BY <2>1, MeasuredAreKept
<1> QED
  BY <1>1, <1>2

LEMMA SameFromListing ==
  ASSUME NEW n, NEW opt \in Options, NEW from \in {"mpc80", "ades"}
  PROVE  SameDetections(PumalinkRows(from, opt, n), ThorRows(from, opt, n), from, opt)
<1> DEFINE A == Kept(Codes, opt)
           B == Kept(KnownCodes, opt)
           a == Sorted(Codes, opt)
           b == Sorted(KnownCodes, opt)
           errP == [rms \in Rms |-> IF rms = Blank THEN opt.sigma ELSE rms]
           errT == [rms \in Rms |-> Replaced(IF rms = Blank THEN DefaultError ELSE rms, opt)]
           P == PumalinkRows(from, opt, n)
           T == ThorRows(from, opt, n)
           J == {j \in DOMAIN T : T[j].site \in KnownCodes \cup {"option"}}
<1>1. P = [j \in DOMAIN b |-> Observation(b[j][1], B, from, errP)]
  BY DEF PumalinkRows, PumalinkListing, Numbered, Sorted, ListingTimes
<1>2. T = [j \in DOMAIN a |-> Observation(a[j][1], A, from, errT)]
  BY DEF ThorRows, ThorListing, Numbered, Sorted, ListingTimes
<1>3. /\ Len(a) \in Nat /\ DOMAIN a = 1 .. Len(a) /\ Len(a) = Cardinality(A \X {1})
      /\ \A j \in 1 .. Len(a) : a[j][1] \in A
  BY SortedType
<1>4. /\ Len(b) \in Nat /\ DOMAIN b = 1 .. Len(b) /\ Len(b) = Cardinality(B \X {1})
      /\ \A j \in 1 .. Len(b) : b[j][1] \in B
  BY SortedType
<1>5. B \in SUBSET A /\ A \in SUBSET (DOMAIN Listing) /\ IsFiniteSet(A \X {1})
  BY KnownAreSorted, KeptTypes, ListingTypes
<1>6. ASSUME NEW i, NEW kept, NEW error
      PROVE  /\ Observation(i, kept, from, error).site = Listing[i].code
             /\ Observation(i, kept, from, error).mjd = Listing[i].mjd
  BY DEF Observation, Detection
<1>7. J = {j \in DOMAIN a : Listing[a[j][1]].code \in KnownCodes \cup {"option"}}
  BY <1>2, <1>6
<1>8. Picked(a, J) = b /\ J \in SUBSET Nat /\ IsFiniteSet(J)
  BY <1>7, KnownAreSorted
<1> HIDE DEF A, B, a, b, errP, errT, P, T, J
<1> DEFINE at == InOrder(J, Smaller)
<1>9. /\ Len(at) \in Nat /\ DOMAIN at = 1 .. Len(at)
      /\ \A k \in 1 .. Len(at) : at[k] \in J
  BY <1>8, PlacesList
<1>10. Picked(a, J) = [k \in DOMAIN at |-> a[at[k]]] /\ Picked(T, J) = [k \in DOMAIN at |-> T[at[k]]]
  BY DEF Picked
<1> HIDE DEF at
<1>11. Len(at) = Len(b)
  BY <1>4, <1>8, <1>9, <1>10
<1>12. J \in SUBSET (1 .. Len(a))
  BY <1>3, <1>7
<1> DEFINE K == Picked(T, J)
<1>13. K = [k \in 1 .. Len(b) |-> Observation(b[k][1], A, from, errT)]
  <2>1. \A k \in 1 .. Len(b) : b[k] = a[at[k]] /\ at[k] \in 1 .. Len(a)
    BY <1>8, <1>9, <1>10, <1>11, <1>12
  <2>2. \A k \in 1 .. Len(b) : T[at[k]] = Observation(b[k][1], A, from, errT)
    BY <1>2, <1>3, <2>1
  <2> QED
    BY <1>9, <1>10, <1>11, <2>2
<1>14. K = Known(T)
  BY DEF Known, J
<1> HIDE DEF K
<1>15. Len(P) = Len(b) /\ Len(K) = Len(b) /\ Len(T) = Len(a)
  <2>1. P \in [1 .. Len(b) -> {P[j] : j \in 1 .. Len(b)}]
    BY <1>1, <1>4
  <2>2. K \in [1 .. Len(b) -> {K[j] : j \in 1 .. Len(b)}]
    BY <1>13
  <2>3. T \in [1 .. Len(a) -> {T[j] : j \in 1 .. Len(a)}]
    BY <1>2, <1>3
  <2>4. Len(P) = Len(b)
    BY <1>4, <2>1, SeqDef, LenProperties
  <2>5. Len(K) = Len(b)
    BY <1>4, <2>2, SeqDef, LenProperties
  <2>6. Len(T) = Len(a)
    BY <1>3, <2>3, SeqDef, LenProperties
  <2> QED
    BY <2>4, <2>5, <2>6
<1>16. K = T => A = B
  <2> SUFFICES ASSUME K = T PROVE A = B
    OBVIOUS
  <2>1. Cardinality(A \X {1}) = Cardinality(B \X {1})
    BY <1>3, <1>4, <1>15
  <2>2. B \X {1} \in SUBSET (A \X {1})
    BY <1>5
  <2>3. B \X {1} = A \X {1}
    <3> DEFINE AA == A \X {1}  BB == B \X {1}
    <3>1. IsFiniteSet(AA) /\ BB \in SUBSET AA /\ Cardinality(AA) = Cardinality(BB)
      BY <1>5, <2>1, <2>2
    <3> HIDE DEF AA, BB
    <3>2. AA = BB
      BY <3>1, FS_Subset
    <3> QED
      BY <3>2 DEF AA, BB
  <2>4. \A i : (i \in A <=> <<i, 1>> \in A \X {1}) /\ (i \in B <=> <<i, 1>> \in B \X {1})
    OBVIOUS
  <2> QED
    BY <2>3, <2>4
<1>17. ASSUME NEW j \in 1 .. Len(b)
       PROVE  /\ P[j].mjd = K[j].mjd /\ P[j].site = K[j].site
              /\ SameErrors(P[j], K[j], opt)
              /\ P[j].id = K[j].id \/ K # T
  <2> DEFINE i == b[j][1]
             measured == from = "ades" /\ Listing[i].rmsRA # Blank /\ Listing[i].rmsDec # Blank
             x == IF measured THEN Listing[i].rmsRA ELSE Blank
             y == IF measured THEN Listing[i].rmsDec ELSE Blank
  <2>1. P[j] = Observation(i, B, from, errP) /\ K[j] = Observation(i, A, from, errT)
    BY <1>1, <1>4, <1>13
  <2>2. i \in DOMAIN Listing
    BY <1>4, <1>5
  <2>3. x \in Rms /\ y \in Rms /\ (x = Blank <=> ~ measured) /\ (y = Blank <=> ~ measured)
        /\ measured \in BOOLEAN
    BY <2>2 DEF Rms
  <2> HIDE DEF i
  <2>4. /\ P[j].mjd = K[j].mjd /\ P[j].site = K[j].site
    BY <1>6, <2>1
  <2>5. /\ P[j].origins = Origins(measured, FALSE)
        /\ P[j].errors = [ra |-> errP[x], dec |-> errP[y]]
        /\ K[j].errors = [ra |-> errT[x], dec |-> errT[y]]
    BY <2>1 DEF Observation, Detection
  <2>6. A = B => P[j].id = K[j].id
    BY <2>1 DEF Observation, Detection
  <2> HIDE DEF x, y, measured
  <2>7. \A z \in Rms : /\ errP[z] = IF z = Blank THEN opt.sigma ELSE z
                       /\ errT[z] = Replaced(IF z = Blank THEN DefaultError ELSE z, opt)
    BY DEF errP, errT
  <2>8. /\ P[j].errors = [ra |-> IF x = Blank THEN opt.sigma ELSE x,
                           dec |-> IF y = Blank THEN opt.sigma ELSE y]
        /\ K[j].errors = [ra |-> Replaced(IF x = Blank THEN DefaultError ELSE x, opt),
                           dec |-> Replaced(IF y = Blank THEN DefaultError ELSE y, opt)]
    BY <2>3, <2>5, <2>7
  <2> DEFINE d == P[j]
             e == K[j]
  <2>9. /\ measured \in BOOLEAN /\ (x = Blank <=> ~ measured) /\ (y = Blank <=> ~ measured)
        /\ d.origins = Origins(measured, FALSE)
        /\ d.errors = [ra |-> IF x = Blank THEN opt.sigma ELSE x,
                        dec |-> IF y = Blank THEN opt.sigma ELSE y]
        /\ e.errors = [ra |-> Replaced(IF x = Blank THEN DefaultError ELSE x, opt),
                        dec |-> Replaced(IF y = Blank THEN DefaultError ELSE y, opt)]
    BY <2>3, <2>5, <2>8
  <2> HIDE DEF d, e
  <2>10. SameErrors(d, e, opt)
    BY <2>9, ErrorsOfLine
  <2> QED
    BY <1>16, <2>4, <2>6, <2>10 DEF d, e
<1>18. SameDetections(P, T, from, opt)
  <2>1. DOMAIN P = 1 .. Len(b)
    BY <1>1, <1>4
  <2> QED
    BY <1>14, <1>15, <1>17, <2>1 DEF SameDetections
<1> QED
  BY <1>18 DEF P, T

(* A file is what its program makes of an input with some options.         *)
RowsOf(p, from, opt, n) ==
    IF p = "pumalink" THEN PumalinkRows(from, opt, n) ELSE ThorRows(from, opt, n)

Made(p, f) ==
    \E from \in {"db", "csv", "mpc80", "ades"}, opt \in Options, n \in 0 .. Len(Table) :
        /\ f = [from |-> from, opt |-> opt, seen |-> n, rows |-> RowsOf(p, from, opt, n)]
        /\ ~ (p = "pumalink" /\ from = "csv" /\ opt.filtered)

ExportInv ==
    /\ ExportTypeOK
    /\ files = [p \in Programs |-> files[p]]
    /\ \A p \in Programs : files[p] = NoFile \/ Made(p, files[p])

LEMMA ExportInvInit == ExportInit => ExportInv
<1> SUFFICES ASSUME ExportInit PROVE ExportInv
  OBVIOUS
<1>1. stored \in 0 .. Len(Table) /\ exported \in 0 .. stored
  BY TableTypes DEF ExportInit
<1>2. \A p \in Programs : files[p] = NoFile
  BY DEF ExportInit
<1>3. files = [p \in Programs |-> files[p]]
  BY DEF ExportInit
<1>4. ExportTypeOK
  BY <1>1, <1>2 DEF ExportTypeOK, NoFile
<1> QED
  BY <1>2, <1>3, <1>4 DEF ExportInv

LEMMA ExportInvStep ==
  ASSUME ExportInv, [ExportNext]_exportVars
  PROVE  ExportInv'
<1>1. /\ stored \in 0 .. Len(Table) /\ exported \in 0 .. stored
      /\ files = [p \in Programs |-> files[p]]
      /\ \A p \in Programs : /\ files[p].from \in Inputs \cup {"nothing"}
                             /\ files[p].opt \in Options \cup {Blank}
                             /\ files[p] = NoFile \/ Made(p, files[p])
  BY DEF ExportInv, ExportTypeOK
<1>2. CASE Store
  <2>1. stored' \in 0 .. Len(Table) /\ exported' \in 0 .. stored' /\ files' = files
        /\ Inputs' = Inputs
    BY <1>1, <1>2, TableTypes DEF Store, Inputs
  <2> QED
    BY <1>1, <2>1 DEF ExportInv, ExportTypeOK
<1>3. CASE ExportCsv
  <2>1. stored' = stored /\ exported' = stored /\ stored > 0 /\ files' = files
    BY <1>3 DEF ExportCsv
  <2>2. Inputs' = {"db", "mpc80", "ades", "csv"}
    BY <1>1, <2>1, TableTypes DEF Inputs
  <2>3. Inputs \subseteq Inputs' /\ exported' \in 0 .. stored'
    BY <1>1, <2>1, <2>2, TableTypes DEF Inputs
  <2> QED
    BY <1>1, <2>1, <2>3 DEF ExportInv, ExportTypeOK
<1>4. ASSUME NEW p \in Programs, NEW from \in Inputs, NEW opt \in Options,
             Written(p, from, opt, RowsOf(p, from, opt, Seen(from))),
             ~ (p = "pumalink" /\ from = "csv" /\ opt.filtered)
      PROVE  ExportInv'
  <2> DEFINE f == [from |-> from, opt |-> opt, seen |-> Seen(from),
                   rows |-> RowsOf(p, from, opt, Seen(from))]
  <2>1. files' = [files EXCEPT ![p] = f] /\ stored' = stored /\ exported' = exported
    BY <1>4 DEF Written
  <2>2. Seen(from) \in 0 .. Len(Table)
    BY <1>1, TableTypes DEF Seen
  <2>3. from \in {"db", "csv", "mpc80", "ades"}
    BY DEF Inputs
  <2>4. Made(p, f)
    BY <1>4, <2>2, <2>3 DEF Made
  <2>5. f.from = from /\ f.opt = opt
    OBVIOUS
  <2> HIDE DEF f
  <2>6. files' = [q \in Programs |-> files'[q]] /\ files'[p] = f
        /\ \A q \in Programs \ {p} : files'[q] = files[q]
    BY <1>1, <2>1
  <2>7. Inputs' = Inputs
    BY <2>1 DEF Inputs
  <2>8. \A q \in Programs : /\ files'[q].from \in Inputs \cup {"nothing"}
                            /\ files'[q].opt \in Options \cup {Blank}
                            /\ files'[q] = NoFile \/ Made(q, files'[q])
    BY <1>1, <2>4, <2>5, <2>6
  <2> QED
    BY <1>1, <2>1, <2>6, <2>7, <2>8 DEF ExportInv, ExportTypeOK
<1>5. ASSUME NEW from \in Inputs, NEW opt \in Options, ExportToPumalink(from, opt)
      PROVE  ExportInv'
  <2>1. "pumalink" \in Programs
    BY DEF Programs
  <2>2. Written("pumalink", from, opt, RowsOf("pumalink", from, opt, Seen(from)))
        /\ ~ (from = "csv" /\ opt.filtered)
    BY <1>5 DEF ExportToPumalink, RowsOf
  <2> QED
    BY <1>4, <2>1, <2>2
<1>6. ASSUME NEW from \in Inputs, NEW opt \in Options, ExportToThor(from, opt)
      PROVE  ExportInv'
  <2>1. "thor" \in Programs /\ "thor" # "pumalink"
    BY DEF Programs
  <2>2. Written("thor", from, opt, RowsOf("thor", from, opt, Seen(from)))
    BY <1>6 DEF ExportToThor, RowsOf
  <2> QED
    BY <1>4, <2>1, <2>2
<1>7. CASE UNCHANGED exportVars
  BY <1>7 DEF exportVars, ExportInv, ExportTypeOK, Inputs
<1> QED
  BY <1>2, <1>3, <1>5, <1>6, <1>7 DEF ExportNext

LEMMA ExportsAgreeOn ==
  ASSUME ExportInv
  PROVE  ExportsAgree
<1> DEFINE p == files["pumalink"]
           t == files["thor"]
<1> SUFFICES ASSUME p.from = t.from, p.opt = t.opt, p.seen = t.seen
             PROVE  SameDetections(p.rows, t.rows, p.from, p.opt)
  BY DEF ExportsAgree
<1>1. p = NoFile \/ Made("pumalink", p)
  BY DEF ExportInv, Programs
<1>2. t = NoFile \/ Made("thor", t)
  BY DEF ExportInv, Programs
<1>3. NoFile.from = "nothing" /\ NoFile.rows = <<>>
  BY DEF NoFile
<1>4. \A q, f : Made(q, f) => f.from # "nothing"
  BY DEF Made
<1>5. CASE p = NoFile
  <2>1. t = NoFile
    BY <1>2, <1>3, <1>4, <1>5
  <2>2. Known(<<>>) = <<>>
    <3>1. <<>> \in Seq({})
      BY EmptySeq
    <3>2. {j \in DOMAIN <<>> : <<>>[j].site \in KnownCodes \cup {"option"}} = DOMAIN <<>>
      OBVIOUS
    <3> QED
      BY <3>1, <3>2, PickedAll DEF Known
  <2> QED
    BY <1>3, <1>5, <2>1, <2>2 DEF SameDetections
<1>6. CASE p # NoFile
  <2>1. t # NoFile
    BY <1>1, <1>3, <1>4, <1>6
  <2>2. PICK from \in {"db", "csv", "mpc80", "ades"}, opt \in Options, n \in 0 .. Len(Table) :
           /\ p = [from |-> from, opt |-> opt, seen |-> n,
                   rows |-> RowsOf("pumalink", from, opt, n)]
           /\ ~ (from = "csv" /\ opt.filtered)
    BY <1>1, <1>6 DEF Made
  <2>3. PICK from2 \in {"db", "csv", "mpc80", "ades"}, opt2 \in Options, n2 \in 0 .. Len(Table) :
           t = [from |-> from2, opt |-> opt2, seen |-> n2,
                rows |-> RowsOf("thor", from2, opt2, n2)]
    BY <1>2, <2>1 DEF Made
  <2>4. from2 = from /\ opt2 = opt /\ n2 = n
    BY <2>2, <2>3
  <2>5. p.rows = PumalinkRows(from, opt, n) /\ t.rows = ThorRows(from, opt, n)
        /\ p.from = from /\ p.opt = opt
    BY <2>2, <2>3, <2>4 DEF RowsOf
  <2>6. CASE from \in {"db", "csv"}
    BY <2>2, <2>5, <2>6, SameFromTable
  <2>7. CASE from \in {"mpc80", "ades"}
    BY <2>5, <2>7, SameFromListing
  <2> QED
    BY <2>6, <2>7
<1> QED
  BY <1>5, <1>6

(* Both programs write the same detections, whatever the table, the file   *)
(* and the options, each error being compared for itself, except those     *)
(* that THOR cannot tell from its default: export_to_pumalink.py and       *)
(* export_to_thor.py.                                                      *)
THEOREM ExportsAlwaysAgree == Spec => []ExportsAgree
<1>1. Init => ExportInv
  BY ExportInvInit DEF Init
<1>2. ExportInv /\ [Next]_vars => ExportInv'
  <2>1. [Next]_vars => [ExportNext]_exportVars
    BY DEF Next, vars
  <2> QED
    BY <2>1, ExportInvStep
<1>3. ExportInv => ExportsAgree
  BY ExportsAgreeOn
<1> QED
  BY <1>1, <1>2, <1>3, PTL DEF Spec


-----------------------------------------------------------------------------
(* The sources.  What can be given, by its place: piece and record.        *)
PieceTypes == {"avro", "csv", "unknown", "broken", "rows", "latest", "alerts"}
Pieces == [type : PieceTypes, records : Seq(Records)]

(* The places a fetch has gone by when it is at record at of a piece.      *)
Passed(S, file, at) == {p \in S : p[1] < file \/ (p[1] = file /\ p[2] < at)}

LEMMA PieceType ==
  ASSUME NEW m \in Seq(Pieces), NEW i \in 1 .. Len(m)
  PROVE  /\ Len(m) \in Nat /\ DOMAIN m = 1 .. Len(m)
         /\ m[i] \in Pieces /\ m[i].records \in Seq(Records) /\ m[i].type \in PieceTypes
         /\ Len(m[i].records) \in Nat
         /\ DOMAIN m[i].records = 1 .. Len(m[i].records)
         /\ \A k \in 1 .. Len(m[i].records) : m[i].records[k] \in Records
         /\ \A k \in 1 .. Len(m[i].records) : IdOf(m[i], k) \in Nat \cup {None}
<1>1. Len(m) \in Nat /\ DOMAIN m = 1 .. Len(m) /\ m[i] \in Pieces
  BY LenProperties
<1>2. m[i].records \in Seq(Records) /\ m[i].type \in PieceTypes
  BY <1>1 DEF Pieces
<1>3. /\ Len(m[i].records) \in Nat
      /\ DOMAIN m[i].records = 1 .. Len(m[i].records)
      /\ \A k \in 1 .. Len(m[i].records) : m[i].records[k] \in Records
  BY <1>2, LenProperties
<1>4. ASSUME NEW k \in 1 .. Len(m[i].records)
      PROVE  IdOf(m[i], k) \in Nat \cup {None}
  <2>1. m[i].records[k].id \in Nat
    BY <1>3 DEF Records
  <2> QED
    BY <2>1 DEF IdOf, FromAvro, FromRow, FromAlert
<1> QED
  BY <1>1, <1>2, <1>3, <1>4

LEMMA UsableIs ==
  ASSUME NEW m \in Seq(Pieces), NEW start \in Nat
  PROVE  /\ Usable(m, start) \in SUBSET (Nat \X Nat)
         /\ IsFiniteSet(Usable(m, start))
         /\ \A i, k : <<i, k>> \in Usable(m, start) <=>
              /\ i \in start + 1 .. Len(m) /\ k \in 1 .. Len(m[i].records)
              /\ IdOf(m[i], k) # None
              /\ m[i].type = "latest" => k = Len(m[i].records)
              /\ \A h \in start + 1 .. i : m[h].type # "broken"
         /\ \A p \in Usable(m, start) : p = <<p[1], p[2]>> /\ p[1] \in Nat /\ p[2] \in Nat
<1> DEFINE W == {j \in start + 1 .. Len(m) : \A h \in start + 1 .. j : m[h].type # "broken"}
           K(i) == {k \in DOMAIN m[i].records : /\ IdOf(m[i], k) # None
                                                /\ m[i].type = "latest" => k = Len(m[i].records)}
           B(i) == {i} \X K(i)
           f == [i \in W |-> B(i)]
           U == {B(i) : i \in W}
<1>1. Usable(m, start) = UNION U
  BY DEF Usable
<1>2. Len(m) \in Nat
  BY LenProperties
<1>3. W \in SUBSET (1 .. Len(m))
  BY <1>2
<1>4. ASSUME NEW i \in W
      PROVE  K(i) \in SUBSET (1 .. Len(m[i].records)) /\ IsFiniteSet(K(i)) /\ K(i) \in SUBSET Nat
  <2>1. i \in 1 .. Len(m)
    BY <1>3
  <2>2. Len(m[i].records) \in Nat /\ DOMAIN m[i].records = 1 .. Len(m[i].records)
    BY <2>1, PieceType
  <2>3. K(i) \in SUBSET (1 .. Len(m[i].records))
    BY <2>2
  <2>4. 1 \in Int /\ Len(m[i].records) \in Int
    BY <2>2
  <2>5. IsFiniteSet(1 .. Len(m[i].records))
    BY <2>4, FS_Interval
  <2> HIDE DEF K
  <2> QED
    BY <2>2, <2>3, <2>5, FS_Subset
<1>5. IsFiniteSet(W)
  <2>1. 1 \in Int /\ Len(m) \in Int
    BY <1>2
  <2>2. IsFiniteSet(1 .. Len(m))
    BY <2>1, FS_Interval
  <2> HIDE DEF W
  <2> QED
    BY <1>3, <2>2, FS_Subset
<1>6. IsFiniteSet(UNION U)
  <2>1. f \in Surjection(W, U)
    BY DEF Surjection
  <2>2. \A T \in U : IsFiniteSet(T)
    <3> SUFFICES ASSUME NEW i \in W PROVE IsFiniteSet(B(i))
      OBVIOUS
    <3>1. IsFiniteSet(K(i)) /\ IsFiniteSet({i})
      BY <1>4, FS_Singleton
    <3> HIDE DEF K
    <3> QED
      BY <3>1, FS_Product
  <2> HIDE DEF f, U, W
  <2>3. IsFiniteSet(U)
    BY <1>5, <2>1, FS_Surjection
  <2> QED
    BY <2>2, <2>3, FS_UNION
<1>7. \A i, k : <<i, k>> \in UNION U <=> i \in W /\ k \in K(i)
  OBVIOUS
<1>8. ASSUME NEW i, NEW k
      PROVE  i \in W /\ k \in K(i) <=>
              /\ i \in start + 1 .. Len(m) /\ k \in 1 .. Len(m[i].records)
              /\ IdOf(m[i], k) # None
              /\ m[i].type = "latest" => k = Len(m[i].records)
              /\ \A h \in start + 1 .. i : m[h].type # "broken"
  <2>1. i \in W => DOMAIN m[i].records = 1 .. Len(m[i].records)
    BY <1>3, PieceType
  <2> QED
    BY <2>1
<1>9. UNION U \in SUBSET (Nat \X Nat)
  <2>1. ASSUME NEW i \in W PROVE B(i) \in SUBSET (Nat \X Nat)
    <3>1. i \in Nat
      BY <1>2, <1>3
    <3>2. K(i) \in SUBSET Nat
      BY <1>4
    <3> HIDE DEF K
    <3> QED
      BY <3>1, <3>2
  <2> HIDE DEF W, B
  <2> QED
    BY <2>1
<1>10. \A p \in Nat \X Nat : p = <<p[1], p[2]>> /\ p[1] \in Nat /\ p[2] \in Nat
  OBVIOUS
<1> QED
  BY <1>1, <1>6, <1>7, <1>8, <1>9, <1>10

LEMMA EarlierIs ==
  ASSUME NEW p \in Nat \X Nat, NEW q \in Nat \X Nat
  PROVE  <<p, q>> \in Earlier <=> p[1] < q[1] \/ (p[1] = q[1] /\ p[2] < q[2])
BY DEF Earlier

(* The places a fetch gives of: a limit is one of each file for FileSource,*)
(* and of its rows for a CSV.                                              *)
Got(m, start, limit) ==
    LET usable == Usable(m, start)
    IN {p \in usable :
          LET type == m[p[1]].type
              before == {q \in Below(usable, Earlier, p) : type = "avro" => q[1] = p[1]}
          IN limit = NoLimit \/ IF type = "csv" THEN p[2] <= limit
                                ELSE Cardinality(before) < limit}

LEMMA DueIs ==
  ASSUME NEW m \in Seq(Pieces), NEW start \in Nat, NEW limit
  PROVE  LET U == Usable(m, start)
             D == Got(m, start, limit)
         IN /\ D \in SUBSET U /\ IsFiniteSet(D)
            /\ \A p \in U : p \in D <=>
                 \/ limit = NoLimit
                 \/ m[p[1]].type = "csv" /\ p[2] <= limit
                 \/ m[p[1]].type = "avro"
                    /\ Cardinality({q \in U : q[1] = p[1] /\ q[2] < p[2]}) < limit
                 \/ m[p[1]].type \notin {"csv", "avro"} /\ Rank(U, Earlier, p) < limit
<1> DEFINE U == Usable(m, start)
           D == Got(m, start, limit)
<1>1. U \in SUBSET (Nat \X Nat) /\ IsFiniteSet(U)
  BY UsableIs
<1>2. D \in SUBSET U
  BY DEF Got
<1>3. IsFiniteSet(D)
  <2> HIDE DEF U, D
  <2> QED
    BY <1>1, <1>2, FS_Subset
<1>4. ASSUME NEW p \in U
      PROVE  p \in D <=>
                 \/ limit = NoLimit
                 \/ m[p[1]].type = "csv" /\ p[2] <= limit
                 \/ m[p[1]].type = "avro"
                    /\ Cardinality({q \in U : q[1] = p[1] /\ q[2] < p[2]}) < limit
                 \/ m[p[1]].type \notin {"csv", "avro"} /\ Rank(U, Earlier, p) < limit
  <2> DEFINE type == m[p[1]].type
             before == {q \in Below(U, Earlier, p) : type = "avro" => q[1] = p[1]}
  <2>1. p \in D <=> \/ limit = NoLimit
                    \/ IF type = "csv" THEN p[2] <= limit ELSE Cardinality(before) < limit
    BY DEF Got
  <2>2. type # "avro" => before = Below(U, Earlier, p)
    OBVIOUS
  <2>3. type = "avro" => before = {q \in U : q[1] = p[1] /\ q[2] < p[2]}
    <3>1. \A q \in U : <<q, p>> \in Earlier <=> q[1] < p[1] \/ (q[1] = p[1] /\ q[2] < p[2])
      BY <1>1, EarlierIs
    <3>2. \A q \in U : q[1] \in Nat
      BY <1>1
    <3> QED
      BY <3>1, <3>2 DEF Below
  <2> QED
    BY <2>1, <2>2, <2>3 DEF Rank
<1> QED
  BY <1>2, <1>3, <1>4

LEMMA IdsAtType ==
  ASSUME NEW m \in Seq(Pieces), NEW start \in Nat, NEW S \in SUBSET Usable(m, start)
  PROVE  /\ IsFiniteSet(S) /\ S \in SUBSET (Nat \X Nat) /\ IsOrder(S, Earlier)
         /\ IdsAt(m, S) \in Seq(Nat) /\ Len(IdsAt(m, S)) = Cardinality(S)
         /\ DOMAIN IdsAt(m, S) = 1 .. Len(InOrder(S, Earlier))
         /\ Len(IdsAt(m, S)) = Len(InOrder(S, Earlier))
<1> DEFINE o == InOrder(S, Earlier)
           s == IdsAt(m, S)
<1>1. IsFiniteSet(S) /\ S \in SUBSET (Nat \X Nat) /\ IsOrder(S, Earlier)
  BY UsableIs, FS_Subset, EarlierOrders
<1>2. Lists(o, S, Earlier) /\ Len(o) = Cardinality(S)
  BY <1>1, InOrderLists
<1>3. s = [n \in DOMAIN o |-> IdOf(m[o[n][1]], o[n][2])]
  BY DEF IdsAt
<1> HIDE DEF o, s
<1>4. /\ Len(o) \in Nat /\ DOMAIN o = 1 .. Len(o) /\ \A n \in 1 .. Len(o) : o[n] \in S
  BY <1>2, LenProperties DEF Lists
<1>5. ASSUME NEW p \in S PROVE IdOf(m[p[1]], p[2]) \in Nat
  <2>1. p \in Usable(m, start) /\ p = <<p[1], p[2]>>
    BY UsableIs
  <2>2. /\ p[1] \in start + 1 .. Len(m) /\ p[2] \in 1 .. Len(m[p[1]].records)
        /\ IdOf(m[p[1]], p[2]) # None
    BY <2>1, UsableIs
  <2>3. p[1] \in 1 .. Len(m)
    BY <2>2
  <2> QED
    BY <2>2, <2>3, PieceType
<1>6. s \in [1 .. Len(o) -> Nat]
  BY <1>3, <1>4, <1>5
<1>7. s \in Seq(Nat) /\ Len(s) = Len(o) /\ DOMAIN s = 1 .. Len(o)
  BY <1>4, <1>6, SeqDef, LenProperties
<1> QED
  BY <1>1, <1>2, <1>7 DEF o, s

(* One place more.                                                         *)
LEMMA IdsAtGrow ==
  ASSUME NEW m \in Seq(Pieces), NEW start \in Nat, NEW S \in SUBSET Usable(m, start),
         NEW c \in Usable(m, start), c \notin S, \A p \in S : <<p, c>> \in Earlier
  PROVE  IdsAt(m, S \cup {c}) = Append(IdsAt(m, S), IdOf(m[c[1]], c[2]))
<1> DEFINE T == S \cup {c}
           o == InOrder(S, Earlier)
           t == InOrder(T, Earlier)
           x == IdOf(m[c[1]], c[2])
           s == IdsAt(m, S)
           u == IdsAt(m, T)
<1>1. T \in SUBSET Usable(m, start)
  OBVIOUS
<1>2. /\ IsFiniteSet(S) /\ s \in Seq(Nat) /\ Len(s) = Len(o) /\ DOMAIN s = 1 .. Len(o)
  BY IdsAtType
<1>3. /\ IsOrder(T, Earlier) /\ u \in Seq(Nat) /\ Len(u) = Len(t) /\ DOMAIN u = 1 .. Len(t)
  <2> HIDE DEF T
  <2> QED
    BY <1>1, IdsAtType
<1>4. t = Append(o, c)
  BY <1>2, <1>3, InOrderAppend
<1>5. Lists(o, S, Earlier)
  <2>1. IsOrder(S, Earlier)
    BY IdsAtType
  <2> QED
    BY <1>2, <2>1, InOrderLists
<1>6. o \in Seq(S)
  BY <1>5 DEF Lists
<1>7. s = [n \in DOMAIN o |-> IdOf(m[o[n][1]], o[n][2])]
      /\ u = [n \in DOMAIN t |-> IdOf(m[t[n][1]], t[n][2])]
  BY DEF IdsAt
<1> HIDE DEF o, t, s, u, x
<1>8. /\ Len(o) \in Nat /\ DOMAIN o = 1 .. Len(o)
      /\ Len(t) = Len(o) + 1 /\ DOMAIN t = 1 .. Len(o) + 1
      /\ t[Len(o) + 1] = c /\ \A n \in 1 .. Len(o) : t[n] = o[n]
  <2>1. o \in Seq(Nat \X Nat) /\ c \in Nat \X Nat
    BY <1>6, SeqMonotonic, UsableIs
  <2> QED
    BY <1>4, <2>1, AppendProperties, LenProperties
<1>9. u[Len(o) + 1] = x
  BY <1>7, <1>8 DEF x
<1>10. \A n \in 1 .. Len(o) : u[n] = s[n]
  BY <1>7, <1>8
<1>11. x \in Nat
  BY <1>3, <1>8, <1>9, LenProperties
<1>12. u = Append(s, x)
  <2>1. /\ Append(s, x) \in Seq(Nat) /\ Len(Append(s, x)) = Len(s) + 1
        /\ Append(s, x)[Len(s) + 1] = x
        /\ \A n \in 1 .. Len(s) : Append(s, x)[n] = s[n]
    BY <1>2, <1>11, AppendProperties
  <2>2. Len(u) = Len(Append(s, x))
    BY <1>2, <1>3, <1>8, <2>1
  <2>3. ASSUME NEW n \in 1 .. Len(u) PROVE u[n] = Append(s, x)[n]
    <3>1. CASE n = Len(o) + 1
      BY <1>2, <1>9, <2>1, <3>1
    <3>2. CASE n # Len(o) + 1
      <4>1. n \in 1 .. Len(o)
        BY <1>3, <1>8, <2>3, <3>2
      <4> QED
        BY <1>2, <1>10, <2>1, <4>1
    <3> QED
      BY <3>1, <3>2
  <2> QED
    BY <1>3, <2>1, <2>2, <2>3, SeqEqual
<1> QED
  BY <1>12 DEF u, s, x

(* A part that nothing else comes before is given out first.               *)
LEMMA IdsAtPrefix ==
  ASSUME NEW m \in Seq(Pieces), NEW start \in Nat, NEW D \in SUBSET Usable(m, start),
         NEW B \in SUBSET D,
         \A p \in D, q \in B : <<p, q>> \in Earlier => p \in B
  PROVE  IsPrefix(IdsAt(m, B), IdsAt(m, D))
<1> DEFINE s == IdsAt(m, B)
           t == IdsAt(m, D)
           o == InOrder(B, Earlier)
           d == InOrder(D, Earlier)
<1>1. /\ IsFiniteSet(D) /\ IsOrder(D, Earlier) /\ t \in Seq(Nat) /\ Len(t) = Len(d)
      /\ DOMAIN t = 1 .. Len(d)
  BY IdsAtType
<1>2. s \in Seq(Nat) /\ Len(s) = Len(o) /\ DOMAIN s = 1 .. Len(o)
  BY IdsAtType
<1>3. Len(o) <= Len(d) /\ \A n \in 1 .. Len(o) : o[n] = d[n]
  BY <1>1, InOrderPrefix
<1>4. s = [n \in DOMAIN o |-> IdOf(m[o[n][1]], o[n][2])]
      /\ t = [n \in DOMAIN d |-> IdOf(m[d[n][1]], d[n][2])]
  BY DEF IdsAt
<1> HIDE DEF s, t, o, d
<1>5. /\ Len(o) \in Nat /\ Len(d) \in Nat
  BY <1>1, <1>2, LenProperties
<1>6. DOMAIN o = 1 .. Len(o) /\ DOMAIN d = 1 .. Len(d)
  BY <1>1, <1>2, <1>4
<1>7. \A n \in 1 .. Len(s) : s[n] = t[n]
  BY <1>2, <1>3, <1>4, <1>5, <1>6
<1>8. SubSeq(s, 1, Len(s)) = SubSeq(t, 1, Len(s))
  BY <1>1, <1>2, <1>3, <1>5, <1>7
<1> QED
  BY <1>1, <1>2, <1>3, <1>8 DEF IsPrefix, s, t

LEMMA PassedIs ==
  ASSUME NEW S \in SUBSET (Nat \X Nat), NEW file \in Nat, NEW at \in Nat
  PROVE  /\ Passed(S, file, at) \in SUBSET S
         /\ \A p \in S : p \in Passed(S, file, at) <=> p[1] < file \/ (p[1] = file /\ p[2] < at)
         /\ \A q \in Passed(S, file, at), p \in S \ Passed(S, file, at) : <<q, p>> \in Earlier
         /\ \A p \in S, q \in Passed(S, file, at) : <<p, q>> \in Earlier => p \in Passed(S, file, at)
<1>1. /\ Passed(S, file, at) \in SUBSET S
      /\ \A p \in S : p \in Passed(S, file, at) <=> p[1] < file \/ (p[1] = file /\ p[2] < at)
  BY DEF Passed
<1>2. \A p \in S : p \in Nat \X Nat /\ p[1] \in Nat /\ p[2] \in Nat
  OBVIOUS
<1>3. \A p, q \in S : <<p, q>> \in Earlier <=> p[1] < q[1] \/ (p[1] = q[1] /\ p[2] < q[2])
  BY <1>2, EarlierIs
<1>4. ASSUME NEW q \in Passed(S, file, at), NEW p \in S \ Passed(S, file, at)
      PROVE  <<q, p>> \in Earlier
  BY <1>1, <1>2, <1>3
<1>5. ASSUME NEW p \in S, NEW q \in Passed(S, file, at), <<p, q>> \in Earlier
      PROVE  p \in Passed(S, file, at)
  BY <1>1, <1>2, <1>3, <1>5
<1> QED
  BY <1>1, <1>4, <1>5

(* The next place is due as long as the limit is not reached, if all that  *)
(* have been passed were due.                                              *)
LEMMA NextIsDue ==
  ASSUME NEW m \in Seq(Pieces), NEW start \in Nat, NEW limit \in Nat \cup {NoLimit},
         NEW file \in Nat, NEW at \in Nat, NEW c \in Usable(m, start),
         c \notin Passed(Usable(m, start), file, at),
         \A p \in Usable(m, start) :
            <<p, c>> \in Earlier => p \in Passed(Usable(m, start), file, at),
         Passed(Usable(m, start), file, at) \in SUBSET Got(m, start, limit),
         ~ Reached(limit, Cardinality(Passed(Got(m, start, limit), file, at))),
         m[c[1]].type \notin {"csv", "avro"}
  PROVE  c \in Got(m, start, limit)
<1> DEFINE U == Usable(m, start)
           D == Got(m, start, limit)
<1>1. U \in SUBSET (Nat \X Nat) /\ IsFiniteSet(U) /\ D \in SUBSET U
  BY UsableIs, DueIs
<1>2. D \in SUBSET (Nat \X Nat)
  BY <1>1
<1>3. Passed(D, file, at) = Passed(U, file, at)
  BY <1>1, <1>2 DEF Passed
<1>4. Below(U, Earlier, c) = Passed(U, file, at)
  <2>1. \A q \in Passed(U, file, at) : <<q, c>> \in Earlier
    BY <1>1, PassedIs
  <2>2. Passed(U, file, at) \in SUBSET U
    BY <1>1, PassedIs
  <2> QED
    BY <2>1, <2>2 DEF Below
<1>5. ~ Reached(limit, Rank(U, Earlier, c))
  BY <1>3, <1>4 DEF Rank
<1>6. IsFiniteSet(Passed(U, file, at))
  <2>1. Passed(U, file, at) \in SUBSET U
    BY <1>1, PassedIs
  <2> HIDE DEF U
  <2> QED
    BY <1>1, <2>1, FS_Subset
<1>7. Rank(U, Earlier, c) \in Nat
  BY <1>4, <1>6, FS_CardinalityType DEF Rank
<1>8. limit = NoLimit \/ Rank(U, Earlier, c) < limit
  BY <1>5, <1>7 DEF Reached
<1> QED
  BY <1>8, DueIs

(* Once the limit is reached nothing more is due.                          *)
LEMMA RestIsNotDue ==
  ASSUME NEW m \in Seq(Pieces), NEW start \in Nat, NEW limit \in Nat \cup {NoLimit},
         NEW file \in Nat, NEW at \in Nat, NEW p \in Got(m, start, limit),
         Reached(limit, Cardinality(Passed(Got(m, start, limit), file, at))),
         m[p[1]].type \notin {"csv", "avro"}
  PROVE  p \in Passed(Got(m, start, limit), file, at)
<1> DEFINE U == Usable(m, start)
           D == Got(m, start, limit)
           B == Passed(D, file, at)
<1> SUFFICES ASSUME p \notin B PROVE FALSE
  OBVIOUS
<1>1. U \in SUBSET (Nat \X Nat) /\ IsFiniteSet(U) /\ D \in SUBSET U
  BY UsableIs, DueIs
<1>2. D \in SUBSET (Nat \X Nat)
  BY <1>1
<1>3. B \in SUBSET D /\ \A q \in B : <<q, p>> \in Earlier
  BY <1>2, PassedIs
<1>4. B \in SUBSET Below(U, Earlier, p)
  BY <1>1, <1>3 DEF Below
<1>5. Below(U, Earlier, p) \in SUBSET U
  BY DEF Below
<1> HIDE DEF U, D, B
<1>6. IsFiniteSet(Below(U, Earlier, p))
  BY <1>1, <1>5, FS_Subset
<1>7. IsFiniteSet(B) /\ Cardinality(B) <= Cardinality(Below(U, Earlier, p))
  BY <1>4, <1>6, FS_Subset
<1>8. Cardinality(B) \in Nat /\ Cardinality(Below(U, Earlier, p)) \in Nat
  BY <1>6, <1>7, FS_CardinalityType
<1>9. limit # NoLimit /\ Rank(U, Earlier, p) < limit
  BY <1>1, DueIs DEF U, D, B, Reached
<1> QED
  BY <1>7, <1>8, <1>9 DEF Rank, Reached, B, D

(* The first places of a piece.                                            *)
LEMMA FirstPlaces ==
  ASSUME NEW i, NEW n \in Nat
  PROVE  IsFiniteSet({i} \X (1 .. n)) /\ Cardinality({i} \X (1 .. n)) = n
<1>1. IsFiniteSet(1 .. n) /\ Cardinality(1 .. n) = n
  <2>1. 1 \in Int /\ n \in Int
    OBVIOUS
  <2> QED
    BY <2>1, FS_Interval
<1>2. IsFiniteSet({i}) /\ Cardinality({i}) = 1
  BY FS_Singleton
<1>3. IsFiniteSet({i} \X (1 .. n)) /\ Cardinality({i} \X (1 .. n)) = 1 * n
  BY <1>1, <1>2, FS_Product
<1>4. 1 * n = n
  OBVIOUS
<1> QED
  BY <1>3, <1>4

(* Where the limit is that of the fetch what is given is what is promised. *)
LEMMA GotIsDue ==
  ASSUME NEW m \in Seq(Pieces), NEW f, f.start \in Nat, f.limit \in Nat \cup {NoLimit},
         ~ LimitsEachFile(m, f)
  PROVE  Got(m, f.start, f.limit) = Due(m, f)
<1> DEFINE U == Usable(m, f.start)
           G == Got(m, f.start, f.limit)
<1>1. /\ U \in SUBSET (Nat \X Nat) /\ IsFiniteSet(U) /\ G \in SUBSET U
      /\ \A p \in U : p = <<p[1], p[2]>> /\ p[1] \in Nat /\ p[2] \in Nat
  BY UsableIs, DueIs
<1>2. \A p \in U : p \in G <=>
        \/ f.limit = NoLimit
        \/ m[p[1]].type = "csv" /\ p[2] <= f.limit
        \/ m[p[1]].type = "avro" /\ Cardinality({q \in U : q[1] = p[1] /\ q[2] < p[2]}) < f.limit
        \/ m[p[1]].type \notin {"csv", "avro"} /\ Rank(U, Earlier, p) < f.limit
  BY DueIs
<1>3. Due(m, f) = {p \in U : f.limit = NoLimit \/ Rank(U, Earlier, p) < f.limit}
  BY DEF Due, Rank
<1>4. ASSUME NEW p \in U, f.limit # NoLimit
      PROVE  p \in G <=> Rank(U, Earlier, p) < f.limit
  <2>1. m[p[1]].type \in {"csv", "avro"} => \A q \in U : q[1] = p[1]
    BY <1>4 DEF LimitsEachFile
  <2>2. m[p[1]].type \in {"csv", "avro"} =>
          Below(U, Earlier, p) = {q \in U : q[1] = p[1] /\ q[2] < p[2]}
    <3>1. \A q \in U : <<q, p>> \in Earlier <=> q[1] < p[1] \/ (q[1] = p[1] /\ q[2] < p[2])
      BY <1>1, EarlierIs
    <3> HIDE DEF U
    <3> QED
      BY <1>1, <2>1, <3>1 DEF Below
  <2>3. CASE m[p[1]].type = "csv"
    <3> DEFINE i == p[1]
               B == Below(U, Earlier, p)
    <3>1. i \in f.start + 1 .. Len(m) /\ Len(m) \in Nat
          /\ \A h \in f.start + 1 .. i : m[h].type # "broken"
      BY <1>1, UsableIs, LenProperties
    <3>2. i \in 1 .. Len(m) /\ DOMAIN m = 1 .. Len(m)
      BY <3>1, LenProperties
    <3>3. Len(m[i].records) \in Nat /\ DOMAIN m[i].records = 1 .. Len(m[i].records)
          /\ p[2] \in 1 .. Len(m[i].records)
      BY <1>1, <3>2, PieceType, UsableIs
    <3>4. \A k \in 1 .. Len(m[i].records) : IdOf(m[i], k) # None
      BY <1>4, <2>3, <3>2, <3>3 DEF LimitsEachFile
    <3>5. \A k \in 1 .. Len(m[i].records) : <<i, k>> \in U
      BY <2>3, <3>1, <3>3, <3>4, UsableIs
    <3>6. B = {i} \X (1 .. p[2] - 1)
      <4>1. \A k \in 1 .. p[2] - 1 : <<i, k>> \in U /\ k < p[2]
        BY <3>3, <3>5
      <4>2. ASSUME NEW q \in U, q[1] = i, q[2] < p[2] PROVE q \in {i} \X (1 .. p[2] - 1)
        <5>1. q = <<i, q[2]>> /\ q[2] \in Nat /\ q[2] \in 1 .. Len(m[i].records)
          BY <1>1, <4>2, UsableIs
        <5>2. q[2] \in 1 .. p[2] - 1
          BY <3>3, <4>2, <5>1
        <5> QED
          BY <5>1, <5>2
      <4>3. B = {q \in U : q[1] = i /\ q[2] < p[2]}
        BY <2>2, <2>3
      <4> HIDE DEF U, B, i
      <4> QED
        BY <4>1, <4>2, <4>3
    <3>7. Cardinality(B) = p[2] - 1
      <4> DEFINE n == p[2] - 1
      <4>1. n \in Nat
        BY <3>3
      <4>2. B = {i} \X (1 .. n)
        BY <3>6
      <4> HIDE DEF i, B, n
      <4>3. Cardinality(B) = n
        BY <4>1, <4>2, FirstPlaces
      <4> QED
        BY <4>3 DEF n
    <3>8. Rank(U, Earlier, p) = p[2] - 1
      BY <3>7 DEF Rank
    <3>9. f.limit \in Nat /\ p[2] \in Nat
      BY <1>1, <1>4
    <3>10. p \in G <=> p[2] <= f.limit
      BY <1>2, <1>4, <2>3
    <3> HIDE DEF U, G
    <3> QED
      BY <3>8, <3>9, <3>10
  <2>4. CASE m[p[1]].type = "avro"
    BY <1>2, <1>4, <2>2, <2>4 DEF Rank
  <2>5. CASE m[p[1]].type \notin {"csv", "avro"}
    BY <1>2, <1>4, <2>5
  <2> QED
    BY <2>3, <2>4, <2>5
<1> HIDE DEF U, G
<1>5. CASE f.limit = NoLimit
  <2>1. G = U
    BY <1>1, <1>2, <1>5
  <2> QED
    BY <1>3, <1>5, <2>1 DEF G
<1>6. CASE f.limit # NoLimit
  BY <1>1, <1>3, <1>4, <1>6 DEF G
<1> QED
  BY <1>5, <1>6

(* No more than n have fewer than n before them.                           *)
LEMMA FewBelow ==
  ASSUME NEW U, IsFiniteSet(U), NEW less, IsOrder(U, less), NEW n \in Nat,
         NEW S \in SUBSET U, \A p \in S : Rank(U, less, p) < n
  PROVE  Cardinality(S) <= n
<1> DEFINE f == [p \in S |-> Rank(U, less, p)]
<1>1. IsFiniteSet(S)
  BY FS_Subset
<1>2. \A p \in S : Rank(U, less, p) \in 0 .. n - 1
  <2> SUFFICES ASSUME NEW p \in S PROVE Rank(U, less, p) \in 0 .. n - 1
    OBVIOUS
  <2>1. Rank(U, less, p) \in 0 .. Cardinality(U) - 1 /\ Cardinality(U) \in Nat
    BY RankType, FS_CardinalityType
  <2>2. Rank(U, less, p) < n
    OBVIOUS
  <2> QED
    BY <2>1, <2>2
<1>3. f \in Injection(S, 0 .. n - 1)
  <2>1. f \in [S -> 0 .. n - 1]
    BY <1>2
  <2>2. \A p, q \in S : Rank(U, less, p) = Rank(U, less, q) => p = q
    BY RankInjective
  <2> QED
    BY <2>1, <2>2 DEF Injection, IsInjective
<1>4. 0 \in Int /\ n - 1 \in Int
  OBVIOUS
<1>5. IsFiniteSet(0 .. n - 1) /\ Cardinality(0 .. n - 1) = n
  <2>1. IsFiniteSet(0 .. n - 1)
        /\ Cardinality(0 .. n - 1) = IF 0 > n - 1 THEN 0 ELSE (n - 1) - 0 + 1
    BY <1>4, FS_Interval
  <2> QED
    BY <2>1
<1> HIDE DEF f
<1> QED
  BY <1>1, <1>3, <1>5, FS_Injection

(* Of each piece no more than the limit is given.                          *)
LEMMA LimitOfEach ==
  ASSUME NEW m \in Seq(Pieces), NEW start \in Nat, NEW limit \in Nat,
         NEW S \in SUBSET Got(m, start, limit), NEW i \in DOMAIN m
  PROVE  Cardinality({p \in S : p[1] = i}) <= limit
<1> DEFINE U == Usable(m, start)
           T == {p \in S : p[1] = i}
           V == {q \in U : q[1] = i}
<1>1. /\ U \in SUBSET (Nat \X Nat) /\ IsFiniteSet(U) /\ Got(m, start, limit) \in SUBSET U
      /\ \A p \in U : p = <<p[1], p[2]>> /\ p[1] \in Nat /\ p[2] \in Nat
  BY UsableIs, DueIs
<1>2. \A p \in T : /\ p \in U /\ p[1] = i
                   /\ \/ m[i].type = "csv" /\ p[2] <= limit
                      \/ m[i].type = "avro" /\ Cardinality({q \in U : q[1] = p[1] /\ q[2] < p[2]}) < limit
                      \/ m[i].type \notin {"csv", "avro"} /\ Rank(U, Earlier, p) < limit
  <2> SUFFICES ASSUME NEW p \in T
               PROVE  /\ p \in U /\ p[1] = i
                      /\ \/ m[i].type = "csv" /\ p[2] <= limit
                         \/ m[i].type = "avro" /\ Cardinality({q \in U : q[1] = p[1] /\ q[2] < p[2]}) < limit
                         \/ m[i].type \notin {"csv", "avro"} /\ Rank(U, Earlier, p) < limit
    OBVIOUS
  <2>1. p \in U /\ p[1] = i /\ p \in Got(m, start, limit)
    BY <1>1
  <2>2. limit # NoLimit
    BY SourcesAssumption
  <2> QED
    BY <2>1, <2>2, DueIs
<1>3. CASE m[i].type = "csv"
  <2>1. T \in SUBSET ({i} \X (1 .. limit))
    <3> SUFFICES ASSUME NEW p \in T PROVE p \in {i} \X (1 .. limit)
      OBVIOUS
    <3>1. p \in U /\ p = <<i, p[2]>> /\ p[2] \in Nat /\ p[2] <= limit
      BY <1>1, <1>2, <1>3
    <3>2. p[2] \in 1 .. Len(m[i].records)
      BY <3>1, UsableIs
    <3>3. p[2] \in 1 .. limit
      BY <3>1, <3>2
    <3> QED
      BY <3>1, <3>3
  <2>2. IsFiniteSet({i} \X (1 .. limit)) /\ Cardinality({i} \X (1 .. limit)) = limit
    BY FirstPlaces
  <2> HIDE DEF T
  <2>3. Cardinality(T) <= limit
    BY <2>1, <2>2, FS_Subset
  <2> QED
    BY <2>3 DEF T
<1>4. CASE m[i].type = "avro"
  <2>1. V \in SUBSET U /\ T \in SUBSET V /\ IsOrder(U, Earlier)
    BY <1>1, <1>2, EarlierOrders
  <2>2. IsFiniteSet(V) /\ IsOrder(V, Earlier)
    <3> HIDE DEF V, U
    <3> QED
      BY <1>1, <2>1, FS_Subset, OrderOfSubset
  <2>3. ASSUME NEW p \in T PROVE Rank(V, Earlier, p) < limit
    <3>1. p \in U /\ p[1] = i
      BY <1>2
    <3>2. \A q \in V : q \in U /\ q[1] = i
      OBVIOUS
    <3>3. \A q \in U : <<q, p>> \in Earlier <=> q[1] < p[1] \/ (q[1] = p[1] /\ q[2] < p[2])
      BY <1>1, <3>1, EarlierIs
    <3>4. i \in Nat /\ \A q \in U : q[1] \in Nat
      BY <1>1, <3>1
    <3>5. Below(V, Earlier, p) = {q \in U : q[1] = p[1] /\ q[2] < p[2]}
      BY <3>1, <3>2, <3>3, <3>4 DEF Below
    <3> QED
      BY <1>2, <1>4, <3>5 DEF Rank
  <2> HIDE DEF T, V
  <2> QED
    BY <2>1, <2>2, <2>3, FewBelow DEF T
<1>5. CASE m[i].type \notin {"csv", "avro"}
  <2>1. T \in SUBSET U /\ IsOrder(U, Earlier) /\ \A p \in T : Rank(U, Earlier, p) < limit
    BY <1>1, <1>2, <1>5, EarlierOrders
  <2> HIDE DEF T, U
  <2> QED
    BY <1>1, <2>1, FewBelow DEF T
<1> QED
  BY <1>3, <1>4, <1>5

(* A fetch that ends has delivered.                                        *)
LEMMA FetchEnds ==
  ASSUME NEW m \in Seq(Pieces), NEW kind, kind # "mock",
         NEW f, f.start \in Nat, f.limit \in Nat \cup {NoLimit}, NEW file \in Nat, NEW at \in Nat,
         f.given = IdsAt(m, Passed(Got(m, f.start, f.limit), file, at)),
         f.ended = "done" \/ (f.ended = "raised" /\ kind = "file") =>
            Got(m, f.start, f.limit) \in SUBSET Passed(Got(m, f.start, f.limit), file, at),
         kind \in {"antares", "history"} =>
            \A p \in Usable(m, f.start) :
               p[1] <= f.until - Lossy(kind, f.ended) =>
                  p \in Passed(Got(m, f.start, f.limit), file, at)
  PROVE  Delivers(kind, m, f)
<1> DEFINE U == Usable(m, f.start)
           D == Got(m, f.start, f.limit)
           B == Passed(D, file, at)
           safe == {p \in U : p[1] <= f.until - Lossy(kind, f.ended)}
<1>1. U \in SUBSET (Nat \X Nat) /\ IsFiniteSet(U) /\ D \in SUBSET U
  BY UsableIs, DueIs
<1>2. D \in SUBSET (Nat \X Nat)
  BY <1>1
<1>3. B \in SUBSET D /\ \A p \in D, q \in B : <<p, q>> \in Earlier => p \in B
  BY <1>2, PassedIs
<1>4. CASE LimitsEachFile(m, f)
  <2>1. f.limit \in Nat
    BY <1>4 DEF LimitsEachFile
  <2>2. B \in SUBSET U /\ f.given = IdsAt(m, B)
    BY <1>1, <1>3
  <2>3. \A i \in DOMAIN m : Cardinality({p \in B : p[1] = i}) <= f.limit
    <3> HIDE DEF B
    <3> QED
      BY <1>3, <2>1, LimitOfEach
  <2> HIDE DEF B, D
  <2>4. OfEachFile(m, f)
    BY <2>2, <2>3 DEF OfEachFile, U
  <2> QED
    BY <1>4, <2>4 DEF Delivers
<1>5. CASE ~ LimitsEachFile(m, f)
  <2>1. Promised(m, f) = IdsAt(m, D)
    BY <1>5, GotIsDue DEF Promised
  <2>2. IsPrefix(f.given, Promised(m, f))
    <3> HIDE DEF B, D
    <3>1. IsPrefix(IdsAt(m, B), IdsAt(m, D))
      BY <1>1, <1>3, IdsAtPrefix DEF U
    <3> QED
      BY <2>1, <3>1 DEF B, D
  <2>3. f.ended = "done" \/ (f.ended = "raised" /\ kind = "file") => f.given = Promised(m, f)
    <3>1. f.ended = "done" \/ (f.ended = "raised" /\ kind = "file") => B = D
      BY <1>3
    <3>2. f.given = IdsAt(m, B)
      OBVIOUS
    <3> HIDE DEF B, D
    <3> QED
      BY <2>1, <3>1, <3>2
  <2>4. kind \in {"antares", "history"} => Cardinality(safe) <= Len(f.given)
    <3> SUFFICES ASSUME kind \in {"antares", "history"}
                 PROVE  Cardinality(safe) <= Len(f.given)
      OBVIOUS
    <3>1. safe \in SUBSET B
      OBVIOUS
    <3>2. IsFiniteSet(B) /\ Len(IdsAt(m, B)) = Cardinality(B)
      <4> HIDE DEF B, D
      <4>1. B \in SUBSET U
        BY <1>1, <1>3
      <4> QED
        BY <4>1, IdsAtType DEF U
    <3> HIDE DEF safe
    <3>3. Cardinality(safe) <= Cardinality(B)
      <4> HIDE DEF B
      <4> QED
        BY <3>1, <3>2, FS_Subset
    <3> QED
      BY <3>2, <3>3
  <2> QED
    BY <1>5, <2>2, <2>3, <2>4 DEF Delivers
<1> QED
  BY <1>4, <1>5

-----------------------------------------------------------------------------
(* Types, and what is always known of a fetch and its pieces.              *)
Paths == DOMAIN Folders \cup {"none"}
Kinds == {"none", "file", "fink", "spacerocks", "antares", "history", "mock"}
Fetch == [on : BOOLEAN, limit : Limits \cup {NoLimit}, start : Nat, file : Nat, at : Nat,
          count : Nat, paused : BOOLEAN]
Result == [start : Nat, until : Nat, limit : Limits \cup {NoLimit}, given : Seq(Nat),
           ended : {"done", "raised", "interrupted", "abandoned"}]

HandFacts(kind, has, taken, f) ==
    /\ kind \in {"file", "fink", "spacerocks"} => f.start = 0 /\ f.at >= 1
    /\ kind \in {"fink", "spacerocks"} => f.file = 1
    /\ kind \in {"antares", "history"} =>
         taken <= Len(has) /\ taken = IF f.at = 0 THEN f.file - 1 ELSE f.file
    /\ kind = "mock" => f.at >= 1 /\ taken = f.start + f.at - 1

SourceTypes ==
    /\ source \in [kind : Kinds, open : BOOLEAN, path : Paths, has : Seq(Pieces), taken : Nat]
    /\ fetch \in Fetch
    /\ given \in Seq(Nat)
    /\ fetches \in Seq(Result) /\ Len(fetches) <= MaxFetches
    /\ fetch.on => source.open /\ Len(fetches) < MaxFetches
    /\ source.kind = "file" <=> source.path # "none"
    /\ source.open => source.has = Contents(source.kind, Discover(source.path))
    /\ source.open \/ fetches # <<>> => source.kind # "none"
    /\ source.kind \notin {"antares", "history", "mock"} => source.taken = 0
    /\ source.open /\ Live => source.taken <= Len(source.has)
    /\ fetch.file >= 1
    /\ fetch.on => HandFacts(source.kind, source.has, source.taken, fetch)

LEMMA ContentsType ==
  ASSUME NEW kind \in Kinds, NEW found, kind = "file" => found \in Seq(Files)
  PROVE  Contents(kind, found) \in Seq(Pieces)
<1>1. Files \in SUBSET Pieces
  BY DEF Files, Pieces, PieceTypes
<1>2. CASE kind = "file"
  <2>1. found \in Seq(Pieces)
    BY <1>1, <1>2, SeqMonotonic
  <2> QED
    BY <1>2, <2>1 DEF Contents
<1>3. ASSUME NEW s \in Seq(Records)
      PROVE  <<[type |-> "rows", records |-> s]>> \in Seq(Pieces)
  <2>1. [type |-> "rows", records |-> s] \in Pieces
    BY DEF Pieces, PieceTypes
  <2> QED
    BY <2>1
<1>4. Answered \in Seq(Records)
  <2> DEFINE P == {i \in DOMAIN Rocks : Rocks[i].what = "good"}
  <2>1. Len(Rocks) \in Nat /\ DOMAIN Rocks = 1 .. Len(Rocks)
        /\ \A i \in 1 .. Len(Rocks) : Rocks[i] \in Records
    BY SourcesAssumption, LenProperties
  <2>2. P \in SUBSET (1 .. Len(Rocks)) /\ P \in SUBSET Nat /\ \A i \in P : Rocks[i] \in Records
    BY <2>1
  <2>3. 1 \in Int /\ Len(Rocks) \in Int
    BY <2>1
  <2>4. IsFiniteSet(1 .. Len(Rocks))
    BY <2>3, FS_Interval
  <2> HIDE DEF P
  <2>5. IsFiniteSet(P)
    BY <2>2, <2>4, FS_Subset
  <2>6. Picked(Rocks, P) \in Seq(Records)
    BY <2>2, <2>5, PickedType
  <2> QED
    BY <2>6 DEF Answered, P
<1>5. Len(Loci) \in Nat /\ DOMAIN Loci = 1 .. Len(Loci)
      /\ \A i \in 1 .. Len(Loci) : Loci[i] \in Seq(Records)
  BY SourcesAssumption, LenProperties
<1>6. ASSUME NEW type \in {"latest", "alerts"}
      PROVE  [i \in DOMAIN Loci |-> [type |-> type, records |-> Loci[i]]] \in Seq(Pieces)
  <2> DEFINE s == [i \in DOMAIN Loci |-> [type |-> type, records |-> Loci[i]]]
  <2>1. \A i \in 1 .. Len(Loci) : [type |-> type, records |-> Loci[i]] \in Pieces
    BY <1>5 DEF Pieces, PieceTypes
  <2>2. s \in [1 .. Len(Loci) -> Pieces]
    BY <1>5, <2>1
  <2> HIDE DEF s
  <2>3. s \in Seq(Pieces)
    BY <1>5, <2>2, SeqDef
  <2> QED
    BY <2>3 DEF s
<1>7. CASE kind = "fink"
  BY <1>3, <1>7, SourcesAssumption DEF Contents
<1>8. CASE kind = "spacerocks"
  BY <1>3, <1>4, <1>8 DEF Contents
<1>9. CASE kind = "antares"
  BY <1>6, <1>9 DEF Contents
<1>10. CASE kind = "history"
  BY <1>6, <1>10 DEF Contents
<1>11. CASE kind \in {"none", "mock"}
  <2>1. Contents(kind, found) = <<>>
    BY <1>11 DEF Contents
  <2> QED
    BY <2>1, EmptySeq
<1> QED
  BY <1>2, <1>7, <1>8, <1>9, <1>10, <1>11 DEF Kinds

LEMMA DiscoverType ==
  ASSUME NEW path \in DOMAIN Folders
  PROVE  Discover(path) \in Seq(Files) /\ Folders[path] \in Seq(Files)
BY SourcesAssumption DEF Discover

(* The lists and the streams have pieces of one type each.                 *)
LEMMA ContentsForm ==
  ASSUME NEW kind, NEW found
  PROVE  /\ kind \in {"fink", "spacerocks"} =>
              /\ Len(Contents(kind, found)) = 1
              /\ Contents(kind, found)[1].type = "rows"
         /\ kind \in {"antares", "history"} =>
              \A i \in 1 .. Len(Loci) :
                 Contents(kind, found)[i].type = IF kind = "antares" THEN "latest" ELSE "alerts"
         /\ kind \in {"antares", "history"} => DOMAIN Contents(kind, found) = 1 .. Len(Loci)
         /\ kind # "file" => \A other : Contents(kind, found) = Contents(kind, other)
<1>1. DOMAIN Loci = 1 .. Len(Loci)
  BY SourcesAssumption, LenProperties
<1>2. kind \in {"fink", "spacerocks"} =>
              /\ Len(Contents(kind, found)) = 1
              /\ Contents(kind, found)[1].type = "rows"
  BY DEF Contents
<1>3. kind = "antares" => /\ DOMAIN Contents(kind, found) = 1 .. Len(Loci)
                          /\ \A i \in 1 .. Len(Loci) : Contents(kind, found)[i].type = "latest"
  BY <1>1 DEF Contents
<1>4. kind = "history" => /\ DOMAIN Contents(kind, found) = 1 .. Len(Loci)
                          /\ \A i \in 1 .. Len(Loci) : Contents(kind, found)[i].type = "alerts"
  BY <1>1 DEF Contents
<1>5. kind # "file" => \A other : Contents(kind, found) = Contents(kind, other)
  BY DEF Contents
<1> QED
  BY <1>2, <1>3, <1>4, <1>5

(* What the four kinds of steps of a generator do.                         *)
LEMMA GivesDoes ==
  ASSUME fetch \in Fetch, given \in Seq(Nat), NEW id \in Nat \cup {None},
         NEW file \in Nat, NEW at \in Nat, Gives(id, file, at)
  PROVE  /\ given' = IF id = None THEN given ELSE Append(given, id)
         /\ given' \in Seq(Nat)
         /\ fetch' \in Fetch /\ fetches' = fetches
         /\ fetch'.on = fetch.on /\ fetch'.limit = fetch.limit /\ fetch'.start = fetch.start
         /\ fetch'.file = file /\ fetch'.at = at /\ fetch'.paused = (id # None)
         /\ fetch'.count = IF id = None THEN fetch.count ELSE fetch.count + 1
<1>1. fetch' = [on |-> fetch.on, limit |-> fetch.limit, start |-> fetch.start,
                file |-> file, at |-> at,
                count |-> IF id = None THEN fetch.count ELSE fetch.count + 1,
                paused |-> (id # None)]
  BY DEF Gives, Fetch
<1>2. given' = IF id = None THEN given ELSE Append(given, id)
  BY DEF Gives
<1>3. given' \in Seq(Nat)
  BY <1>2, AppendProperties
<1>4. (IF id = None THEN fetch.count ELSE fetch.count + 1) \in Nat
  BY DEF Fetch
<1>5. fetch' \in Fetch
  BY <1>1, <1>4 DEF Fetch
<1> QED
  BY <1>1, <1>2, <1>3, <1>5 DEF Gives

LEMMA MovesToDoes ==
  ASSUME fetch \in Fetch, NEW file \in Nat, NEW at \in Nat, NEW count \in Nat,
         MovesTo(file, at, count)
  PROVE  /\ given' = given /\ fetches' = fetches
         /\ fetch' \in Fetch
         /\ fetch'.on = fetch.on /\ fetch'.limit = fetch.limit /\ fetch'.start = fetch.start
         /\ fetch'.file = file /\ fetch'.at = at /\ fetch'.paused = FALSE
         /\ fetch'.count = count
<1>1. fetch' = [on |-> fetch.on, limit |-> fetch.limit, start |-> fetch.start,
                file |-> file, at |-> at, count |-> count, paused |-> FALSE]
  BY DEF MovesTo, Fetch
<1>2. fetch' \in Fetch
  BY <1>1 DEF Fetch
<1> QED
  BY <1>1, <1>2 DEF MovesTo

LEMMA BeginFetchDoes ==
  ASSUME SourceTypes, NEW limit \in Limits, BeginFetch(limit)
  PROVE  /\ given' = <<>> /\ given' \in Seq(Nat) /\ fetches' = fetches /\ source' = source
         /\ source.open /\ ~ fetch.on
         /\ fetch' \in Fetch
         /\ fetch'.on = TRUE /\ fetch'.limit = limit /\ fetch'.start = source.taken
         /\ fetch'.file = source.taken + 1 /\ fetch'.paused = FALSE /\ fetch'.count = 0
         /\ fetch'.at = IF Live THEN 0 ELSE 1
<1>1. source.taken \in Nat
  BY DEF SourceTypes
<1>2. /\ fetch' = [on |-> TRUE, limit |-> limit, start |-> source.taken,
                   file |-> source.taken + 1, at |-> IF Live THEN 0 ELSE 1,
                   count |-> 0, paused |-> FALSE]
      /\ given' = <<>> /\ fetches' = fetches /\ source' = source /\ source.open /\ ~ fetch.on
  BY DEF BeginFetch
<1>3. fetch' \in Fetch
  BY <1>1, <1>2 DEF Fetch
<1>4. given' \in Seq(Nat)
  BY <1>2, EmptySeq
<1> QED
  BY <1>2, <1>3, <1>4

LEMMA EndsDoes ==
  ASSUME SourceTypes, fetch.on, source'.taken \in Nat,
         NEW ended \in {"done", "raised", "interrupted", "abandoned"}, Ends(ended)
  PROVE  LET f == [start |-> fetch.start, until |-> source'.taken, limit |-> fetch.limit,
                   given |-> given, ended |-> ended]
         IN /\ f \in Result /\ fetches' = Append(fetches, f)
            /\ fetches' \in Seq(Result) /\ Len(fetches') = Len(fetches) + 1
            /\ Len(fetches) \in Nat
            /\ fetches'[Len(fetches) + 1] = f
            /\ \A n \in 1 .. Len(fetches) : fetches'[n] = fetches[n]
            /\ given' \in Seq(Nat) /\ fetch' \in Fetch /\ ~ fetch'.on /\ fetch'.file = 1
<1> DEFINE f == [start |-> fetch.start, until |-> source'.taken, limit |-> fetch.limit,
                 given |-> given, ended |-> ended]
<1>1. fetch \in Fetch /\ given \in Seq(Nat) /\ fetches \in Seq(Result)
  BY DEF SourceTypes
<1>2. f \in Result
  BY <1>1 DEF Fetch, Result
<1>3. fetches' = Append(fetches, f) /\ fetch' = NoFetch /\ given' = <<>>
  BY DEF Ends
<1> HIDE DEF f
<1>4. /\ Append(fetches, f) \in Seq(Result) /\ Len(Append(fetches, f)) = Len(fetches) + 1
      /\ Append(fetches, f)[Len(fetches) + 1] = f
      /\ \A n \in 1 .. Len(fetches) : Append(fetches, f)[n] = fetches[n]
  BY <1>1, <1>2, AppendProperties
<1>5. NoFetch \in Fetch /\ ~ NoFetch.on /\ NoFetch.file = 1
  BY DEF NoFetch, Fetch
<1>6. <<>> \in Seq(Nat) /\ Len(fetches) \in Nat
  BY <1>1, EmptySeq, LenProperties
<1> QED
  BY <1>2, <1>3, <1>4, <1>5, <1>6 DEF f

(* A step of a generator: its source is the same, but for what is taken.   *)
SourceType == [kind : Kinds, open : BOOLEAN, path : Paths, has : Seq(Pieces), taken : Nat]
SameSource ==
    /\ source' \in SourceType
    /\ source'.kind = source.kind /\ source'.open = source.open
    /\ source'.path = source.path /\ source'.has = source.has
    /\ source.kind \notin {"antares", "history", "mock"} => source'.taken = source.taken
    /\ source.kind \in {"antares", "history"} => source'.taken <= Len(source.has)

LEMMA SourceUnchanged ==
  ASSUME SourceTypes, source.open, source' = source
  PROVE  SameSource
BY DEF SourceTypes, SameSource, SourceType, Live

LEMMA SourceTaken ==
  ASSUME SourceTypes, source.kind \in {"antares", "history", "mock"},
         source.kind # "mock" => source.taken < Len(source.has),
         source' = [source EXCEPT !.taken = @ + 1]
  PROVE  SameSource /\ source'.taken = source.taken + 1
<1>1. source.taken \in Nat /\ source \in SourceType
  BY DEF SourceTypes, SourceType
<1>2. Len(source.has) \in Nat
  BY <1>1, LenProperties DEF SourceType
<1>3. source' = [kind |-> source.kind, open |-> source.open, path |-> source.path,
                 has |-> source.has, taken |-> source.taken + 1]
  BY <1>1 DEF SourceType
<1>4. source' \in SourceType
  BY <1>1, <1>3 DEF SourceType
<1> QED
  BY <1>1, <1>2, <1>3, <1>4 DEF SameSource

LEMMA TypesAfter ==
  ASSUME SourceTypes, SameSource, source.open,
         fetch' \in Fetch, given' \in Seq(Nat), fetches' \in Seq(Result),
         Len(fetches') <= MaxFetches, fetch'.file >= 1,
         fetch'.on => Len(fetches') < MaxFetches
                      /\ HandFacts(source.kind, source.has, source'.taken, fetch')
  PROVE  SourceTypes'
<1>1. source' \in [kind : Kinds, open : BOOLEAN, path : Paths, has : Seq(Pieces), taken : Nat]
  BY DEF SameSource, SourceType
<1>2. source'.has = Contents(source'.kind, Discover(source'.path))
  BY DEF SameSource, SourceTypes
<1>3. /\ source'.kind = "file" <=> source'.path # "none"
      /\ source'.kind # "none"
      /\ source'.kind \notin {"antares", "history", "mock"} => source'.taken = 0
  BY DEF SameSource, SourceTypes
<1>10. Live' => source'.taken <= Len(source'.has)
  BY DEF SameSource, Live
<1>4. fetch'.on => source'.open /\ Len(fetches') < MaxFetches
  BY DEF SameSource
<1>5. fetch'.on => HandFacts(source'.kind, source'.has, source'.taken, fetch')
  BY DEF SameSource
<1> QED
  BY <1>1, <1>2, <1>3, <1>4, <1>5, <1>10 DEF SourceTypes

LEMMA SourceTypesInit == SourcesInit => SourceTypes
<1> SUFFICES ASSUME SourcesInit PROVE SourceTypes
  OBVIOUS
<1>1. <<>> \in Seq(Pieces) /\ <<>> \in Seq(Nat) /\ <<>> \in Seq(Result) /\ Len(<<>>) = 0
  BY EmptySeq
<1>2. source \in [kind : Kinds, open : BOOLEAN, path : Paths, has : Seq(Pieces), taken : Nat]
  BY <1>1 DEF SourcesInit, NoSource, Kinds, Paths
<1>3. fetch \in Fetch /\ ~ fetch.on /\ fetch.file = 1
  BY DEF SourcesInit, NoFetch, Fetch
<1>4. source.kind = "none" /\ source.path = "none" /\ ~ source.open /\ source.taken = 0
  BY DEF SourcesInit, NoSource
<1> QED
  BY <1>1, <1>2, <1>3, <1>4, SourcesAssumption DEF SourcesInit, SourceTypes

(* The end of a fetch.                                                     *)
LEMMA EndsTypes ==
  ASSUME SourceTypes, fetch.on, SameSource,
         NEW ended \in {"done", "raised", "interrupted", "abandoned"}, Ends(ended)
  PROVE  SourceTypes'
<1>1. source'.taken \in Nat
  BY DEF SameSource, SourceType
<1>2. /\ fetches' \in Seq(Result) /\ Len(fetches') = Len(fetches) + 1
      /\ given' \in Seq(Nat) /\ fetch' \in Fetch /\ ~ fetch'.on /\ fetch'.file = 1
      /\ Len(fetches) \in Nat
  BY <1>1, EndsDoes
<1>3. Len(fetches) < MaxFetches /\ source.open /\ MaxFetches \in Nat
  BY SourcesAssumption DEF SourceTypes
<1> QED
  BY <1>2, <1>3, TypesAfter

LEMMA GivesTypes ==
  ASSUME SourceTypes, fetch.on, SameSource, NEW id \in Nat \cup {None},
         NEW file \in Nat, NEW at \in Nat, file >= 1, Gives(id, file, at),
         source.kind \in {"file", "fink", "spacerocks"} => at >= 1,
         source.kind \in {"fink", "spacerocks"} => file = 1,
         source.kind \in {"antares", "history"} =>
            source'.taken <= Len(source.has) /\ source'.taken = IF at = 0 THEN file - 1 ELSE file,
         source.kind = "mock" => at >= 1 /\ source'.taken = fetch.start + at - 1
  PROVE  SourceTypes'
<1>1. fetch \in Fetch /\ given \in Seq(Nat) /\ fetches \in Seq(Result)
      /\ Len(fetches) < MaxFetches /\ Len(fetches) <= MaxFetches /\ source.open
      /\ (source.kind \in {"file", "fink", "spacerocks"} => fetch.start = 0)
  BY DEF SourceTypes, HandFacts
<1>2. /\ given' \in Seq(Nat) /\ fetch' \in Fetch /\ fetches' = fetches
      /\ fetch'.start = fetch.start /\ fetch'.file = file /\ fetch'.at = at
  BY <1>1, GivesDoes
<1>3. HandFacts(source.kind, source.has, source'.taken, fetch')
  BY <1>1, <1>2 DEF HandFacts
<1> QED
  BY <1>1, <1>2, <1>3, TypesAfter

LEMMA MovesToTypes ==
  ASSUME SourceTypes, fetch.on, SameSource, NEW count \in Nat,
         NEW file \in Nat, NEW at \in Nat, file >= 1, MovesTo(file, at, count),
         source.kind \in {"file", "fink", "spacerocks"} => at >= 1,
         source.kind \in {"fink", "spacerocks"} => file = 1,
         source.kind \in {"antares", "history"} =>
            source'.taken <= Len(source.has) /\ source'.taken = IF at = 0 THEN file - 1 ELSE file,
         source.kind = "mock" => at >= 1 /\ source'.taken = fetch.start + at - 1
  PROVE  SourceTypes'
<1>1. fetch \in Fetch /\ given \in Seq(Nat) /\ fetches \in Seq(Result)
      /\ Len(fetches) < MaxFetches /\ Len(fetches) <= MaxFetches /\ source.open
      /\ (source.kind \in {"file", "fink", "spacerocks"} => fetch.start = 0)
  BY DEF SourceTypes, HandFacts
<1>2. /\ given' = given /\ fetch' \in Fetch /\ fetches' = fetches
      /\ fetch'.start = fetch.start /\ fetch'.file = file /\ fetch'.at = at
  BY <1>1, MovesToDoes
<1>3. HandFacts(source.kind, source.has, source'.taken, fetch')
  BY <1>1, <1>2 DEF HandFacts
<1> QED
  BY <1>1, <1>2, <1>3, TypesAfter

(* What can be read at a place of what the source has.                     *)
LEMMA PieceAt ==
  ASSUME SourceTypes, fetch.file \in 1 .. Len(source.has)
  PROVE  /\ Len(Piece.records) \in Nat /\ Piece.type \in PieceTypes
         /\ \A k \in 1 .. Len(Piece.records) : IdOf(Piece, k) \in Nat \cup {None}
         /\ fetch.at >= 1 /\ ~ Exhausted => fetch.at \in 1 .. Len(Piece.records)
<1>1. source.has \in Seq(Pieces) /\ fetch.at \in Nat
  BY DEF SourceTypes, Fetch
<1>2. /\ Len(Piece.records) \in Nat /\ Piece.type \in PieceTypes
      /\ \A k \in 1 .. Len(Piece.records) : IdOf(Piece, k) \in Nat \cup {None}
  BY <1>1, PieceType DEF Piece
<1> QED
  BY <1>1, <1>2 DEF Exhausted

LEMMA SourceFacts ==
  ASSUME SourceTypes
  PROVE  /\ fetch \in Fetch /\ fetch.file \in Nat /\ fetch.file >= 1 /\ fetch.at \in Nat
         /\ fetch.count \in Nat /\ fetch.limit \in Nat \cup {NoLimit} /\ fetch.start \in Nat
         /\ source.has \in Seq(Pieces) /\ Len(source.has) \in Nat /\ source.taken \in Nat
         /\ fetch.on => HandFacts(source.kind, source.has, source.taken, fetch)
         /\ source.open /\ source.kind \in {"fink", "spacerocks"} => Len(source.has) = 1
<1>1. fetch \in Fetch /\ source.has \in Seq(Pieces) /\ source.taken \in Nat /\ fetch.file >= 1
  BY DEF SourceTypes
<1>2. Len(source.has) \in Nat
  BY <1>1, LenProperties
<1>3. fetch.on => HandFacts(source.kind, source.has, source.taken, fetch)
  BY DEF SourceTypes
<1>4. source.open /\ source.kind \in {"fink", "spacerocks"} => Len(source.has) = 1
  BY ContentsForm DEF SourceTypes
<1>5. fetch.limit \in Nat \cup {NoLimit}
  BY <1>1, SourcesAssumption DEF Fetch
<1> QED
  BY <1>1, <1>2, <1>3, <1>4, <1>5 DEF Fetch

LEMMA GeneratorTypes ==
  ASSUME SourceTypes,
         \/ FetchListed \/ FetchFiles \/ TakeLocus \/ StreamRaises \/ FetchLatest \/ FetchHistory
         \/ FetchMock \/ Interrupted \/ Abandoned
  PROVE  SourceTypes'
<1>1. /\ fetch \in Fetch /\ fetch.file \in Nat /\ fetch.file >= 1 /\ fetch.at \in Nat
      /\ fetch.count \in Nat /\ Len(source.has) \in Nat /\ source.taken \in Nat
      /\ fetch.on => HandFacts(source.kind, source.has, source.taken, fetch)
      /\ fetch.on => source.open
      /\ source.open /\ source.kind \in {"fink", "spacerocks"} => Len(source.has) = 1
  BY SourceFacts DEF SourceTypes
<1>2. CASE FetchListed
  <2>1. fetch.on /\ source.kind \in {"fink", "spacerocks"} /\ source' = source
    BY <1>2 DEF FetchListed
  <2>2. Len(source.has) = 1
    BY <1>1, <2>1
  <2>3. fetch.file = 1 /\ fetch.at >= 1
    BY <1>1, <2>1 DEF HandFacts
  <2>4. fetch.file \in 1 .. Len(source.has)
    BY <2>2, <2>3
  <2>5. CASE Ends("done")
    BY <1>1, <2>1, <2>5, EndsTypes, SourceUnchanged
  <2>6. CASE ~ Exhausted /\ GivesNext
    <3>1. IdOf(Piece, fetch.at) \in Nat \cup {None}
      BY <2>3, <2>4, <2>6, PieceAt
    <3>2. Gives(IdOf(Piece, fetch.at), fetch.file, fetch.at + 1) /\ SameSource
      BY <1>1, <2>1, <2>6, SourceUnchanged DEF GivesNext
    <3>3. fetch.at + 1 \in Nat /\ fetch.at + 1 >= 1
      BY <1>1
    <3> QED
      BY <1>1, <2>1, <2>3, <3>1, <3>2, <3>3, GivesTypes
  <2> QED
    BY <1>2, <2>5, <2>6 DEF FetchListed
<1>3. CASE FetchFiles
  <2>1. fetch.on /\ source.kind = "file" /\ source' = source /\ SameSource
    BY <1>1, <1>3, SourceUnchanged DEF FetchFiles
  <2>2. fetch.at >= 1
    BY <1>1, <2>1 DEF HandFacts
  <2>3. ASSUME NEW ended \in {"done", "raised"}, Ends(ended) PROVE SourceTypes'
    BY <2>1, <2>3, EndsTypes
  <2>4. CASE NextFile
    BY <1>1, <2>1, <2>4, MovesToTypes DEF NextFile
  <2>5. CASE ~ Exhausted /\ GivesNext /\ fetch.file <= Len(source.has)
    <3>1. fetch.file \in 1 .. Len(source.has)
      BY <1>1, <2>5
    <3>2. IdOf(Piece, fetch.at) \in Nat \cup {None}
      BY <2>2, <2>5, <3>1, PieceAt
    <3>3. Gives(IdOf(Piece, fetch.at), fetch.file, fetch.at + 1)
      BY <2>5 DEF GivesNext
    <3>4. fetch.at + 1 \in Nat /\ fetch.at + 1 >= 1
      BY <1>1
    <3> QED
      BY <1>1, <2>1, <2>2, <3>2, <3>3, <3>4, GivesTypes
  <2> QED
    BY <1>3, <2>3, <2>4, <2>5 DEF FetchFiles, ReadAvro, ReadCsv
<1>4. CASE TakeLocus
  <2>1. /\ fetch.on /\ source.kind \in {"antares", "history"} /\ fetch.at = 0
        /\ source.taken < Len(source.has)
        /\ source' = [source EXCEPT !.taken = @ + 1]
    BY <1>4 DEF TakeLocus, Live
  <2>2. SameSource /\ source'.taken = source.taken + 1 /\ source.taken = fetch.file - 1
    BY <1>1, <2>1, SourceTaken DEF HandFacts
  <2>3. CASE Ends("done")
    BY <2>1, <2>2, <2>3, EndsTypes
  <2>4. CASE MovesTo(fetch.file, 1, fetch.count)
    BY <1>1, <2>1, <2>2, <2>4, MovesToTypes
  <2> QED
    BY <1>4, <2>3, <2>4 DEF TakeLocus
<1>5. CASE FetchLatest
  <2> DEFINE n == Len(Piece.records)
             id == IF n = 0 THEN None ELSE IdOf(Piece, n)
  <2>1. /\ fetch.on /\ source.kind = "antares" /\ fetch.at > 0 /\ source' = source
        /\ SameSource /\ Gives(id, fetch.file + 1, 0)
    BY <1>1, <1>5, SourceUnchanged DEF FetchLatest
  <2>2. source.taken = fetch.file /\ source.taken <= Len(source.has)
    BY <1>1, <2>1 DEF HandFacts
  <2>3. id \in Nat \cup {None}
    <3>1. fetch.file \in 1 .. Len(source.has)
      BY <1>1, <2>2
    <3>2. n \in Nat /\ \A k \in 1 .. n : IdOf(Piece, k) \in Nat \cup {None}
      BY <3>1, PieceAt
    <3> QED
      BY <3>2
  <2> HIDE DEF id
  <2> QED
    BY <1>1, <2>1, <2>2, <2>3, GivesTypes
<1>6. CASE FetchHistory
  <2>1. /\ fetch.on /\ source.kind = "history" /\ fetch.at > 0 /\ source' = source /\ SameSource
    BY <1>1, <1>6, SourceUnchanged DEF FetchHistory
  <2>2. source.taken = fetch.file /\ source.taken <= Len(source.has)
    BY <1>1, <2>1 DEF HandFacts
  <2>3. CASE MovesTo(fetch.file + 1, 0, fetch.count)
    BY <1>1, <2>1, <2>2, <2>3, MovesToTypes
  <2>4. CASE ~ Exhausted /\ GivesNext
    <3>1. fetch.file \in 1 .. Len(source.has) /\ fetch.at >= 1
      BY <1>1, <2>1, <2>2
    <3>2. IdOf(Piece, fetch.at) \in Nat \cup {None}
      BY <2>4, <3>1, PieceAt
    <3>3. Gives(IdOf(Piece, fetch.at), fetch.file, fetch.at + 1)
      BY <2>4 DEF GivesNext
    <3>4. fetch.at + 1 \in Nat /\ fetch.at + 1 >= 1 /\ fetch.at + 1 # 0
      BY <1>1
    <3>5. source'.taken <= Len(source.has) /\ source'.taken = fetch.file
      BY <2>1, <2>2
    <3> QED
      BY <1>1, <2>1, <3>2, <3>3, <3>4, <3>5, GivesTypes
  <2> QED
    BY <1>6, <2>3, <2>4 DEF FetchHistory
<1>7. CASE FetchMock
  <2>1. fetch.on /\ source.kind = "mock"
    BY <1>7 DEF FetchMock
  <2>2. CASE source' = source /\ Ends("done")
    BY <1>1, <2>1, <2>2, EndsTypes, SourceUnchanged
  <2>3. CASE /\ Gives(source.taken + fetch.at - 1, fetch.file, fetch.at + 1)
             /\ source' = [source EXCEPT !.taken = @ + 1]
    <3>1. SameSource /\ source'.taken = source.taken + 1
      BY <2>1, <2>3, SourceTaken
    <3>2. fetch.at >= 1 /\ source.taken = fetch.start + fetch.at - 1 /\ fetch.start \in Nat
      BY <1>1, <2>1, SourceFacts DEF HandFacts
    <3>3. source.taken \in Nat /\ fetch.at \in Nat
      BY <1>1
    <3>4. source.taken + fetch.at - 1 \in Nat /\ fetch.at + 1 \in Nat /\ fetch.at + 1 >= 1
      BY <3>2, <3>3
    <3>5. source.taken + 1 = fetch.start + (fetch.at + 1) - 1
      BY <3>2, <3>3
    <3>6. source'.taken = fetch.start + (fetch.at + 1) - 1
      BY <3>1, <3>5
    <3> QED
      BY <1>1, <2>1, <2>3, <3>1, <3>4, <3>6, GivesTypes
  <2> QED
    BY <1>7, <2>2, <2>3 DEF FetchMock
<1>8. CASE Interrupted
  BY <1>1, <1>8, EndsTypes, SourceUnchanged DEF Interrupted
<1>9. CASE Abandoned
  BY <1>1, <1>9, EndsTypes, SourceUnchanged DEF Abandoned
<1>10. CASE StreamRaises
  BY <1>1, <1>10, EndsTypes, SourceUnchanged DEF StreamRaises
<1> QED
  BY <1>2, <1>3, <1>4, <1>5, <1>6, <1>7, <1>8, <1>9, <1>10

(* Connecting: nothing has been fetched.                                   *)
LEMMA OpenedTypes ==
  ASSUME SourceTypes, NEW found, Opened(found), source.kind # "none",
         found = Discover(source.path) \/ source.kind # "file"
  PROVE  SourceTypes'
<1>1. /\ source \in SourceType /\ fetch \in Fetch /\ given \in Seq(Nat)
      /\ fetches \in Seq(Result) /\ Len(fetches) <= MaxFetches /\ fetch.file >= 1
      /\ source.kind = "file" <=> source.path # "none"
      /\ fetch.on => source.open
  BY DEF SourceTypes, SourceType
<1>2. /\ ~ source.open /\ fetch' = fetch /\ given' = given /\ fetches' = fetches
      /\ source' = [source EXCEPT !.open = TRUE, !.has = Contents(source.kind, found),
                                  !.taken = 0]
  BY DEF Opened
<1>3. Contents(source.kind, found) = Contents(source.kind, Discover(source.path))
  BY ContentsForm
<1>4. Contents(source.kind, found) \in Seq(Pieces)
  <2>1. CASE source.kind = "file"
    <3>1. source.path \in DOMAIN Folders
      BY <1>1, <2>1 DEF SourceType, Paths
    <3> QED
      BY <1>1, <1>3, <3>1, ContentsType, DiscoverType DEF SourceType
  <2>2. CASE source.kind # "file"
    BY <1>1, <2>2, ContentsType DEF SourceType
  <2> QED
    BY <2>1, <2>2
<1> DEFINE c == Contents(source.kind, found)
<1> HIDE DEF c
<1>5. source' = [source EXCEPT !.open = TRUE, !.has = c, !.taken = 0] /\ c \in Seq(Pieces)
  BY <1>2, <1>4 DEF c
<1>6. /\ source' \in SourceType /\ source'.has = c /\ source'.kind = source.kind
      /\ source'.path = source.path /\ source'.taken = 0
  BY <1>1, <1>5 DEF SourceType
<1>7. source'.has = Contents(source'.kind, Discover(source'.path))
  BY <1>3, <1>6 DEF c
<1>8. ~ fetch'.on
  BY <1>1, <1>2
<1> QED
  BY <1>1, <1>2, <1>6, <1>7, <1>8 DEF SourceTypes, SourceType

LEMMA SourceTypesStep ==
  ASSUME SourceTypes, SourcesNext \/ UNCHANGED sourceVars
  PROVE  SourceTypes'
<1>1. /\ source \in SourceType /\ fetch \in Fetch /\ given \in Seq(Nat)
      /\ fetches \in Seq(Result) /\ Len(fetches) <= MaxFetches /\ fetch.file >= 1
      /\ source.kind = "file" <=> source.path # "none"
      /\ fetch.on => source.open
  BY DEF SourceTypes, SourceType
<1>2. ASSUME NEW kind \in Kinds, NEW path \in Paths, NewSource(kind, path),
             kind = "file" <=> path # "none", kind # "none"
      PROVE  SourceTypes'
  <2>1. /\ source = NoSource /\ fetch' = fetch /\ given' = given /\ fetches' = fetches
        /\ source' = [NoSource EXCEPT !.kind = kind, !.path = path]
    BY <1>2 DEF NewSource
  <2>2. source' = [kind |-> kind, open |-> source.open, path |-> path, has |-> <<>>, taken |-> 0]
        /\ ~ source.open
    BY <2>1 DEF NoSource
  <2>3. <<>> \in Seq(Pieces) /\ source.open \in BOOLEAN
    BY <1>1, EmptySeq DEF SourceType
  <2>4. source' \in SourceType /\ source'.kind = kind /\ source'.path = path
        /\ source'.open = source.open /\ source'.taken = 0
    BY <2>2, <2>3 DEF SourceType
  <2>5. ~ fetch.on /\ ~ source.open
    BY <1>1, <2>2
  <2> QED
    BY <1>1, <1>2, <2>1, <2>4, <2>5 DEF SourceTypes, SourceType
<1>3. CASE \E path \in DOMAIN Folders : "file" \in SourceKinds /\ NewSource("file", path)
  <2>1. PICK path \in DOMAIN Folders : NewSource("file", path)
    BY <1>3
  <2>2. path \in Paths /\ path # "none" /\ "file" \in Kinds
    BY SourcesAssumption DEF Paths, Kinds
  <2> QED
    BY <1>2, <2>1, <2>2
<1>4. CASE \E kind \in SourceKinds \ {"file"} : NewSource(kind, "none")
  <2>1. PICK kind \in SourceKinds \ {"file"} : NewSource(kind, "none")
    BY <1>4
  <2>2. kind \in Kinds /\ kind # "none" /\ kind # "file" /\ "none" \in Paths
    BY SourcesAssumption DEF Paths, Kinds
  <2> QED
    BY <1>2, <2>1, <2>2
<1>5. CASE ConnectFile
  BY <1>5, OpenedTypes DEF ConnectFile
<1>6. CASE ConnectFink \/ ConnectMock \/ ConnectRocks \/ ConnectAntares
  <2>1. Opened(<<>>) /\ source.kind \in {"fink", "mock", "spacerocks", "antares", "history"}
    BY <1>6 DEF ConnectFink, ConnectMock, ConnectRocks, ConnectAntares, Live
  <2> QED
    BY <2>1, OpenedTypes
<1>7. CASE CloseSource
  <2>1. /\ source.open /\ ~ fetch.on /\ fetch' = fetch /\ given' = given /\ fetches' = fetches
        /\ source' = [source EXCEPT !.open = FALSE, !.has = <<>>]
    BY <1>7 DEF CloseSource
  <2>2. <<>> \in Seq(Pieces)
    BY EmptySeq
  <2>3. /\ source' \in SourceType /\ source'.kind = source.kind /\ ~ source'.open
        /\ source'.path = source.path /\ source'.taken = source.taken
    BY <1>1, <2>1, <2>2 DEF SourceType
  <2> QED
    BY <1>1, <2>1, <2>3 DEF SourceTypes, SourceType
<1>8. CASE \E limit \in Limits : BeginFetch(limit)
  <2>1. PICK limit \in Limits : BeginFetch(limit)
    BY <1>8
  <2>2. /\ given' \in Seq(Nat) /\ fetches' = fetches /\ source' = source
        /\ source.open /\ fetch' \in Fetch
        /\ fetch'.start = source.taken
        /\ fetch'.file = source.taken + 1
        /\ fetch'.at = IF Live THEN 0 ELSE 1
    BY <2>1, BeginFetchDoes
  <2>3. Len(fetches) < MaxFetches
    BY <2>1 DEF BeginFetch
  <2>4. source.taken \in Nat /\ Len(source.has) \in Nat
    BY SourceFacts
  <2>5. fetch'.file >= 1
    BY <2>2, <2>4
  <2>6. source.kind \notin {"antares", "history", "mock"} => source.taken = 0
    BY DEF SourceTypes
  <2>7. Live => source.taken <= Len(source.has)
    BY <2>2 DEF SourceTypes
  <2>8. HandFacts(source.kind, source.has, source.taken, fetch')
    BY <2>2, <2>4, <2>6, <2>7 DEF HandFacts, Live
  <2> QED
    <3>1. SameSource
      BY <2>2, SourceUnchanged
    <3>2. fetches' \in Seq(Result) /\ Len(fetches') <= MaxFetches /\ Len(fetches') < MaxFetches
      BY <1>1, <2>2, <2>3
    <3>3. HandFacts(source.kind, source.has, source'.taken, fetch')
      BY <2>2, <2>8
    <3> QED
      BY <2>2, <2>5, <3>1, <3>2, <3>3, TypesAfter
<1>9. CASE \/ FetchListed \/ FetchFiles \/ TakeLocus \/ StreamRaises \/ FetchLatest \/ FetchHistory
           \/ FetchMock \/ Interrupted \/ Abandoned
  BY <1>9, GeneratorTypes
<1>10. CASE UNCHANGED sourceVars
  BY <1>10 DEF sourceVars, SourceTypes, Live
<1> QED
  BY <1>3, <1>4, <1>5, <1>6, <1>7, <1>8, <1>9, <1>10 DEF SourcesNext

-----------------------------------------------------------------------------
(* How far a fetch has come.                                               *)
All(m, f) == Usable(m, f.start)
DueOf(m, f) == Got(m, f.start, f.limit)
Gone(m, f) == Passed(DueOf(m, f), f.file, f.at)
Behind(m, f) == Passed(All(m, f), f.file, f.at)

LEMMA AllIs ==
  ASSUME NEW m \in Seq(Pieces), NEW f \in Fetch
  PROVE  /\ All(m, f) \in SUBSET (Nat \X Nat) /\ IsFiniteSet(All(m, f))
         /\ DueOf(m, f) \in SUBSET All(m, f) /\ DueOf(m, f) \in SUBSET (Nat \X Nat)
         /\ f.start \in Nat /\ f.limit \in Nat \cup {NoLimit} /\ f.file \in Nat /\ f.at \in Nat
         /\ f.count \in Nat
         /\ \A p \in All(m, f) : p[1] \in Nat /\ p[2] \in Nat /\ p = <<p[1], p[2]>>
<1>1. f.start \in Nat /\ f.limit \in Nat \cup {NoLimit} /\ f.file \in Nat /\ f.at \in Nat
      /\ f.count \in Nat
  BY SourcesAssumption DEF Fetch
<1>2. /\ All(m, f) \in SUBSET (Nat \X Nat) /\ IsFiniteSet(All(m, f))
      /\ \A p \in All(m, f) : p[1] \in Nat /\ p[2] \in Nat /\ p = <<p[1], p[2]>>
  BY <1>1, UsableIs DEF All
<1>3. DueOf(m, f) \in SUBSET All(m, f)
  BY <1>1, DueIs DEF All, DueOf
<1> QED
  BY <1>1, <1>2, <1>3

LEMMA GoneIs ==
  ASSUME NEW m \in Seq(Pieces), NEW f \in Fetch
  PROVE  /\ Gone(m, f) \in SUBSET DueOf(m, f) /\ Behind(m, f) \in SUBSET All(m, f)
         /\ Gone(m, f) \in SUBSET All(m, f)
         /\ \A p \in DueOf(m, f) : p \in Gone(m, f) <=> p \in Behind(m, f)
         /\ \A p \in All(m, f) : p \in Behind(m, f) <=>
                                   p[1] < f.file \/ (p[1] = f.file /\ p[2] < f.at)
         /\ \A q \in Behind(m, f), p \in All(m, f) \ Behind(m, f) : <<q, p>> \in Earlier
         /\ IsFiniteSet(Gone(m, f)) /\ Cardinality(Gone(m, f)) \in Nat
<1>1. /\ All(m, f) \in SUBSET (Nat \X Nat) /\ IsFiniteSet(All(m, f))
      /\ DueOf(m, f) \in SUBSET All(m, f) /\ DueOf(m, f) \in SUBSET (Nat \X Nat)
      /\ f.file \in Nat /\ f.at \in Nat
  BY AllIs
<1>2. /\ Gone(m, f) \in SUBSET DueOf(m, f)
      /\ \A p \in DueOf(m, f) : p \in Gone(m, f) <=>
                                   p[1] < f.file \/ (p[1] = f.file /\ p[2] < f.at)
  BY <1>1, PassedIs DEF Gone
<1>3. /\ Behind(m, f) \in SUBSET All(m, f)
      /\ \A p \in All(m, f) : p \in Behind(m, f) <=>
                                   p[1] < f.file \/ (p[1] = f.file /\ p[2] < f.at)
      /\ \A q \in Behind(m, f), p \in All(m, f) \ Behind(m, f) : <<q, p>> \in Earlier
  BY <1>1, PassedIs DEF Behind
<1>4. IsFiniteSet(Gone(m, f)) /\ Cardinality(Gone(m, f)) \in Nat
  BY <1>1, <1>2, FS_Subset, FS_CardinalityType
<1> QED
  BY <1>1, <1>2, <1>3, <1>4

(* From f to h the record k of its piece is passed, and nothing else.      *)
NextPlace(m, f, h, k) ==
    /\ h.start = f.start /\ h.limit = f.limit
    /\ f.file \in f.start + 1 .. Len(m) /\ k \in 1 .. Len(m[f.file].records) /\ f.at <= k
    /\ \A j \in f.start + 1 .. f.file : m[j].type # "broken"
    /\ m[f.file].type = "latest" => k = Len(m[f.file].records)
    /\ \A p \in All(m, f) : p \in Behind(m, h) <=> p \in Behind(m, f) \/ p = <<f.file, k>>
    /\ \A p \in All(m, f) : <<p, <<f.file, k>>>> \in Earlier => p \in Behind(m, f)

IdsGrow(m, f, h, id) ==
    IdsAt(m, Gone(m, h)) = IF id = None THEN IdsAt(m, Gone(m, f))
                                        ELSE Append(IdsAt(m, Gone(m, f)), id)

(* A record is passed.                                                     *)
LEMMA OneMore ==
  ASSUME NEW m \in Seq(Pieces), NEW f \in Fetch, NEW h \in Fetch, NEW k \in Nat,
         NextPlace(m, f, h, k),
         <<f.file, k>> \in All(m, f) => <<f.file, k>> \in DueOf(m, f),
         NEW id, id = IdOf(m[f.file], k)
  PROVE  /\ IdsGrow(m, f, h, id)
         /\ Cardinality(Gone(m, h)) = IF id = None THEN Cardinality(Gone(m, f))
                                                   ELSE Cardinality(Gone(m, f)) + 1
         /\ Behind(m, f) \in SUBSET DueOf(m, f) => Behind(m, h) \in SUBSET DueOf(m, h)
         /\ <<f.file, k>> \in All(m, f) <=> id # None
         /\ id \in Nat \cup {None}
<1> DEFINE c == <<f.file, k>>
<1>10. /\ h.start = f.start /\ h.limit = f.limit
       /\ f.file \in f.start + 1 .. Len(m) /\ k \in 1 .. Len(m[f.file].records) /\ f.at <= k
       /\ \A j \in f.start + 1 .. f.file : m[j].type # "broken"
       /\ m[f.file].type = "latest" => k = Len(m[f.file].records)
       /\ \A p \in All(m, f) : p \in Behind(m, h) <=> p \in Behind(m, f) \/ p = c
  BY DEF NextPlace
<1>1. /\ f.file \in Nat /\ f.at \in Nat /\ f.start \in Nat
      /\ All(m, h) = All(m, f) /\ DueOf(m, h) = DueOf(m, f)
      /\ All(m, f) \in SUBSET (Nat \X Nat) /\ DueOf(m, f) \in SUBSET All(m, f)
  BY <1>10, AllIs DEF All, DueOf
<1>2. c \in All(m, f) <=> id # None
  BY <1>1, <1>10, UsableIs DEF All
<1>3. /\ Gone(m, f) \in SUBSET DueOf(m, f) /\ Gone(m, h) \in SUBSET DueOf(m, f)
      /\ \A p \in DueOf(m, f) : p \in Gone(m, f) <=> p \in Behind(m, f)
      /\ \A p \in DueOf(m, f) : p \in Gone(m, h) <=> p \in Behind(m, h)
      /\ Behind(m, f) \in SUBSET All(m, f) /\ Behind(m, h) \in SUBSET All(m, f)
      /\ \A q \in Behind(m, f), p \in All(m, f) \ Behind(m, f) : <<q, p>> \in Earlier
      /\ IsFiniteSet(Gone(m, f)) /\ Cardinality(Gone(m, f)) \in Nat
  BY <1>1, GoneIs
<1>4. c \in All(m, f) => c \notin Behind(m, f)
  <2> SUFFICES ASSUME c \in All(m, f), c \in Behind(m, f) PROVE FALSE
    OBVIOUS
  <2>1. c[1] < f.file \/ (c[1] = f.file /\ c[2] < f.at)
    BY GoneIs
  <2>2. c[1] = f.file /\ c[2] = k
    OBVIOUS
  <2> QED
    BY <1>1, <1>10, <2>1, <2>2
<1> HIDE DEF c
<1>5. id \in Nat \cup {None}
  <2>1. f.file \in 1 .. Len(m)
    <3>1. Len(m) \in Nat
      BY LenProperties
    <3> QED
      BY <1>1, <1>10, <3>1
  <2> QED
    BY <1>10, <2>1, PieceType
<1>6. CASE id = None
  <2>1. c \notin All(m, f)
    BY <1>2, <1>6
  <2>2. \A p \in All(m, f) : p \in Behind(m, h) <=> p \in Behind(m, f)
    BY <1>10, <2>1
  <2>3. Gone(m, h) = Gone(m, f) /\ Behind(m, h) = Behind(m, f)
    BY <1>1, <1>3, <2>2
  <2> QED
    BY <1>1, <1>2, <1>5, <1>6, <2>3 DEF c, IdsGrow
<1>7. CASE id # None
  <2>1. c \in All(m, f) /\ c \in DueOf(m, f) /\ c \notin Gone(m, f)
    BY <1>2, <1>3, <1>4, <1>7 DEF c
  <2>2. Gone(m, h) = Gone(m, f) \cup {c}
    BY <1>1, <1>3, <1>10, <2>1
  <2>3. \A p \in Gone(m, f) : <<p, c>> \in Earlier
    BY <1>1, <1>3, <1>4, <2>1
  <2>4. Gone(m, f) \in SUBSET Usable(m, f.start) /\ c \in Usable(m, f.start)
    BY <1>1, <1>3, <2>1 DEF All
  <2>5. IdsAt(m, Gone(m, f) \cup {c}) = Append(IdsAt(m, Gone(m, f)), IdOf(m[c[1]], c[2]))
    BY <1>1, <2>1, <2>3, <2>4, IdsAtGrow
  <2>6. IdOf(m[c[1]], c[2]) = id
    BY DEF c
  <2>7. Cardinality(Gone(m, h)) = Cardinality(Gone(m, f)) + 1
    <3> HIDE DEF Gone
    <3>1. IsFiniteSet(Gone(m, f)) /\ c \notin Gone(m, f)
      BY <1>3, <2>1
    <3>2. Cardinality(Gone(m, f) \cup {c}) = Cardinality(Gone(m, f)) + 1
      BY <3>1, FS_AddElement
    <3> QED
      BY <2>2, <3>2
  <2>8. Behind(m, f) \in SUBSET DueOf(m, f) => Behind(m, h) \in SUBSET DueOf(m, h)
    BY <1>1, <1>3, <1>10, <2>1
  <2> QED
    BY <1>2, <1>5, <1>7, <2>2, <2>5, <2>6, <2>7, <2>8 DEF c, IdsGrow
<1> QED
  BY <1>6, <1>7

(* What is passed was not wanted.                                          *)
LEMMA NoneMore ==
  ASSUME NEW m \in Seq(Pieces), NEW f \in Fetch, NEW h \in Fetch,
         h.start = f.start, h.limit = f.limit,
         \A p \in DueOf(m, f) : p \in Behind(m, h) <=> p \in Behind(m, f)
  PROVE  Gone(m, h) = Gone(m, f)
<1>1. All(m, h) = All(m, f) /\ DueOf(m, h) = DueOf(m, f)
  BY DEF All, DueOf
<1>2. /\ Gone(m, f) \in SUBSET DueOf(m, f) /\ Gone(m, h) \in SUBSET DueOf(m, f)
      /\ \A p \in DueOf(m, f) : p \in Gone(m, f) <=> p \in Behind(m, f)
      /\ \A p \in DueOf(m, f) : p \in Gone(m, h) <=> p \in Behind(m, h)
  BY <1>1, GoneIs
<1> QED
  BY <1>2

(* Steps by one record and to the next piece.                              *)
LEMMA BehindNext ==
  ASSUME NEW m \in Seq(Pieces), NEW f \in Fetch, NEW h \in Fetch, h.start = f.start,
         h.file = f.file, h.at = f.at + 1
  PROVE  \A p \in All(m, f) : p \in Behind(m, h) <=> p \in Behind(m, f) \/ p = <<f.file, f.at>>
<1> SUFFICES ASSUME NEW p \in All(m, f)
             PROVE  p \in Behind(m, h) <=> p \in Behind(m, f) \/ p = <<f.file, f.at>>
  OBVIOUS
<1>1. All(m, h) = All(m, f) /\ p[1] \in Nat /\ p[2] \in Nat /\ p = <<p[1], p[2]>>
      /\ f.file \in Nat /\ f.at \in Nat
  BY AllIs DEF All
<1>2. /\ p \in Behind(m, f) <=> p[1] < f.file \/ (p[1] = f.file /\ p[2] < f.at)
      /\ p \in Behind(m, h) <=> p[1] < h.file \/ (p[1] = h.file /\ p[2] < h.at)
  BY <1>1, GoneIs
<1>3. p = <<f.file, f.at>> <=> p[1] = f.file /\ p[2] = f.at
  BY <1>1
<1>4. p[2] < f.at + 1 <=> p[2] < f.at \/ p[2] = f.at
  BY <1>1
<1> QED
  BY <1>2, <1>3, <1>4

LEMMA BehindPiece ==
  ASSUME NEW m \in Seq(Pieces), NEW f \in Fetch, NEW h \in Fetch, h.start = f.start,
         h.file = f.file + 1, h.at \in {0, 1}
  PROVE  \A p \in All(m, f) : p \in Behind(m, h) <=>
            p \in Behind(m, f) \/ (p[1] = f.file /\ p[2] >= f.at)
<1> SUFFICES ASSUME NEW p \in All(m, f)
             PROVE  p \in Behind(m, h) <=>
                       p \in Behind(m, f) \/ (p[1] = f.file /\ p[2] >= f.at)
  OBVIOUS
<1>1. All(m, h) = All(m, f) /\ p[1] \in Nat /\ p[2] \in Nat /\ p = <<p[1], p[2]>>
      /\ f.file \in Nat /\ f.at \in Nat /\ f.start \in Nat
  BY AllIs DEF All
<1>2. /\ p \in Behind(m, f) <=> p[1] < f.file \/ (p[1] = f.file /\ p[2] < f.at)
      /\ p \in Behind(m, h) <=> p[1] < h.file \/ (p[1] = h.file /\ p[2] < h.at)
  BY <1>1, GoneIs
<1>3. p[2] >= 1
  <2>1. p[1] \in f.start + 1 .. Len(m) /\ p[2] \in 1 .. Len(m[p[1]].records)
    BY <1>1, UsableIs DEF All
  <2>2. p[1] \in 1 .. Len(m)
    <3>1. Len(m) \in Nat
      BY LenProperties
    <3> QED
      BY <1>1, <2>1, <3>1
  <2>3. Len(m[p[1]].records) \in Nat
    BY <2>2, PieceType
  <2> QED
    BY <1>1, <2>1, <2>3
<1>4. ~ p[2] < h.at
  BY <1>1, <1>3
<1>5. p[1] < h.file <=> p[1] < f.file \/ p[1] = f.file
  BY <1>1
<1>6. p[2] < f.at \/ p[2] >= f.at
  BY <1>1
<1> QED
  BY <1>2, <1>4, <1>5, <1>6

-----------------------------------------------------------------------------
(* What is known of a fetch while it goes on.                              *)
MockHand(g, f) ==
    /\ Len(g) = f.at - 1 /\ f.at - 1 <= MockCount
    /\ \A i \in 1 .. Len(g) : g[i] = f.start + 2 * (i - 1)

FileHand(m, f) ==
    /\ f.file <= Len(m) + 1
    /\ \A h \in 1 .. f.file - 1 : m[h].type # "broken"
    /\ f.file <= Len(m) /\ m[f.file].type = "avro" =>
         f.count = Cardinality({q \in All(m, f) : q[1] = f.file /\ q[2] < f.at})

ListHand(m, f) ==
    /\ f.count = Cardinality(Gone(m, f))
    /\ ~ Reached(f.limit, f.count) => Behind(m, f) \in SUBSET DueOf(m, f)

StreamHand(kind, m, f) ==
    /\ \A p \in All(m, f) :
          p[1] <= f.file - (IF kind = "history" /\ f.at = 0 THEN 2 ELSE 1) => p \in DueOf(m, f)
    /\ kind = "antares" => /\ f.at \in {0, 1}
                           /\ f.paused => f.at = 0
                           /\ f.at = 1 => ~ Reached(f.limit, f.count)
    /\ kind = "history" => (f.paused => f.at > 0)

Hand(kind, m, g, f) ==
    IF kind = "mock" THEN MockHand(g, f)
    ELSE /\ f.start < f.file /\ g = IdsAt(m, Gone(m, f))
         /\ kind = "file" => FileHand(m, f)
         /\ kind # "file" => ListHand(m, f)
         /\ kind \in {"antares", "history"} => StreamHand(kind, m, f)

(* At the start nothing has been passed.                                   *)
LEMMA HandStart ==
  ASSUME NEW m \in Seq(Pieces), NEW f \in Fetch, NEW kind,
         f.file = f.start + 1, f.at \in {0, 1}, f.count = 0, f.paused = FALSE,
         kind = "file" => f.start = 0,
         kind = "mock" => f.at = 1,
         kind = "antares" => f.at = 0, kind = "history" => f.at = 0
  PROVE  Hand(kind, m, <<>>, f)
<1>1. /\ f.start \in Nat /\ f.file \in Nat /\ f.at \in Nat
      /\ Len(m) \in Nat
  BY AllIs, LenProperties
<1>2. ASSUME NEW p \in All(m, f)
      PROVE  p[1] \in Nat /\ p[2] \in Nat /\ p[1] >= f.file /\ p[2] >= 1
  <2>1. p = <<p[1], p[2]>> /\ p[1] \in Nat /\ p[2] \in Nat
    BY AllIs
  <2>2. p[1] \in f.start + 1 .. Len(m) /\ p[2] \in 1 .. Len(m[p[1]].records)
    BY <1>1, <2>1, UsableIs DEF All
  <2>3. p[1] \in 1 .. Len(m)
    BY <1>1, <2>1, <2>2
  <2>4. Len(m[p[1]].records) \in Nat
    BY <2>3, PieceType
  <2> QED
    BY <1>1, <2>1, <2>2, <2>4
<1>3. Behind(m, f) = {}
  <2> SUFFICES ASSUME NEW p \in Behind(m, f) PROVE FALSE
    OBVIOUS
  <2>1. p \in All(m, f) /\ (p[1] < f.file \/ (p[1] = f.file /\ p[2] < f.at))
    BY GoneIs
  <2>2. p[1] \in Nat /\ p[2] \in Nat /\ p[1] >= f.file /\ p[2] >= 1
    BY <1>2, <2>1
  <2> QED
    BY <1>1, <2>1, <2>2
<1>4. Gone(m, f) = {}
  BY <1>3, GoneIs
<1>5. Cardinality({}) = 0
  BY FS_EmptySet
<1>6. IdsAt(m, {}) = <<>>
  <2>1. {} \in SUBSET Usable(m, f.start)
    OBVIOUS
  <2>2. IdsAt(m, {}) \in Seq(Nat) /\ Len(IdsAt(m, {})) = 0
    BY <1>1, <1>5, <2>1, IdsAtType
  <2> QED
    BY <2>2, EmptySeq
<1>7. CASE kind = "mock"
  <2>1. Len(<<>>) = 0 /\ f.at - 1 = 0 /\ MockCount \in Nat
    BY <1>7, SourcesAssumption
  <2> QED
    BY <1>7, <2>1 DEF Hand, MockHand
<1>8. CASE kind # "mock"
  <2>1. f.start < f.file /\ <<>> = IdsAt(m, Gone(m, f))
    BY <1>1, <1>4, <1>6
  <2>2. kind = "file" => FileHand(m, f)
    <3> SUFFICES ASSUME kind = "file" PROVE FileHand(m, f)
      OBVIOUS
    <3>2. {q \in All(m, f) : q[1] = f.file /\ q[2] < f.at} = {}
      <4> SUFFICES ASSUME NEW q \in All(m, f), q[2] < f.at PROVE FALSE
        OBVIOUS
      <4> QED
        BY <1>2
    <3>3. f.file = 1
      OBVIOUS
    <3>4. f.file <= Len(m) + 1 /\ 1 .. f.file - 1 = {}
      BY <1>1, <3>3
    <3>5. f.count = Cardinality({q \in All(m, f) : q[1] = f.file /\ q[2] < f.at})
      BY <1>5, <3>2
    <3> HIDE DEF All
    <3> QED
      BY <3>4, <3>5 DEF FileHand
  <2>3. kind # "file" => ListHand(m, f)
    BY <1>3, <1>4, <1>5 DEF ListHand
  <2>4. kind \in {"antares", "history"} => StreamHand(kind, m, f)
    <3> SUFFICES ASSUME kind \in {"antares", "history"} PROVE StreamHand(kind, m, f)
      OBVIOUS
    <3>1. ASSUME NEW p \in All(m, f)
          PROVE  ~ (p[1] <= f.file - (IF kind = "history" /\ f.at = 0 THEN 2 ELSE 1))
      BY <1>1, <1>2
    <3>2. f.at = 0 /\ f.paused = FALSE
      OBVIOUS
    <3> QED
      BY <3>1, <3>2 DEF StreamHand
  <2> QED
    BY <1>8, <2>1, <2>2, <2>3, <2>4 DEF Hand
<1> QED
  BY <1>7, <1>8

-----------------------------------------------------------------------------
(* The pieces of what is not a folder.                                     *)
LEMMA PiecesOf ==
  ASSUME SourceTypes, source.open, NEW i \in 1 .. Len(source.has)
  PROVE  /\ source.kind \in {"fink", "spacerocks"} => source.has[i].type = "rows"
         /\ source.kind = "antares" => source.has[i].type = "latest"
         /\ source.kind = "history" => source.has[i].type = "alerts"
<1> DEFINE c == Contents(source.kind, Discover(source.path))
<1>1. source.has = c /\ source.has \in Seq(Pieces)
  BY DEF SourceTypes
<1>2. /\ source.kind \in {"fink", "spacerocks"} => Len(c) = 1 /\ c[1].type = "rows"
      /\ source.kind \in {"antares", "history"} => DOMAIN c = 1 .. Len(Loci)
      /\ source.kind = "antares" => \A j \in 1 .. Len(Loci) : c[j].type = "latest"
      /\ source.kind = "history" => \A j \in 1 .. Len(Loci) : c[j].type = "alerts"
  BY ContentsForm
<1> HIDE DEF c
<1>3. DOMAIN source.has = 1 .. Len(source.has)
  BY <1>1, LenProperties
<1>4. CASE source.kind \in {"fink", "spacerocks"}
  BY <1>1, <1>2, <1>4
<1>5. CASE source.kind = "antares"
  BY <1>1, <1>2, <1>3, <1>5
<1>6. CASE source.kind = "history"
  BY <1>1, <1>2, <1>3, <1>6
<1> QED
  BY <1>4, <1>5, <1>6

(* A record is given where only the number of alerts is limited.           *)
LEMMA GivesCounted ==
  ASSUME NEW m \in Seq(Pieces), NEW f \in Fetch, NEW h \in Fetch, NEW k \in Nat,
         NextPlace(m, f, h, k), m[f.file].type \notin {"csv", "avro"},
         ListHand(m, f), ~ Reached(f.limit, f.count),
         NEW id, id = IdOf(m[f.file], k),
         h.count = IF id = None THEN f.count ELSE f.count + 1
  PROVE  /\ IdsGrow(m, f, h, id)
         /\ ListHand(m, h)
         /\ <<f.file, k>> \in All(m, f) => <<f.file, k>> \in DueOf(m, f)
<1> DEFINE c == <<f.file, k>>
<1>1. /\ f.count = Cardinality(Gone(m, f)) /\ Behind(m, f) \in SUBSET DueOf(m, f)
  BY DEF ListHand
<1>2. c \in All(m, f) => c \in DueOf(m, f)
  <2> SUFFICES ASSUME c \in All(m, f) PROVE c \in DueOf(m, f)
    OBVIOUS
  <2>1. f.start \in Nat /\ f.limit \in Nat \cup {NoLimit} /\ f.file \in Nat /\ f.at \in Nat
    BY AllIs
  <2>2. c[1] = f.file /\ c[2] = k
    OBVIOUS
  <2>3. c \notin Behind(m, f)
    <3>1. c \in Behind(m, f) => c[1] < f.file \/ (c[1] = f.file /\ c[2] < f.at)
      BY GoneIs
    <3> QED
      BY <2>1, <2>2, <3>1 DEF NextPlace
  <2>4. ~ Reached(f.limit, Cardinality(Gone(m, f)))
    BY <1>1
  <2>5. m[c[1]].type \notin {"csv", "avro"}
    BY <2>2
  <2> HIDE DEF c
  <2>6. \A p \in All(m, f) : <<p, c>> \in Earlier => p \in Behind(m, f)
    BY DEF c, NextPlace
  <2> QED
    BY <1>1, <2>1, <2>3, <2>4, <2>5, <2>6, NextIsDue DEF All, DueOf, Behind, Gone
<1>3. /\ IdsGrow(m, f, h, id)
      /\ Cardinality(Gone(m, h)) = IF id = None THEN Cardinality(Gone(m, f))
                                                ELSE Cardinality(Gone(m, f)) + 1
      /\ Behind(m, f) \in SUBSET DueOf(m, f) => Behind(m, h) \in SUBSET DueOf(m, h)
  BY <1>2, OneMore
<1>4. h.count = Cardinality(Gone(m, h))
  BY <1>1, <1>3
<1>5. ListHand(m, h)
  BY <1>1, <1>3, <1>4 DEF ListHand
<1> QED
  BY <1>2, <1>3, <1>5

(* The end of a fetch: it has delivered, if what it wanted is gone.        *)
ResultOf(ended) == [start |-> fetch.start, until |-> source'.taken, limit |-> fetch.limit,
                    given |-> given, ended |-> ended]

LEMMA EndDelivers ==
  ASSUME SourceTypes, source.kind # "mock", Hand(source.kind, source.has, given, fetch),
         NEW ended,
         ended = "done" \/ (ended = "raised" /\ source.kind = "file") =>
            DueOf(source.has, fetch) \in SUBSET Gone(source.has, fetch),
         source.kind \in {"antares", "history"} =>
            \A p \in All(source.has, fetch) :
               p[1] <= source'.taken - Lossy(source.kind, ended) => p \in Gone(source.has, fetch)
  PROVE  Delivers(source.kind, source.has, ResultOf(ended))
<1> DEFINE f == ResultOf(ended)
<1>1. f.start = fetch.start /\ f.limit = fetch.limit /\ f.until = source'.taken
      /\ f.given = given /\ f.ended = ended
  BY DEF ResultOf
<1> HIDE DEF f
<1>2. /\ fetch.start \in Nat /\ fetch.file \in Nat /\ fetch.at \in Nat
      /\ source.has \in Seq(Pieces) /\ fetch.limit \in Nat \cup {NoLimit}
  BY SourceFacts
<1>3. given = IdsAt(source.has, Gone(source.has, fetch))
  BY DEF Hand
<1>4. /\ Got(source.has, f.start, f.limit) = DueOf(source.has, fetch)
      /\ Usable(source.has, f.start) = All(source.has, fetch)
      /\ Passed(DueOf(source.has, fetch), fetch.file, fetch.at) = Gone(source.has, fetch)
  BY <1>1 DEF DueOf, All, Gone
<1>5. f.start \in Nat /\ f.limit \in Nat \cup {NoLimit}
  BY <1>1, <1>2
<1> HIDE DEF DueOf, All, Gone
<1>6. Delivers(source.kind, source.has, f)
  BY <1>1, <1>2, <1>3, <1>4, <1>5, FetchEnds
<1> QED
  BY <1>6 DEF f

Goes ==
    \/ /\ fetch'.on = TRUE /\ fetches' = fetches /\ fetch'.start = fetch.start
       /\ Hand(source.kind, source.has, given', fetch')
    \/ \E ended \in {"done", "raised", "interrupted", "abandoned"} :
          Ends(ended) /\ Delivers(source.kind, source.has, ResultOf(ended))

(* All that is wanted is gone when the limit is reached or nothing is left.*)
LEMMA LimitReached ==
  ASSUME NEW m \in Seq(Pieces), NEW f \in Fetch, ListHand(m, f), Reached(f.limit, f.count),
         \A i \in 1 .. Len(m) : m[i].type \notin {"csv", "avro"}
  PROVE  DueOf(m, f) \in SUBSET Gone(m, f)
<1> SUFFICES ASSUME NEW p \in DueOf(m, f) PROVE p \in Gone(m, f)
  OBVIOUS
<1>1. f.start \in Nat /\ f.limit \in Nat \cup {NoLimit} /\ f.file \in Nat /\ f.at \in Nat
      /\ p \in All(m, f) /\ p = <<p[1], p[2]>> /\ Len(m) \in Nat
  BY AllIs, LenProperties
<1>2. p[1] \in f.start + 1 .. Len(m)
  BY <1>1, UsableIs DEF All
<1>3. m[p[1]].type \notin {"csv", "avro"}
  BY <1>1, <1>2
<1>4. Reached(f.limit, Cardinality(Gone(m, f)))
  BY DEF ListHand
<1> QED
  BY <1>1, <1>3, <1>4, RestIsNotDue DEF DueOf, Gone

LEMMA NothingLeft ==
  ASSUME NEW m \in Seq(Pieces), NEW f \in Fetch,
         \A p \in All(m, f) : p[1] < f.file \/ (p[1] = f.file /\ p[2] < f.at)
  PROVE  DueOf(m, f) \in SUBSET Gone(m, f)
<1>1. All(m, f) \in SUBSET Behind(m, f)
  BY GoneIs
<1> QED
  BY <1>1, AllIs, GoneIs

LEMMA ListedGoes ==
  ASSUME SourceTypes, Hand(source.kind, source.has, given, fetch), FetchListed
  PROVE  Goes
<1> DEFINE m == source.has
<1>1. /\ fetch.on /\ source.kind \in {"fink", "spacerocks"} /\ source' = source
      /\ source.open /\ given \in Seq(Nat)
  BY DEF FetchListed, SourceTypes
<1>2. /\ fetch \in Fetch /\ fetch.file \in Nat /\ fetch.at \in Nat /\ fetch.start \in Nat
      /\ m \in Seq(Pieces)
  BY SourceFacts
<1>3. Len(m) = 1
  BY <1>1, SourceFacts
<1>4. fetch.start = 0 /\ fetch.at >= 1 /\ fetch.file = 1
  BY <1>1, SourceFacts DEF HandFacts
<1>5. /\ given = IdsAt(m, Gone(m, fetch)) /\ ListHand(m, fetch)
  BY <1>1 DEF Hand
<1>6. \A i \in 1 .. Len(m) : m[i].type = "rows"
  BY <1>1, PiecesOf
<1>7. Len(m[1].records) \in Nat
  BY <1>2, <1>3, PieceType
<1> HIDE DEF m
<1>8. CASE Ends("done") /\ (Reached(fetch.limit, fetch.count) \/ Exhausted)
  <2>1. Exhausted => DueOf(m, fetch) \in SUBSET Gone(m, fetch)
    <3> SUFFICES ASSUME Exhausted PROVE DueOf(m, fetch) \in SUBSET Gone(m, fetch)
      OBVIOUS
    <3>1. fetch.at > Len(m[1].records)
      BY <1>4 DEF Exhausted, Piece, m
    <3>2. ASSUME NEW p \in All(m, fetch)
          PROVE  p[1] < fetch.file \/ (p[1] = fetch.file /\ p[2] < fetch.at)
      <4>1. p = <<p[1], p[2]>> /\ p[1] \in Nat /\ p[2] \in Nat
        BY <1>2, AllIs
      <4>2. p[1] \in fetch.start + 1 .. Len(m) /\ p[2] \in 1 .. Len(m[p[1]].records)
        BY <1>2, <4>1, UsableIs DEF All
      <4>3. p[1] = 1
        BY <1>3, <1>4, <4>1, <4>2
      <4>4. p[2] <= Len(m[1].records)
        BY <1>7, <4>1, <4>2, <4>3
      <4> QED
        BY <1>2, <1>4, <1>7, <3>1, <4>1, <4>3, <4>4
    <3> QED
      BY <1>2, <3>2, NothingLeft
  <2>2. Reached(fetch.limit, fetch.count) => DueOf(m, fetch) \in SUBSET Gone(m, fetch)
    BY <1>2, <1>5, <1>6, LimitReached
  <2>3. Delivers(source.kind, source.has, ResultOf("done"))
    BY <1>1, <1>8, <2>1, <2>2, EndDelivers DEF m
  <2> QED
    BY <1>8, <2>3 DEF Goes
<1>9. CASE ~ Reached(fetch.limit, fetch.count) /\ ~ Exhausted /\ GivesNext
  <2> DEFINE id == IdOf(m[1], fetch.at)
  <2>1. fetch.at \in 1 .. Len(m[1].records) /\ fetch.at + 1 \in Nat
    BY <1>2, <1>4, <1>7, <1>9 DEF Exhausted, Piece, m
  <2>2. Gives(id, fetch.file, fetch.at + 1)
    BY <1>4, <1>9 DEF GivesNext, Piece, m
  <2>3. id \in Nat \cup {None}
    <3>1. 1 \in 1 .. Len(m)
      BY <1>3
    <3> QED
      BY <1>2, <2>1, <3>1, PieceType
  <2> HIDE DEF id
  <2>4. /\ given' = IF id = None THEN given ELSE Append(given, id)
        /\ fetch' \in Fetch /\ fetches' = fetches
        /\ fetch'.on = fetch.on /\ fetch'.limit = fetch.limit /\ fetch'.start = fetch.start
        /\ fetch'.file = fetch.file /\ fetch'.at = fetch.at + 1
        /\ fetch'.count = IF id = None THEN fetch.count ELSE fetch.count + 1
    BY <1>1, <1>2, <2>1, <2>2, <2>3, GivesDoes
  <2>5. \A p \in All(m, fetch) : p \in Behind(m, fetch') <=>
                                   p \in Behind(m, fetch) \/ p = <<fetch.file, fetch.at>>
    BY <1>2, <2>4, BehindNext
  <2>6. \A p \in All(m, fetch) : <<p, <<fetch.file, fetch.at>>>> \in Earlier => p \in Behind(m, fetch)
    BY <1>2, AllIs, GoneIs DEF Earlier
  <2>7. /\ fetch.file \in fetch.start + 1 .. Len(m) /\ m[fetch.file].type = "rows"
        /\ \A j \in fetch.start + 1 .. fetch.file : m[j].type # "broken"
    BY <1>2, <1>3, <1>4, <1>6
  <2>8. id = IdOf(m[fetch.file], fetch.at) /\ fetch.at \in 1 .. Len(m[fetch.file].records)
    BY <1>4, <2>1 DEF id
  <2>9. given' = IdsAt(m, Gone(m, fetch')) /\ ListHand(m, fetch')
    <3>1. /\ fetch.at <= fetch.at /\ m[fetch.file].type \notin {"csv", "avro"}
          /\ m[fetch.file].type = "latest" => fetch.at = Len(m[fetch.file].records)
      BY <1>2, <2>7
    <3>2. NextPlace(m, fetch, fetch', fetch.at)
      BY <2>4, <2>5, <2>6, <2>7, <2>8, <3>1 DEF NextPlace
    <3>3. IdsGrow(m, fetch, fetch', id) /\ ListHand(m, fetch')
      BY <1>2, <1>5, <1>9, <2>4, <2>8, <3>1, <3>2, GivesCounted
    <3> QED
      BY <1>5, <2>4, <3>3 DEF IdsGrow
  <2>10. fetch'.start < fetch'.file
    BY <1>4, <2>4
  <2> QED
    BY <1>1, <2>4, <2>9, <2>10 DEF Goes, Hand, m
<1> QED
  BY <1>8, <1>9 DEF FetchListed

(* A place can be given only where there is a record.                      *)
LEMMA PlaceIs ==
  ASSUME NEW m \in Seq(Pieces), NEW f \in Fetch, NEW p \in All(m, f)
  PROVE  /\ p = <<p[1], p[2]>> /\ p[1] \in Nat /\ p[2] \in Nat /\ Len(m) \in Nat
         /\ p[1] > f.start /\ p[1] >= 1 /\ p[1] <= Len(m) /\ p[2] >= 1
         /\ p[2] <= Len(m[p[1]].records) /\ Len(m[p[1]].records) \in Nat
         /\ IdOf(m[p[1]], p[2]) # None
         /\ m[p[1]].type = "latest" => p[2] = Len(m[p[1]].records)
         /\ \A h \in f.start + 1 .. p[1] : m[h].type # "broken"
<1>1. p = <<p[1], p[2]>> /\ p[1] \in Nat /\ p[2] \in Nat /\ f.start \in Nat /\ Len(m) \in Nat
  BY AllIs, LenProperties
<1>2. /\ p[1] \in f.start + 1 .. Len(m) /\ p[2] \in 1 .. Len(m[p[1]].records)
      /\ IdOf(m[p[1]], p[2]) # None
      /\ m[p[1]].type = "latest" => p[2] = Len(m[p[1]].records)
      /\ \A h \in f.start + 1 .. p[1] : m[h].type # "broken"
  BY <1>1, UsableIs DEF All
<1>3. p[1] \in 1 .. Len(m)
  BY <1>1, <1>2
<1>4. Len(m[p[1]].records) \in Nat
  BY <1>3, PieceType
<1> QED
  BY <1>1, <1>2, <1>3, <1>4

LEMMA WantedIs ==
  ASSUME NEW m \in Seq(Pieces), NEW f \in Fetch, NEW p \in All(m, f)
  PROVE  p \in DueOf(m, f) <=>
           \/ f.limit = NoLimit
           \/ m[p[1]].type = "csv" /\ p[2] <= f.limit
           \/ m[p[1]].type = "avro"
              /\ Cardinality({q \in All(m, f) : q[1] = p[1] /\ q[2] < p[2]}) < f.limit
           \/ m[p[1]].type \notin {"csv", "avro"} /\ Rank(All(m, f), Earlier, p) < f.limit
<1> DEFINE U == Usable(m, f.start)
           D == Got(m, f.start, f.limit)
<1>1. f.start \in Nat /\ U = All(m, f) /\ D = DueOf(m, f)
  BY AllIs DEF All, DueOf
<1>2. \A x \in U : x \in D <=>
           \/ f.limit = NoLimit
           \/ m[x[1]].type = "csv" /\ x[2] <= f.limit
           \/ m[x[1]].type = "avro"
              /\ Cardinality({q \in U : q[1] = x[1] /\ q[2] < x[2]}) < f.limit
           \/ m[x[1]].type \notin {"csv", "avro"} /\ Rank(U, Earlier, x) < f.limit
  BY <1>1, DueIs
<1> HIDE DEF U, D
<1> QED
  BY <1>1, <1>2

(* Of a folder, the facts that all the steps use.                          *)
LEMMA FolderFacts ==
  ASSUME SourceTypes, fetch.on, source.kind = "file",
         Hand(source.kind, source.has, given, fetch)
  PROVE  /\ fetch \in Fetch /\ fetch.file \in Nat /\ fetch.at \in Nat /\ fetch.start = 0
         /\ fetch.at >= 1 /\ fetch.file >= 1 /\ fetch.count \in Nat
         /\ fetch.limit \in Nat \cup {NoLimit}
         /\ source.has \in Seq(Pieces) /\ Len(source.has) \in Nat
         /\ given \in Seq(Nat) /\ given = IdsAt(source.has, Gone(source.has, fetch))
         /\ FileHand(source.has, fetch)
<1>1. given \in Seq(Nat)
  BY DEF SourceTypes
<1>2. given = IdsAt(source.has, Gone(source.has, fetch)) /\ FileHand(source.has, fetch)
  BY DEF Hand
<1>3. fetch.start = 0 /\ fetch.at >= 1
  BY SourceFacts DEF HandFacts
<1> QED
  BY <1>1, <1>2, <1>3, SourceFacts

LEMMA FileNext ==
  ASSUME SourceTypes, fetch.on, source.kind = "file",
         Hand(source.kind, source.has, given, fetch), NextFile,
         fetch.file <= Len(source.has), source.has[fetch.file].type # "broken",
         \A p \in DueOf(source.has, fetch) : ~ (p[1] = fetch.file /\ p[2] >= fetch.at)
  PROVE  Goes
<1> DEFINE m == source.has
<1>1. /\ fetch \in Fetch /\ fetch.file \in Nat /\ fetch.at \in Nat /\ fetch.start = 0
      /\ fetch.at >= 1 /\ fetch.file >= 1
      /\ m \in Seq(Pieces) /\ Len(m) \in Nat
      /\ given = IdsAt(m, Gone(m, fetch)) /\ FileHand(m, fetch)
  BY FolderFacts
<1>2. fetch.file <= Len(m) /\ m[fetch.file].type # "broken"
      /\ \A p \in DueOf(m, fetch) : ~ (p[1] = fetch.file /\ p[2] >= fetch.at)
  OBVIOUS
<1> HIDE DEF m
<1>3. fetch.file + 1 \in Nat /\ 1 \in Nat /\ 0 \in Nat
  BY <1>1
<1>4. /\ given' = given /\ fetches' = fetches
      /\ fetch' \in Fetch
      /\ fetch'.on = fetch.on /\ fetch'.limit = fetch.limit /\ fetch'.start = fetch.start
      /\ fetch'.file = fetch.file + 1 /\ fetch'.at = 1 /\ fetch'.count = 0
  BY <1>1, <1>3, MovesToDoes DEF NextFile
<1>5. \A p \in All(m, fetch) : p \in Behind(m, fetch') <=>
            p \in Behind(m, fetch) \/ (p[1] = fetch.file /\ p[2] >= fetch.at)
  BY <1>1, <1>4, BehindPiece
<1>6. Gone(m, fetch') = Gone(m, fetch)
  <2>1. DueOf(m, fetch) \in SUBSET All(m, fetch)
    BY <1>1, AllIs
  <2>2. \A p \in DueOf(m, fetch) : p \in Behind(m, fetch') <=> p \in Behind(m, fetch)
    BY <1>2, <1>5, <2>1
  <2> QED
    BY <1>1, <1>4, <2>2, NoneMore
<1>7. FileHand(m, fetch')
  <2>1. fetch'.file <= Len(m) + 1
    BY <1>1, <1>2, <1>4
  <2>2. ASSUME NEW h \in 1 .. fetch'.file - 1 PROVE m[h].type # "broken"
    <3>1. h \in 1 .. fetch.file - 1 \/ h = fetch.file
      BY <1>1, <1>4
    <3> QED
      BY <1>1, <1>2, <3>1 DEF FileHand
  <2>3. {q \in All(m, fetch') : q[1] = fetch'.file /\ q[2] < fetch'.at} = {}
    <3> SUFFICES ASSUME NEW q \in All(m, fetch'), q[2] < fetch'.at PROVE FALSE
      OBVIOUS
    <3>1. q[2] \in Nat /\ q[2] >= 1
      BY <1>1, <1>4, PlaceIs
    <3> QED
      BY <1>4, <3>1
  <2> HIDE DEF All
  <2>4. fetch'.count = Cardinality({q \in All(m, fetch') : q[1] = fetch'.file /\ q[2] < fetch'.at})
    BY <1>4, <2>3, FS_EmptySet
  <2> QED
    BY <2>1, <2>2, <2>4 DEF FileHand
<1>8. fetch'.start < fetch'.file /\ fetch'.on = TRUE
  BY <1>1, <1>4 DEF Fetch
<1> QED
  BY <1>1, <1>4, <1>6, <1>7, <1>8 DEF Goes, Hand, m

LEMMA FileGives ==
  ASSUME SourceTypes, fetch.on, source.kind = "file",
         Hand(source.kind, source.has, given, fetch), GivesNext, ~ Exhausted,
         fetch.file <= Len(source.has), source.has[fetch.file].type \in {"avro", "csv"},
         <<fetch.file, fetch.at>> \in All(source.has, fetch) =>
            <<fetch.file, fetch.at>> \in DueOf(source.has, fetch)
  PROVE  Goes
<1> DEFINE m == source.has
           c == <<fetch.file, fetch.at>>
           id == IdOf(m[fetch.file], fetch.at)
<1>1. /\ fetch \in Fetch /\ fetch.file \in Nat /\ fetch.at \in Nat /\ fetch.start = 0
      /\ fetch.at >= 1 /\ fetch.file >= 1
      /\ m \in Seq(Pieces) /\ Len(m) \in Nat
      /\ given = IdsAt(m, Gone(m, fetch)) /\ FileHand(m, fetch) /\ given \in Seq(Nat)
  BY FolderFacts
<1>2. /\ fetch.file <= Len(m) /\ m[fetch.file].type \in {"avro", "csv"}
      /\ c \in All(m, fetch) => c \in DueOf(m, fetch)
  OBVIOUS
<1>3. fetch.file \in 1 .. Len(m) /\ fetch.file \in fetch.start + 1 .. Len(m)
  BY <1>1, <1>2
<1>4. Len(m[fetch.file].records) \in Nat
  BY <1>1, <1>3, PieceType
<1>5. fetch.at \in 1 .. Len(m[fetch.file].records) /\ fetch.at + 1 \in Nat
  BY <1>1, <1>4 DEF Exhausted, Piece
<1>6. Gives(id, fetch.file, fetch.at + 1)
  BY DEF GivesNext, Piece
<1>7. id \in Nat \cup {None}
  BY <1>1, <1>3, <1>5, PieceType
<1> HIDE DEF m, id, c
<1>8. /\ given' = IF id = None THEN given ELSE Append(given, id)
      /\ fetch' \in Fetch /\ fetches' = fetches
      /\ fetch'.on = fetch.on /\ fetch'.limit = fetch.limit /\ fetch'.start = fetch.start
      /\ fetch'.file = fetch.file /\ fetch'.at = fetch.at + 1
      /\ fetch'.count = IF id = None THEN fetch.count ELSE fetch.count + 1
  BY <1>1, <1>5, <1>6, <1>7, GivesDoes
<1>9. \A j \in fetch.start + 1 .. fetch.file : m[j].type # "broken"
  <2> TAKE j \in fetch.start + 1 .. fetch.file
  <2>1. j \in 1 .. fetch.file - 1 \/ j = fetch.file
    BY <1>1
  <2> QED
    BY <1>1, <1>2, <2>1 DEF FileHand
<1>10. NextPlace(m, fetch, fetch', fetch.at)
  <2>1. \A p \in All(m, fetch) : p \in Behind(m, fetch') <=>
                                   p \in Behind(m, fetch) \/ p = <<fetch.file, fetch.at>>
    BY <1>1, <1>8, BehindNext
  <2>2. \A p \in All(m, fetch) : <<p, <<fetch.file, fetch.at>>>> \in Earlier => p \in Behind(m, fetch)
    BY <1>1, AllIs, GoneIs DEF Earlier
  <2>3. fetch.at <= fetch.at /\ m[fetch.file].type # "latest"
    BY <1>1, <1>2
  <2> QED
    BY <1>3, <1>5, <1>8, <1>9, <2>1, <2>2, <2>3 DEF NextPlace
<1>11. IdsGrow(m, fetch, fetch', id) /\ (c \in All(m, fetch) <=> id # None)
  BY <1>1, <1>2, <1>5, <1>8, <1>10, OneMore DEF id, c
<1>12. given' = IdsAt(m, Gone(m, fetch'))
  BY <1>1, <1>8, <1>11 DEF IdsGrow
<1>13. ASSUME m[fetch.file].type = "avro"
       PROVE  fetch'.count = Cardinality({q \in All(m, fetch') : q[1] = fetch'.file /\ q[2] < fetch'.at})
  <2> DEFINE S == {q \in All(m, fetch) : q[1] = fetch.file /\ q[2] < fetch.at}
             T == {q \in All(m, fetch') : q[1] = fetch'.file /\ q[2] < fetch'.at}
  <2>1. fetch.count = Cardinality(S)
    BY <1>2, <1>13, <1>1 DEF FileHand
  <2>2. All(m, fetch') = All(m, fetch)
    BY <1>8 DEF All
  <2>3. \A q \in All(m, fetch) : q = c <=> q[1] = fetch.file /\ q[2] = fetch.at
    BY <1>1, AllIs DEF c
  <2>4. \A q \in All(m, fetch) : q[2] < fetch.at + 1 <=> q[2] < fetch.at \/ q[2] = fetch.at
    BY <1>1, AllIs
  <2>5. \A q \in All(m, fetch) : q \in T <=> q \in S \/ q = c
    BY <1>8, <2>2, <2>3, <2>4
  <2>6. c \notin S
    BY <1>1 DEF c
  <2>7. S \in SUBSET All(m, fetch) /\ T \in SUBSET All(m, fetch)
    BY <2>2
  <2>8. IsFiniteSet(S)
    <3>1. IsFiniteSet(All(m, fetch))
      BY <1>1, AllIs
    <3> HIDE DEF S
    <3> QED
      BY <2>7, <3>1, FS_Subset
  <2> HIDE DEF S, T
  <2>9. CASE id = None
    <3>1. T = S
      BY <1>11, <2>5, <2>7, <2>9
    <3> QED
      BY <1>8, <2>1, <2>9, <3>1 DEF T
  <2>10. CASE id # None
    <3>1. T = S \cup {c}
      BY <1>11, <2>5, <2>7, <2>10
    <3>2. Cardinality(S \cup {c}) = Cardinality(S) + 1
      BY <2>6, <2>8, FS_AddElement
    <3> QED
      BY <1>8, <2>1, <2>10, <3>1, <3>2 DEF T
  <2> QED
    BY <2>9, <2>10
<1>14. FileHand(m, fetch')
  BY <1>1, <1>8, <1>13 DEF FileHand
<1>15. fetch'.start < fetch'.file /\ fetch'.on = TRUE
  BY <1>1, <1>8 DEF Fetch
<1> QED
  BY <1>8, <1>12, <1>14, <1>15 DEF Goes, Hand, m

LEMMA FilesGo ==
  ASSUME SourceTypes, Hand(source.kind, source.has, given, fetch), FetchFiles
  PROVE  Goes
<1> DEFINE m == source.has
<1>1. fetch.on /\ source.kind = "file" /\ source' = source
  BY DEF FetchFiles
<1>2. /\ fetch \in Fetch /\ fetch.file \in Nat /\ fetch.at \in Nat /\ fetch.start = 0
      /\ fetch.at >= 1 /\ fetch.file >= 1 /\ fetch.count \in Nat
      /\ fetch.limit \in Nat \cup {NoLimit}
      /\ m \in Seq(Pieces) /\ Len(m) \in Nat /\ FileHand(m, fetch)
  BY <1>1, FolderFacts
<1>3. /\ DueOf(m, fetch) \in SUBSET All(m, fetch) /\ IsFiniteSet(All(m, fetch))
      /\ DueOf(m, fetch) = Got(m, 0, fetch.limit) /\ All(m, fetch) = Usable(m, 0)
  BY <1>2, AllIs DEF DueOf, All
<1>4. ASSUME NEW ended \in {"done", "raised"}, Ends(ended),
             DueOf(m, fetch) \in SUBSET Gone(m, fetch)
      PROVE  Goes
  <2>1. Delivers(source.kind, source.has, ResultOf(ended))
    BY <1>1, <1>4, EndDelivers
  <2> QED
    BY <1>4, <2>1 DEF Goes
<1>5. ASSUME NEW p \in DueOf(m, fetch)
      PROVE  \/ fetch.limit = NoLimit
             \/ m[p[1]].type = "csv" /\ p[2] <= fetch.limit
             \/ m[p[1]].type = "avro"
                /\ Cardinality({q \in All(m, fetch) : q[1] = p[1] /\ q[2] < p[2]}) < fetch.limit
             \/ m[p[1]].type \notin {"csv", "avro"} /\ Rank(All(m, fetch), Earlier, p) < fetch.limit
  BY <1>2, <1>3, WantedIs
<1>7. CASE fetch.limit = 0 /\ Ends("done")
  <2>1. DueOf(m, fetch) = {}
    <3> SUFFICES ASSUME NEW p \in DueOf(m, fetch) PROVE FALSE
      OBVIOUS
    <3>1. fetch.limit # NoLimit
      BY <1>7, SourcesAssumption
    <3>2. p[2] \in Nat /\ p[2] >= 1
      BY <1>2, <1>3, PlaceIs
    <3>3. Cardinality({q \in All(m, fetch) : q[1] = p[1] /\ q[2] < p[2]}) \in Nat
      <4> DEFINE S == {q \in All(m, fetch) : q[1] = p[1] /\ q[2] < p[2]}
      <4>1. S \in SUBSET All(m, fetch)
        OBVIOUS
      <4> HIDE DEF S
      <4>2. Cardinality(S) \in Nat
        BY <1>3, <4>1, FS_Subset, FS_CardinalityType
      <4> QED
        BY <4>2 DEF S
    <3>4. Rank(All(m, fetch), Earlier, p) \in Nat
      <4>1. Below(All(m, fetch), Earlier, p) \in SUBSET All(m, fetch)
        BY DEF Below
      <4> QED
        BY <1>3, <4>1, FS_Subset, FS_CardinalityType DEF Rank
    <3>5. ~ (Cardinality({q \in All(m, fetch) : q[1] = p[1] /\ q[2] < p[2]}) < fetch.limit)
      BY <1>7, <3>3
    <3>6. ~ (Rank(All(m, fetch), Earlier, p) < fetch.limit) /\ ~ (p[2] <= fetch.limit)
      BY <1>7, <3>2, <3>4
    <3> QED
      BY <1>5, <3>1, <3>5, <3>6
  <2> QED
    BY <1>4, <1>7, <2>1
<1>8. CASE fetch.file > Len(m) /\ Ends("done")
  <2>1. ASSUME NEW p \in All(m, fetch) PROVE p[1] < fetch.file
    <3>1. p[1] \in Nat /\ p[1] <= Len(m)
      BY <1>2, PlaceIs
    <3> QED
      BY <1>2, <1>8, <3>1
  <2>2. DueOf(m, fetch) \in SUBSET Gone(m, fetch)
    BY <1>2, <2>1, NothingLeft
  <2> QED
    BY <1>4, <1>8, <2>2
<1>9. CASE fetch.file <= Len(m) /\ m[fetch.file].type = "broken" /\ Ends("raised")
  <2>1. ASSUME NEW p \in All(m, fetch) PROVE p[1] < fetch.file
    <3>1. p[1] \in Nat /\ \A h \in fetch.start + 1 .. p[1] : m[h].type # "broken"
      BY <1>2, PlaceIs
    <3>2. fetch.file \notin fetch.start + 1 .. p[1]
      BY <1>9, <3>1
    <3> QED
      BY <1>2, <3>1, <3>2
  <2>2. DueOf(m, fetch) \in SUBSET Gone(m, fetch)
    BY <1>2, <2>1, NothingLeft
  <2> QED
    BY <1>4, <1>9, <2>2
<1>10. CASE fetch.file <= Len(m) /\ m[fetch.file].type = "unknown" /\ NextFile
  <2>1. ASSUME NEW p \in DueOf(m, fetch) PROVE p[1] # fetch.file
    <3>1. IdOf(m[p[1]], p[2]) # None
      BY <1>2, <1>3, PlaceIs
    <3> QED
      BY <1>10, <3>1 DEF IdOf
  <2> QED
    BY <1>1, <1>10, <2>1, FileNext
<1>11. ASSUME fetch.file <= Len(m), m[fetch.file].type \in {"avro", "csv"}, Exhausted, NextFile
       PROVE  Goes
  <2>1. ASSUME NEW p \in DueOf(m, fetch), p[1] = fetch.file, p[2] >= fetch.at PROVE FALSE
    <3>1. /\ p[2] \in Nat /\ p[2] <= Len(m[p[1]].records) /\ Len(m[p[1]].records) \in Nat
      BY <1>2, <1>3, PlaceIs
    <3>2. fetch.at > Len(m[fetch.file].records)
      BY <1>11 DEF Exhausted, Piece
    <3>3. Len(m[p[1]].records) = Len(m[fetch.file].records)
      BY <2>1
    <3> QED
      BY <1>2, <2>1, <3>1, <3>2, <3>3
  <2> QED
    BY <1>1, <1>11, <2>1, FileNext
<1>12. CASE fetch.file <= Len(m) /\ ReadCsv
  <2>1. m[fetch.file].type = "csv"
    BY <1>12 DEF ReadCsv, Piece
  <2>2. CASE Reached(fetch.limit, fetch.at - 1) /\ NextFile
    <3>1. ASSUME NEW p \in DueOf(m, fetch), p[1] = fetch.file PROVE p[2] < fetch.at
      <4>1. p[2] <= fetch.limit /\ fetch.limit \in Nat /\ fetch.at - 1 >= fetch.limit
        BY <1>2, <1>5, <2>1, <2>2, <3>1 DEF Reached
      <4>2. p[2] \in Nat
        BY <1>2, <1>3, PlaceIs
      <4> QED
        BY <1>2, <4>1, <4>2
    <3>2. ASSUME NEW p \in DueOf(m, fetch) PROVE ~ (p[1] = fetch.file /\ p[2] >= fetch.at)
      <4>2. p[2] \in Nat
        BY <1>2, <1>3, PlaceIs
      <4> QED
        BY <1>2, <3>1, <4>2
    <3> QED
      BY <1>1, <1>12, <2>1, <2>2, <3>2, FileNext
  <2>3. CASE ~ Reached(fetch.limit, fetch.at - 1) /\ ~ Exhausted /\ GivesNext
    <3>1. <<fetch.file, fetch.at>> \in All(m, fetch) => <<fetch.file, fetch.at>> \in DueOf(m, fetch)
      <4>1. fetch.limit = NoLimit \/ fetch.at <= fetch.limit
        BY <1>2, <2>3 DEF Reached
      <4> QED
        BY <1>2, <2>1, <4>1, WantedIs
    <3> QED
      BY <1>1, <1>12, <2>1, <2>3, <3>1, FileGives
  <2> QED
    BY <1>11, <1>12, <2>1, <2>2, <2>3 DEF ReadCsv
<1>13. CASE fetch.file <= Len(m) /\ ReadAvro
  <2> DEFINE S == {q \in All(m, fetch) : q[1] = fetch.file /\ q[2] < fetch.at}
  <2>1. m[fetch.file].type = "avro"
    BY <1>13 DEF ReadAvro, Piece
  <2>2. fetch.count = Cardinality(S)
    BY <1>2, <1>13, <2>1 DEF FileHand
  <2>3. CASE Reached(fetch.limit, fetch.count) /\ NextFile
    <3>1. ASSUME NEW p \in DueOf(m, fetch), p[1] = fetch.file, p[2] >= fetch.at PROVE FALSE
      <4> DEFINE T == {q \in All(m, fetch) : q[1] = p[1] /\ q[2] < p[2]}
      <4>1. Cardinality(T) < fetch.limit /\ fetch.limit \in Nat /\ fetch.count >= fetch.limit
        BY <1>2, <1>5, <2>1, <2>3, <3>1 DEF Reached
      <4>2. p[2] \in Nat /\ \A q \in All(m, fetch) : q[2] \in Nat
        BY <1>2, <1>3, AllIs
      <4>3. S \in SUBSET T /\ T \in SUBSET All(m, fetch)
        BY <1>2, <3>1, <4>2
      <4> HIDE DEF S, T
      <4>4. IsFiniteSet(T)
        BY <1>3, <4>3, FS_Subset
      <4>5. Cardinality(S) <= Cardinality(T) /\ Cardinality(S) \in Nat /\ Cardinality(T) \in Nat
        BY <4>3, <4>4, FS_Subset, FS_CardinalityType
      <4> QED
        BY <2>2, <4>1, <4>5
    <3>2. ASSUME NEW p \in DueOf(m, fetch) PROVE ~ (p[1] = fetch.file /\ p[2] >= fetch.at)
      BY <3>1
    <3> QED
      BY <1>1, <1>13, <2>1, <2>3, <3>2, FileNext
  <2>4. CASE ~ Reached(fetch.limit, fetch.count) /\ ~ Exhausted /\ GivesNext
    <3>1. <<fetch.file, fetch.at>> \in All(m, fetch) => <<fetch.file, fetch.at>> \in DueOf(m, fetch)
      <4>1. fetch.limit = NoLimit \/ Cardinality(S) < fetch.limit
        BY <1>2, <2>2, <2>4 DEF Reached
      <4> QED
        BY <1>2, <2>1, <4>1, WantedIs
    <3> QED
      BY <1>1, <1>13, <2>1, <2>4, <3>1, FileGives
  <2> QED
    BY <1>11, <1>13, <2>1, <2>3, <2>4 DEF ReadAvro
<1> QED
  BY <1>7, <1>8, <1>9, <1>10, <1>12, <1>13 DEF FetchFiles, Piece

(* Of a stream, the facts that all the steps use.                          *)
LEMMA StreamFacts ==
  ASSUME SourceTypes, fetch.on, source.kind \in {"antares", "history"},
         Hand(source.kind, source.has, given, fetch)
  PROVE  /\ fetch \in Fetch /\ fetch.file \in Nat /\ fetch.at \in Nat /\ fetch.start \in Nat
         /\ fetch.count \in Nat /\ fetch.start < fetch.file /\ fetch.file >= 1
         /\ source.has \in Seq(Pieces) /\ Len(source.has) \in Nat
         /\ given \in Seq(Nat) /\ given = IdsAt(source.has, Gone(source.has, fetch))
         /\ ListHand(source.has, fetch) /\ StreamHand(source.kind, source.has, fetch)
         /\ source.taken \in Nat /\ source.taken <= Len(source.has)
         /\ source.taken = IF fetch.at = 0 THEN fetch.file - 1 ELSE fetch.file
         /\ \A i \in 1 .. Len(source.has) :
               source.has[i].type = IF source.kind = "antares" THEN "latest" ELSE "alerts"
         /\ DueOf(source.has, fetch) \in SUBSET All(source.has, fetch)
<1>1. given \in Seq(Nat) /\ source.open
  BY DEF SourceTypes
<1>2. /\ given = IdsAt(source.has, Gone(source.has, fetch)) /\ ListHand(source.has, fetch)
      /\ StreamHand(source.kind, source.has, fetch) /\ fetch.start < fetch.file
  BY DEF Hand
<1>3. /\ source.taken <= Len(source.has)
      /\ source.taken = IF fetch.at = 0 THEN fetch.file - 1 ELSE fetch.file
  BY SourceFacts DEF HandFacts
<1>4. \A i \in 1 .. Len(source.has) :
         source.has[i].type = IF source.kind = "antares" THEN "latest" ELSE "alerts"
  BY <1>1, PiecesOf
<1>5. fetch \in Fetch /\ source.has \in Seq(Pieces)
  BY SourceFacts
<1>6. DueOf(source.has, fetch) \in SUBSET All(source.has, fetch)
  BY <1>5, AllIs
<1> QED
  BY <1>1, <1>2, <1>3, <1>4, <1>6, SourceFacts

(* What is wanted of the loci before the one in hand is gone.              *)
LEMMA BeforeIsGone ==
  ASSUME NEW m \in Seq(Pieces), NEW f \in Fetch, NEW n \in Int, n < f.file,
         \A p \in All(m, f) : p[1] <= n => p \in DueOf(m, f)
  PROVE  \A p \in All(m, f) : p[1] <= n => p \in Gone(m, f)
<1> SUFFICES ASSUME NEW p \in All(m, f), p[1] <= n PROVE p \in Gone(m, f)
  OBVIOUS
<1>1. p[1] \in Nat /\ f.file \in Nat
  BY AllIs
<1>2. p[1] < f.file
  BY <1>1
<1>3. p \in Behind(m, f)
  BY <1>2, GoneIs
<1> QED
  BY <1>3, GoneIs

LEMMA TakeGoes ==
  ASSUME SourceTypes, Hand(source.kind, source.has, given, fetch), TakeLocus
  PROVE  Goes
<1> DEFINE m == source.has
<1>1. /\ fetch.on /\ source.kind \in {"antares", "history"} /\ fetch.at = 0
      /\ source.taken < Len(m) /\ source' = [source EXCEPT !.taken = @ + 1]
  BY DEF TakeLocus, Live
<1>2. /\ fetch \in Fetch /\ fetch.file \in Nat /\ fetch.at \in Nat /\ fetch.start \in Nat
      /\ fetch.count \in Nat /\ fetch.start < fetch.file /\ fetch.file >= 1
      /\ m \in Seq(Pieces) /\ Len(m) \in Nat
      /\ given \in Seq(Nat) /\ given = IdsAt(m, Gone(m, fetch))
      /\ ListHand(m, fetch) /\ StreamHand(source.kind, m, fetch)
      /\ source.taken = fetch.file - 1
      /\ DueOf(m, fetch) \in SUBSET All(m, fetch)
  BY <1>1, StreamFacts
<1>3. \A i \in 1 .. Len(m) : m[i].type \notin {"csv", "avro"}
  BY <1>1, StreamFacts
<1>4. source'.taken = fetch.file
  <2>1. source'.taken = source.taken + 1
    BY <1>1, SourceTaken
  <2> QED
    BY <1>2, <2>1
<1> HIDE DEF m
<1>5. CASE Reached(fetch.limit, fetch.count) /\ Ends("done")
  <2> DEFINE n == fetch.file - (IF source.kind = "history" THEN 2 ELSE 1)
  <2>1. DueOf(m, fetch) \in SUBSET Gone(m, fetch)
    BY <1>2, <1>3, <1>5, LimitReached
  <2>2. n \in Int /\ n < fetch.file /\ n = source'.taken - Lossy(source.kind, "done")
    BY <1>1, <1>2, <1>4 DEF Lossy
  <2>3. \A p \in All(m, fetch) : p[1] <= n => p \in DueOf(m, fetch)
    BY <1>1, <1>2 DEF StreamHand
  <2> HIDE DEF n
  <2>4. \A p \in All(m, fetch) : p[1] <= n => p \in Gone(m, fetch)
    BY <1>2, <2>2, <2>3, BeforeIsGone
  <2>5. Delivers(source.kind, source.has, ResultOf("done"))
    BY <1>1, <2>1, <2>2, <2>4, EndDelivers DEF m
  <2> QED
    BY <1>5, <2>5 DEF Goes
<1>6. CASE ~ Reached(fetch.limit, fetch.count) /\ MovesTo(fetch.file, 1, fetch.count)
  <2>1. /\ given' = given /\ fetches' = fetches
        /\ fetch' \in Fetch
        /\ fetch'.on = fetch.on /\ fetch'.limit = fetch.limit /\ fetch'.start = fetch.start
        /\ fetch'.file = fetch.file /\ fetch'.at = 1 /\ fetch'.paused = FALSE
        /\ fetch'.count = fetch.count
    BY <1>2, <1>6, MovesToDoes
  <2>2. All(m, fetch') = All(m, fetch) /\ DueOf(m, fetch') = DueOf(m, fetch)
    BY <2>1 DEF All, DueOf
  <2>3. ASSUME NEW p \in All(m, fetch) PROVE p \in Behind(m, fetch') <=> p \in Behind(m, fetch)
    <3>1. p[1] \in Nat /\ p[2] \in Nat /\ p[2] >= 1
      BY <1>2, PlaceIs
    <3>2. p \in Behind(m, fetch) <=> p[1] < fetch.file \/ (p[1] = fetch.file /\ p[2] < fetch.at)
      BY <1>2, GoneIs
    <3>3. p \in Behind(m, fetch') <=> p[1] < fetch'.file \/ (p[1] = fetch'.file /\ p[2] < fetch'.at)
      BY <1>2, <2>1, <2>2, GoneIs
    <3> QED
      BY <1>1, <1>2, <2>1, <3>1, <3>2, <3>3
  <2>4. Gone(m, fetch') = Gone(m, fetch)
    BY <1>2, <2>1, <2>3, NoneMore
  <2>5. Behind(m, fetch') = Behind(m, fetch)
    BY <1>2, <2>1, <2>2, <2>3, GoneIs
  <2>6. ListHand(m, fetch')
    BY <1>2, <2>1, <2>2, <2>4, <2>5 DEF ListHand
  <2>7. StreamHand(source.kind, m, fetch')
    <3>1. ASSUME NEW p \in All(m, fetch), p[1] <= fetch.file - 1 PROVE p \in DueOf(m, fetch)
      <4>1. p[1] \in Nat /\ p[1] < fetch.file
        BY <1>2, <3>1, AllIs
      <4>2. p \in Behind(m, fetch)
        BY <1>2, <4>1, GoneIs
      <4> QED
        BY <1>2, <1>6, <4>2 DEF ListHand
    <3>2. fetch'.at = 1 /\ fetch'.file = fetch.file /\ ~ Reached(fetch'.limit, fetch'.count)
          /\ ~ fetch'.paused
      BY <1>6, <2>1
    <3>3. \A p \in All(m, fetch') :
             p[1] <= fetch'.file - (IF source.kind = "history" /\ fetch'.at = 0 THEN 2 ELSE 1)
               => p \in DueOf(m, fetch')
      BY <2>2, <3>1, <3>2
    <3> QED
      BY <3>2, <3>3 DEF StreamHand
  <2> QED
    BY <1>1, <1>2, <2>1, <2>4, <2>6, <2>7 DEF Goes, Hand, m
<1> QED
  BY <1>5, <1>6 DEF TakeLocus

LEMMA LatestGoes ==
  ASSUME SourceTypes, Hand(source.kind, source.has, given, fetch), FetchLatest
  PROVE  Goes
<1> DEFINE m == source.has
           n == Len(m[fetch.file].records)
           id == IF n = 0 THEN None ELSE IdOf(m[fetch.file], n)
<1>1. /\ fetch.on /\ source.kind = "antares" /\ fetch.at > 0 /\ source' = source
      /\ Gives(id, fetch.file + 1, 0)
  BY DEF FetchLatest, Piece
<1>2. /\ fetch \in Fetch /\ fetch.file \in Nat /\ fetch.at \in Nat /\ fetch.start \in Nat
      /\ fetch.count \in Nat /\ fetch.start < fetch.file /\ fetch.file >= 1
      /\ m \in Seq(Pieces) /\ Len(m) \in Nat
      /\ given \in Seq(Nat) /\ given = IdsAt(m, Gone(m, fetch))
      /\ ListHand(m, fetch) /\ StreamHand(source.kind, m, fetch)
      /\ fetch.file <= Len(m)
      /\ DueOf(m, fetch) \in SUBSET All(m, fetch)
  BY <1>1, StreamFacts
<1>3. \A i \in 1 .. Len(m) : m[i].type = "latest"
  BY <1>1, StreamFacts
<1>4. fetch.at = 1 /\ ~ Reached(fetch.limit, fetch.count)
  BY <1>1, <1>2 DEF StreamHand
<1>5. Behind(m, fetch) \in SUBSET DueOf(m, fetch)
  BY <1>2, <1>4 DEF ListHand
<1>6. fetch.file \in 1 .. Len(m) /\ fetch.file \in fetch.start + 1 .. Len(m)
  BY <1>2
<1>7. n \in Nat /\ \A k \in 1 .. n : IdOf(m[fetch.file], k) \in Nat \cup {None}
  BY <1>2, <1>6, PieceType
<1>8. id \in Nat \cup {None}
  <2>1. n # 0 => n \in 1 .. n
    BY <1>7
  <2> QED
    BY <1>7, <2>1
<1> HIDE DEF m, n, id
<1>9. fetch.file + 1 \in Nat /\ 0 \in Nat
  BY <1>2
<1>10. /\ given' = IF id = None THEN given ELSE Append(given, id)
       /\ fetch' \in Fetch /\ fetches' = fetches
       /\ fetch'.on = fetch.on /\ fetch'.limit = fetch.limit /\ fetch'.start = fetch.start
       /\ fetch'.file = fetch.file + 1 /\ fetch'.at = 0
       /\ fetch'.count = IF id = None THEN fetch.count ELSE fetch.count + 1
  BY <1>1, <1>2, <1>8, <1>9, GivesDoes
<1>11. All(m, fetch') = All(m, fetch) /\ DueOf(m, fetch') = DueOf(m, fetch)
  BY <1>10 DEF All, DueOf
<1>12. \A p \in All(m, fetch) : p \in Behind(m, fetch') <=>
             p \in Behind(m, fetch) \/ (p[1] = fetch.file /\ p[2] >= fetch.at)
  BY <1>2, <1>10, BehindPiece
<1>13. ASSUME NEW p \in All(m, fetch), p[1] = fetch.file
       PROVE  p[2] = n /\ n >= 1 /\ p = <<fetch.file, n>>
  <2>1. /\ p = <<p[1], p[2]>> /\ p[2] \in Nat /\ p[2] >= 1
        /\ m[p[1]].type = "latest" => p[2] = Len(m[p[1]].records)
    BY <1>2, PlaceIs
  <2>2. p[2] = n
    BY <1>3, <1>6, <1>13, <2>1 DEF n
  <2> QED
    BY <1>13, <2>1, <2>2
<1>14. /\ given' = IdsAt(m, Gone(m, fetch')) /\ ListHand(m, fetch')
       /\ Behind(m, fetch') \in SUBSET DueOf(m, fetch)
  <2>1. CASE n = 0
    <3>1. id = None
      BY <2>1 DEF id
    <3>2. \A p \in All(m, fetch) : p[1] # fetch.file
      BY <1>7, <1>13, <2>1
    <3>3. \A p \in All(m, fetch) : p \in Behind(m, fetch') <=> p \in Behind(m, fetch)
      BY <1>12, <3>2
    <3>4. Gone(m, fetch') = Gone(m, fetch)
      BY <1>2, <1>10, <3>3, NoneMore
    <3>5. Behind(m, fetch') = Behind(m, fetch)
      BY <1>2, <1>10, <1>11, <3>3, GoneIs
    <3>6. ListHand(m, fetch')
      BY <1>2, <1>10, <1>11, <3>1, <3>4, <3>5 DEF ListHand
    <3> QED
      BY <1>2, <1>5, <1>10, <3>1, <3>4, <3>5, <3>6
  <2>2. CASE n # 0
    <3>1. id = IdOf(m[fetch.file], n) /\ n \in 1 .. n /\ n \in Nat /\ fetch.at <= n
      BY <1>4, <1>7, <2>2 DEF id
    <3>2. \A p \in All(m, fetch) : p \in Behind(m, fetch') <=>
             p \in Behind(m, fetch) \/ p = <<fetch.file, n>>
      <4> TAKE p \in All(m, fetch)
      <4>1. p[1] = fetch.file => p = <<fetch.file, n>> /\ p[2] >= fetch.at
        BY <1>7, <1>13, <3>1
      <4>2. p = <<fetch.file, n>> => p[1] = fetch.file
        OBVIOUS
      <4> QED
        BY <1>12, <4>1, <4>2
    <3>3. \A p \in All(m, fetch) : <<p, <<fetch.file, n>>>> \in Earlier => p \in Behind(m, fetch)
      <4> SUFFICES ASSUME NEW p \in All(m, fetch), <<p, <<fetch.file, n>>>> \in Earlier
                   PROVE  p \in Behind(m, fetch)
        OBVIOUS
      <4>1. p[1] \in Nat /\ p[2] \in Nat /\ p \in Nat \X Nat
        BY <1>2, AllIs
      <4>2. p[1] < fetch.file \/ (p[1] = fetch.file /\ p[2] < n)
        BY <4>1 DEF Earlier
      <4>3. p[1] # fetch.file \/ p[2] = n
        BY <1>13
      <4>4. p[1] < fetch.file
        BY <1>7, <4>1, <4>2, <4>3
      <4> QED
        BY <1>2, <4>4, GoneIs
    <3>4. /\ \A j \in fetch.start + 1 .. fetch.file : m[j].type # "broken"
          /\ m[fetch.file].type \notin {"csv", "avro"} /\ n = Len(m[fetch.file].records)
      <4>1. \A j \in fetch.start + 1 .. fetch.file : j \in 1 .. Len(m)
        BY <1>2
      <4> QED
        BY <1>3, <1>6, <4>1 DEF n
    <3>5. NextPlace(m, fetch, fetch', n)
      BY <1>6, <1>10, <3>1, <3>2, <3>3, <3>4 DEF NextPlace
    <3>6. /\ IdsGrow(m, fetch, fetch', id) /\ ListHand(m, fetch')
          /\ <<fetch.file, n>> \in All(m, fetch) => <<fetch.file, n>> \in DueOf(m, fetch)
      BY <1>2, <1>4, <1>10, <3>1, <3>4, <3>5, GivesCounted
    <3>7. given' = IdsAt(m, Gone(m, fetch'))
      BY <1>2, <1>10, <3>6 DEF IdsGrow
    <3>8. Behind(m, fetch') \in SUBSET All(m, fetch)
      BY <1>2, <1>10, <1>11, GoneIs
    <3>9. Behind(m, fetch') \in SUBSET DueOf(m, fetch)
      BY <1>5, <3>2, <3>6, <3>8
    <3> QED
      BY <3>6, <3>7, <3>9
  <2> QED
    BY <2>1, <2>2
<1>15. StreamHand(source.kind, m, fetch')
  <2>1. ASSUME NEW p \in All(m, fetch), p[1] <= fetch.file PROVE p \in DueOf(m, fetch)
    <3>1. p[1] \in Nat /\ p[1] < fetch'.file
      BY <1>2, <1>10, <2>1, AllIs
    <3>2. p \in Behind(m, fetch')
      BY <1>2, <1>10, <1>11, <3>1, GoneIs
    <3> QED
      BY <1>14, <3>2
  <2>2. fetch'.file - 1 = fetch.file /\ fetch'.at = 0 /\ source.kind = "antares"
    BY <1>1, <1>2, <1>10
  <2>3. \A p \in All(m, fetch') :
           p[1] <= fetch'.file - (IF source.kind = "history" /\ fetch'.at = 0 THEN 2 ELSE 1)
             => p \in DueOf(m, fetch')
    BY <1>11, <2>1, <2>2
  <2> QED
    BY <2>2, <2>3 DEF StreamHand
<1>16. fetch'.start < fetch'.file
  BY <1>2, <1>10
<1> QED
  BY <1>1, <1>10, <1>14, <1>15, <1>16 DEF Goes, Hand, m

LEMMA HistoryGoes ==
  ASSUME SourceTypes, Hand(source.kind, source.has, given, fetch), FetchHistory
  PROVE  Goes
<1> DEFINE m == source.has
           id == IdOf(m[fetch.file], fetch.at)
<1>1. /\ fetch.on /\ source.kind = "history" /\ fetch.at > 0 /\ source' = source
  BY DEF FetchHistory
<1>2. /\ fetch \in Fetch /\ fetch.file \in Nat /\ fetch.at \in Nat /\ fetch.start \in Nat
      /\ fetch.count \in Nat /\ fetch.start < fetch.file /\ fetch.file >= 1
      /\ m \in Seq(Pieces) /\ Len(m) \in Nat
      /\ given \in Seq(Nat) /\ given = IdsAt(m, Gone(m, fetch))
      /\ ListHand(m, fetch) /\ StreamHand(source.kind, m, fetch)
      /\ fetch.file <= Len(m)
      /\ DueOf(m, fetch) \in SUBSET All(m, fetch)
  BY <1>1, StreamFacts
<1>3. \A i \in 1 .. Len(m) : m[i].type = "alerts"
  BY <1>1, StreamFacts
<1>4. fetch.file \in 1 .. Len(m) /\ fetch.file \in fetch.start + 1 .. Len(m)
  BY <1>2
<1>5. Len(m[fetch.file].records) \in Nat
  BY <1>2, <1>4, PieceType
<1>6. \A p \in All(m, fetch) : p[1] <= fetch.file - 1 => p \in DueOf(m, fetch)
  BY <1>1, <1>2 DEF StreamHand
<1>7. Exhausted <=> fetch.at > Len(m[fetch.file].records)
  BY DEF Exhausted, Piece
<1>8. GivesNext => Gives(id, fetch.file, fetch.at + 1)
  BY DEF GivesNext, Piece
<1> HIDE DEF m, id
<1>9. CASE (Exhausted \/ Reached(fetch.limit, fetch.count))
           /\ MovesTo(fetch.file + 1, 0, fetch.count)
  <2>1. fetch.file + 1 \in Nat /\ 0 \in Nat
    BY <1>2
  <2>2. /\ given' = given /\ fetches' = fetches
        /\ fetch' \in Fetch
        /\ fetch'.on = fetch.on /\ fetch'.limit = fetch.limit /\ fetch'.start = fetch.start
        /\ fetch'.file = fetch.file + 1 /\ fetch'.at = 0 /\ fetch'.paused = FALSE
        /\ fetch'.count = fetch.count
    BY <1>2, <1>9, <2>1, MovesToDoes
  <2>3. All(m, fetch') = All(m, fetch) /\ DueOf(m, fetch') = DueOf(m, fetch)
    BY <2>2 DEF All, DueOf
  <2>4. \A p \in All(m, fetch) : p \in Behind(m, fetch') <=>
             p \in Behind(m, fetch) \/ (p[1] = fetch.file /\ p[2] >= fetch.at)
    BY <1>2, <2>2, BehindPiece
  <2>5. ASSUME Exhausted PROVE Behind(m, fetch') = Behind(m, fetch)
    <3>1. ASSUME NEW p \in All(m, fetch), p[1] = fetch.file, p[2] >= fetch.at PROVE FALSE
      <4>1. p[2] \in Nat /\ p[2] <= Len(m[p[1]].records)
        BY <1>2, PlaceIs
      <4>2. Len(m[p[1]].records) = Len(m[fetch.file].records)
        BY <3>1
      <4> QED
        BY <1>2, <1>5, <1>7, <2>5, <3>1, <4>1, <4>2
    <3>2. \A p \in All(m, fetch) : p \in Behind(m, fetch') <=> p \in Behind(m, fetch)
      BY <2>4, <3>1
    <3> QED
      BY <1>2, <2>2, <2>3, <3>2, GoneIs
  <2>6. \A p \in DueOf(m, fetch) : p \in Behind(m, fetch') <=> p \in Behind(m, fetch)
    <3>1. CASE Exhausted
      BY <2>5, <3>1
    <3>2. CASE Reached(fetch.limit, fetch.count)
      <4>1. \A i \in 1 .. Len(m) : m[i].type \notin {"csv", "avro"}
        BY <1>3
      <4>2. DueOf(m, fetch) \in SUBSET Gone(m, fetch)
        BY <1>2, <3>2, <4>1, LimitReached
      <4>3. \A p \in DueOf(m, fetch) : p \in Behind(m, fetch)
        BY <1>2, <4>2, GoneIs
      <4> QED
        BY <1>2, <2>4, <4>3
    <3> QED
      BY <1>9, <3>1, <3>2
  <2>7. Gone(m, fetch') = Gone(m, fetch)
    BY <1>2, <2>2, <2>6, NoneMore
  <2>8. ListHand(m, fetch')
    <3>1. fetch'.count = Cardinality(Gone(m, fetch'))
      BY <1>2, <2>2, <2>7 DEF ListHand
    <3>2. ~ Reached(fetch'.limit, fetch'.count) => Behind(m, fetch') \in SUBSET DueOf(m, fetch')
      BY <1>2, <1>9, <2>2, <2>3, <2>5 DEF ListHand
    <3> QED
      BY <3>1, <3>2 DEF ListHand
  <2>9. StreamHand(source.kind, m, fetch')
    <3>1. fetch'.file - 2 = fetch.file - 1 /\ fetch'.at = 0 /\ fetch'.paused = FALSE
          /\ source.kind = "history"
      BY <1>1, <1>2, <2>2
    <3>2. \A p \in All(m, fetch') :
             p[1] <= fetch'.file - (IF source.kind = "history" /\ fetch'.at = 0 THEN 2 ELSE 1)
               => p \in DueOf(m, fetch')
      BY <1>6, <2>3, <3>1
    <3> QED
      BY <3>1, <3>2 DEF StreamHand
  <2>10. fetch'.start < fetch'.file
    BY <1>2, <2>2
  <2> QED
    BY <1>1, <1>2, <2>2, <2>7, <2>8, <2>9, <2>10 DEF Goes, Hand, m
<1>10. CASE ~ Reached(fetch.limit, fetch.count) /\ ~ Exhausted /\ GivesNext
  <2>1. fetch.at \in 1 .. Len(m[fetch.file].records) /\ fetch.at + 1 \in Nat
    BY <1>1, <1>2, <1>5, <1>7, <1>10
  <2>2. Gives(id, fetch.file, fetch.at + 1)
    BY <1>8, <1>10
  <2>3. id \in Nat \cup {None}
    BY <1>2, <1>4, <2>1, PieceType DEF id
  <2>4. /\ given' = IF id = None THEN given ELSE Append(given, id)
        /\ fetch' \in Fetch /\ fetches' = fetches
        /\ fetch'.on = fetch.on /\ fetch'.limit = fetch.limit /\ fetch'.start = fetch.start
        /\ fetch'.file = fetch.file /\ fetch'.at = fetch.at + 1
        /\ fetch'.count = IF id = None THEN fetch.count ELSE fetch.count + 1
    BY <1>2, <2>1, <2>2, <2>3, GivesDoes
  <2>5. \A p \in All(m, fetch) : p \in Behind(m, fetch') <=>
                                   p \in Behind(m, fetch) \/ p = <<fetch.file, fetch.at>>
    BY <1>2, <2>4, BehindNext
  <2>6. \A p \in All(m, fetch) : <<p, <<fetch.file, fetch.at>>>> \in Earlier => p \in Behind(m, fetch)
    BY <1>2, AllIs, GoneIs DEF Earlier
  <2>7. /\ \A j \in fetch.start + 1 .. fetch.file : m[j].type # "broken"
        /\ m[fetch.file].type = "alerts" /\ fetch.at <= fetch.at
    <3>1. \A j \in fetch.start + 1 .. fetch.file : j \in 1 .. Len(m)
      BY <1>2
    <3>2. \A j \in fetch.start + 1 .. fetch.file : m[j].type # "broken"
      BY <1>3, <3>1
    <3>3. m[fetch.file].type = "alerts"
      BY <1>3, <1>4
    <3> QED
      BY <1>2, <3>2, <3>3
  <2>8. id = IdOf(m[fetch.file], fetch.at)
    BY DEF id
  <2>9. NextPlace(m, fetch, fetch', fetch.at)
    BY <1>4, <2>1, <2>4, <2>5, <2>6, <2>7 DEF NextPlace
  <2>10. m[fetch.file].type \notin {"csv", "avro"}
    BY <2>7
  <2>11. IdsGrow(m, fetch, fetch', id) /\ ListHand(m, fetch')
    BY <1>2, <1>10, <2>4, <2>8, <2>9, <2>10, GivesCounted
  <2>12. given' = IdsAt(m, Gone(m, fetch'))
    BY <1>2, <2>4, <2>11 DEF IdsGrow
  <2>13. StreamHand(source.kind, m, fetch')
    <3>1. fetch'.file = fetch.file /\ fetch'.at > 0 /\ fetch'.at # 0 /\ source.kind = "history"
      BY <1>1, <1>2, <2>4
    <3>2. All(m, fetch') = All(m, fetch) /\ DueOf(m, fetch') = DueOf(m, fetch)
      BY <2>4 DEF All, DueOf
    <3>3. \A p \in All(m, fetch') :
             p[1] <= fetch'.file - (IF source.kind = "history" /\ fetch'.at = 0 THEN 2 ELSE 1)
               => p \in DueOf(m, fetch')
      BY <1>6, <3>1, <3>2
    <3> QED
      BY <3>1, <3>3 DEF StreamHand
  <2>14. fetch'.start < fetch'.file
    BY <1>2, <2>4
  <2> QED
    BY <1>1, <2>4, <2>11, <2>12, <2>13, <2>14 DEF Goes, Hand, m
<1> QED
  BY <1>9, <1>10 DEF FetchHistory, m

(* The generator is left: what is still to come is missing, no more.       *)
LEMMA LeftGoes ==
  ASSUME SourceTypes, Hand(source.kind, source.has, given, fetch), fetch.on,
         source' = source, source.kind # "mock",
         NEW ended, Ends(ended), ended \in {"raised", "interrupted", "abandoned"},
         ended = "abandoned" => fetch.paused,
         ended = "raised" => source.kind \in {"antares", "history"} /\ fetch.at = 0
  PROVE  Goes
<1> DEFINE m == source.has
           n == source.taken - Lossy(source.kind, ended)
<1>1. ASSUME source.kind \in {"antares", "history"}
      PROVE  \A p \in All(m, fetch) : p[1] <= n => p \in Gone(m, fetch)
  <2>1. /\ fetch \in Fetch /\ fetch.file \in Nat /\ fetch.at \in Nat
        /\ m \in Seq(Pieces) /\ StreamHand(source.kind, m, fetch)
        /\ source.taken = IF fetch.at = 0 THEN fetch.file - 1 ELSE fetch.file
    BY <1>1, StreamFacts
  <2> DEFINE k == fetch.file - (IF source.kind = "history" /\ fetch.at = 0 THEN 2 ELSE 1)
  <2>2. \A p \in All(m, fetch) : p[1] <= k => p \in DueOf(m, fetch)
    BY <2>1 DEF StreamHand
  <2>3. k \in Int /\ k < fetch.file
    BY <2>1
  <2>4. \A p \in All(m, fetch) : p[1] <= k => p \in Gone(m, fetch)
    <3> HIDE DEF k, m
    <3> QED
      BY <2>1, <2>2, <2>3, BeforeIsGone
  <2>5. n \in Int /\ n <= k
    <3>1. CASE source.kind = "antares"
      <4>1. ended \in {"raised", "abandoned"} => fetch.at = 0
        BY <2>1, <3>1 DEF StreamHand
      <4>2. Lossy(source.kind, ended) = IF ended = "interrupted" THEN 1 ELSE 0
        BY <3>1 DEF Lossy
      <4> QED
        BY <2>1, <3>1, <4>1, <4>2
    <3>2. CASE source.kind = "history"
      <4>1. ended = "abandoned" => fetch.at > 0
        BY <2>1, <3>2 DEF StreamHand
      <4>2. Lossy(source.kind, ended) = 1
        BY <3>2 DEF Lossy
      <4> QED
        BY <2>1, <3>2, <4>1, <4>2
    <3> QED
      BY <1>1, <3>1, <3>2
  <2> HIDE DEF n, k, m
  <2>6. \A p \in All(m, fetch) : p[1] \in Nat
    BY <2>1, AllIs
  <2> QED
    BY <2>3, <2>4, <2>5, <2>6
<1>2. Delivers(source.kind, source.has, ResultOf(ended))
  <2>1. source'.taken = source.taken
        /\ ~ (ended = "done" \/ (ended = "raised" /\ source.kind = "file"))
    OBVIOUS
  <2> QED
    BY <1>1, <2>1, EndDelivers
<1> QED
  BY <1>2 DEF Goes

(* The mock source: its numbers are two apart.                             *)
LEMMA MockDelivers ==
  ASSUME SourceTypes, source.kind = "mock", fetch.on,
         Hand(source.kind, source.has, given, fetch), NEW ended
  PROVE  Delivers(source.kind, source.has, ResultOf(ended))
<1>1. given \in Seq(Nat) /\ fetch.start \in Nat
  BY SourceFacts DEF SourceTypes
<1>2. MockHand(given, fetch)
  BY DEF Hand
<1>3. Len(given) \in Nat /\ DOMAIN given = 1 .. Len(given)
  BY <1>1, LenProperties
<1>4. ASSUME NEW i \in DOMAIN given, NEW j \in DOMAIN given, given[i] = given[j]
      PROVE  i = j
  <2>1. i \in Nat /\ j \in Nat /\ i \in 1 .. Len(given) /\ j \in 1 .. Len(given)
    BY <1>3
  <2>2. given[i] = fetch.start + 2 * (i - 1) /\ given[j] = fetch.start + 2 * (j - 1)
    BY <1>2, <2>1 DEF MockHand
  <2>3. \A a, b, c \in Nat : a + 2 * (b - 1) = a + 2 * (c - 1) => b = c
    OBVIOUS
  <2>4. fetch.start + 2 * (i - 1) = fetch.start + 2 * (j - 1)
    BY <1>4, <2>2
  <2> QED
    BY <1>1, <2>1, <2>3, <2>4
<1>5. IsInjective(given)
  BY <1>4 DEF IsInjective
<1>6. Len(given) <= MockCount
  BY <1>2 DEF MockHand
<1>7. ResultOf(ended).given = given
  BY DEF ResultOf
<1> QED
  BY <1>5, <1>6, <1>7 DEF Delivers

LEMMA MockGoes ==
  ASSUME SourceTypes, Hand(source.kind, source.has, given, fetch), FetchMock
  PROVE  Goes
<1>1. fetch.on /\ source.kind = "mock"
  BY DEF FetchMock
<1>2. /\ fetch \in Fetch /\ fetch.file \in Nat /\ fetch.at \in Nat /\ fetch.start \in Nat
      /\ source.taken \in Nat /\ fetch.at >= 1 /\ source.taken = fetch.start + fetch.at - 1
  BY <1>1, SourceFacts DEF HandFacts
<1>3. given \in Seq(Nat) /\ MockHand(given, fetch)
  BY <1>1 DEF SourceTypes, Hand
<1>4. CASE Ends("done")
  BY <1>1, <1>4, MockDelivers DEF Goes
<1>5. CASE ~ fetch.at > MockRounds
           /\ Gives(source.taken + fetch.at - 1, fetch.file, fetch.at + 1)
  <2> DEFINE id == source.taken + fetch.at - 1
  <2>1. id \in Nat /\ fetch.at + 1 \in Nat /\ id # None /\ id = fetch.start + 2 * (fetch.at - 1)
    <3>1. \A a, b, c \in Nat : b >= 1 /\ c = a + b - 1 =>
             c + b - 1 \in Nat /\ b + 1 \in Nat /\ c + b - 1 = a + 2 * (b - 1)
      OBVIOUS
    <3>2. id \in Nat /\ fetch.at + 1 \in Nat /\ id = fetch.start + 2 * (fetch.at - 1)
      BY <1>2, <3>1
    <3> QED
      BY <3>2, SourcesAssumption
  <2>2. Gives(id, fetch.file, fetch.at + 1)
    BY <1>5
  <2> HIDE DEF id
  <2>3. /\ given' = Append(given, id)
        /\ fetch' \in Fetch /\ fetches' = fetches
        /\ fetch'.on = fetch.on /\ fetch'.start = fetch.start
        /\ fetch'.at = fetch.at + 1
    BY <1>2, <1>3, <2>1, <2>2, GivesDoes
  <2>4. /\ Len(given') = Len(given) + 1 /\ given'[Len(given) + 1] = id
        /\ \A i \in 1 .. Len(given) : given'[i] = given[i]
        /\ Len(given) \in Nat
    BY <1>3, <2>1, <2>3, AppendProperties, LenProperties
  <2>5. fetch.at <= MockCount
    <3>1. MockRounds <= MockCount /\ MockRounds \in Int
      <4>1. fetch.limit \in Nat \cup {NoLimit} /\ MockCount \in Nat
        BY <1>2, SourceFacts, SourcesAssumption
      <4>2. MockCount - fetch.start \in Int /\ MockCount - fetch.start <= MockCount
        BY <1>2, <4>1
      <4>3. (IF fetch.limit \in {0, NoLimit} THEN MockCount ELSE fetch.limit) \in Nat
        BY <4>1
      <4> DEFINE asked == IF fetch.limit \in {0, NoLimit} THEN MockCount ELSE fetch.limit
                 left == MockCount - fetch.start
      <4>4. MockRounds = IF asked < left THEN asked ELSE left
        BY DEF MockRounds
      <4>5. asked \in Nat /\ left \in Int /\ left <= MockCount
        BY <4>2, <4>3
      <4> HIDE DEF asked, left
      <4> QED
        BY <4>1, <4>4, <4>5
    <3> QED
      BY <1>2, <1>5, <3>1, SourcesAssumption
  <2>6. MockHand(given', fetch')
    <3>1. Len(given) = fetch.at - 1 /\ \A i \in 1 .. Len(given) : given[i] = fetch.start + 2 * (i - 1)
      BY <1>3 DEF MockHand
    <3>2. Len(given') = fetch'.at - 1 /\ fetch'.at - 1 <= MockCount
      BY <1>2, <2>3, <2>4, <2>5, <3>1
    <3>3. ASSUME NEW i \in 1 .. Len(given') PROVE given'[i] = fetch'.start + 2 * (i - 1)
      <4>1. CASE i = fetch.at
        <5>1. i = Len(given) + 1
          BY <1>2, <3>1, <4>1
        <5>2. given'[i] = id
          BY <2>4, <5>1
        <5> QED
          BY <2>1, <2>3, <4>1, <5>2
      <4>2. CASE i # fetch.at
        <5>1. i \in 1 .. Len(given)
          BY <1>2, <2>4, <3>1, <4>2
        <5> QED
          BY <2>3, <2>4, <3>1, <5>1
      <4> QED
        BY <4>1, <4>2
    <3> QED
      BY <3>2, <3>3 DEF MockHand
  <2>7. fetch'.on = TRUE
    BY <1>1, <2>3
  <2> QED
    BY <1>1, <2>3, <2>6, <2>7 DEF Goes, Hand
<1> QED
  BY <1>4, <1>5 DEF FetchMock

LEMMA GeneratorGoes ==
  ASSUME SourceTypes, Hand(source.kind, source.has, given, fetch),
         \/ FetchListed \/ FetchFiles \/ TakeLocus \/ StreamRaises \/ FetchLatest \/ FetchHistory
         \/ FetchMock \/ Interrupted \/ Abandoned
  PROVE  Goes
<1>1. CASE Interrupted
  BY <1>1, LeftGoes DEF Interrupted, Live
<1>2. CASE Abandoned
  <2>1. fetch.on /\ fetch.paused /\ source' = source /\ Ends("abandoned")
    BY <1>2 DEF Abandoned
  <2>2. CASE source.kind = "mock"
    BY <2>1, <2>2, MockDelivers DEF Goes
  <2>3. CASE source.kind # "mock"
    BY <2>1, <2>3, LeftGoes
  <2> QED
    BY <2>2, <2>3
<1>3. CASE FetchListed
  BY <1>3, ListedGoes
<1>4. CASE FetchFiles
  BY <1>4, FilesGo
<1>5. CASE TakeLocus
  BY <1>5, TakeGoes
<1>6. CASE FetchLatest
  BY <1>6, LatestGoes
<1>7. CASE FetchHistory
  BY <1>7, HistoryGoes
<1>8. CASE FetchMock
  BY <1>8, MockGoes
<1>9. CASE StreamRaises
  BY <1>9, LeftGoes DEF StreamRaises, Live
<1> QED
  BY <1>1, <1>2, <1>3, <1>4, <1>5, <1>6, <1>7, <1>8, <1>9

-----------------------------------------------------------------------------
(* The invariant of the sources: types, how far the fetch is, and of those *)
(* before it that they follow on each other and have delivered.            *)
FetchesLinked ==
    /\ \A n \in 2 .. Len(fetches) : fetches[n].start = fetches[n - 1].until
    /\ Len(fetches) > 0 =>
         fetches[Len(fetches)].until = IF fetch.on THEN fetch.start ELSE source.taken

FetchesDone ==
    source.path # "star" =>
        \A n \in 1 .. Len(fetches) : Delivers(source.kind, Meant, fetches[n])

SourceInv ==
    /\ SourceTypes
    /\ fetch.on => Hand(source.kind, source.has, given, fetch)
    /\ FetchesLinked
    /\ FetchesDone

LEMMA SourceInvInit == SourcesInit => SourceInv
<1> SUFFICES ASSUME SourcesInit PROVE SourceInv
  OBVIOUS
<1>1. SourceTypes
  BY SourceTypesInit
<1>2. ~ fetch.on /\ fetches = <<>> /\ Len(<<>>) = 0
  BY DEF SourcesInit, NoFetch
<1> QED
  BY <1>1, <1>2 DEF SourceInv, FetchesLinked, FetchesDone

LEMMA GeneratorSame ==
  ASSUME SourceTypes,
         \/ FetchListed \/ FetchFiles \/ TakeLocus \/ StreamRaises \/ FetchLatest \/ FetchHistory
         \/ FetchMock \/ Interrupted \/ Abandoned
  PROVE  SameSource /\ fetch.on /\ source.open
<1>1. fetch.on => source.open
  BY DEF SourceTypes
<1>2. CASE \/ FetchListed \/ FetchFiles \/ StreamRaises \/ FetchLatest \/ FetchHistory
           \/ Interrupted \/ Abandoned
  <2>1. fetch.on /\ source' = source
    BY <1>2 DEF FetchListed, FetchFiles, StreamRaises, FetchLatest, FetchHistory,
                Interrupted, Abandoned
  <2> QED
    BY <1>1, <2>1, SourceUnchanged
<1>3. CASE TakeLocus
  <2>1. /\ fetch.on /\ source.kind \in {"antares", "history"} /\ source.taken < Len(source.has)
        /\ source' = [source EXCEPT !.taken = @ + 1]
    BY <1>3 DEF TakeLocus, Live
  <2> QED
    BY <1>1, <2>1, SourceTaken
<1>4. CASE FetchMock
  <2>1. fetch.on /\ source.kind = "mock"
    BY <1>4 DEF FetchMock
  <2>2. source' = source \/ source' = [source EXCEPT !.taken = @ + 1]
    BY <1>4 DEF FetchMock
  <2> QED
    BY <1>1, <2>1, <2>2, SourceTaken, SourceUnchanged
<1> QED
  BY <1>2, <1>3, <1>4

(* Without a pattern that begins with a star what is found is what is meant.*)
LEMMA FoundIsMeant ==
  ASSUME SourceTypes, source.open, source.path # "star"
  PROVE  source.has = Meant
<1>1. source.has = Contents(source.kind, Discover(source.path))
  BY DEF SourceTypes
<1>2. Discover(source.path) = Folders[source.path]
  BY DEF Discover
<1> QED
  BY <1>1, <1>2 DEF Meant

LEMMA GeneratorInv ==
  ASSUME SourceInv,
         \/ FetchListed \/ FetchFiles \/ TakeLocus \/ StreamRaises \/ FetchLatest \/ FetchHistory
         \/ FetchMock \/ Interrupted \/ Abandoned
  PROVE  SourceInv'
<1>1. /\ SourceTypes /\ SourceTypes' /\ SameSource /\ fetch.on /\ source.open
      /\ FetchesLinked /\ FetchesDone /\ Hand(source.kind, source.has, given, fetch)
  BY GeneratorSame, GeneratorTypes DEF SourceInv
<1>2. Goes
  BY <1>1, GeneratorGoes
<1>3. source'.kind = source.kind /\ source'.path = source.path /\ source'.has = source.has
      /\ source'.taken \in Nat
  BY <1>1 DEF SameSource, SourceType
<1>4. Meant' = Meant
  BY <1>3 DEF Meant
<1>5. CASE /\ fetch'.on = TRUE /\ fetches' = fetches /\ fetch'.start = fetch.start
           /\ Hand(source.kind, source.has, given', fetch')
  <2>1. FetchesLinked'
    BY <1>1, <1>5 DEF FetchesLinked
  <2>2. FetchesDone'
    BY <1>1, <1>3, <1>4, <1>5 DEF FetchesDone
  <2>3. Hand(source.kind, source.has, given, fetch)'
    BY <1>3, <1>5
  <2> QED
    BY <1>1, <2>1, <2>2, <2>3 DEF SourceInv
<1>6. ASSUME NEW ended \in {"done", "raised", "interrupted", "abandoned"},
             Ends(ended), Delivers(source.kind, source.has, ResultOf(ended))
      PROVE  SourceInv'
  <2>1. /\ Len(fetches') = Len(fetches) + 1 /\ Len(fetches) \in Nat
        /\ fetches'[Len(fetches) + 1] = ResultOf(ended)
        /\ \A n \in 1 .. Len(fetches) : fetches'[n] = fetches[n]
        /\ ~ fetch'.on
    BY <1>1, <1>3, <1>6, EndsDoes DEF ResultOf
  <2>2. ResultOf(ended).start = fetch.start /\ ResultOf(ended).until = source'.taken
    BY DEF ResultOf
  <2>3. FetchesLinked'
    <3>1. ASSUME NEW n \in 2 .. Len(fetches') PROVE fetches'[n].start = fetches'[n - 1].until
      <4>1. CASE n = Len(fetches) + 1
        <5>1. n - 1 = Len(fetches) /\ Len(fetches) > 0 /\ Len(fetches) \in 1 .. Len(fetches)
          BY <2>1, <4>1
        <5>2. fetches[Len(fetches)].until = fetch.start
          BY <1>1, <5>1 DEF FetchesLinked
        <5> QED
          BY <2>1, <2>2, <4>1, <5>1, <5>2
      <4>2. CASE n # Len(fetches) + 1
        <5>1. n \in 2 .. Len(fetches) /\ n \in 1 .. Len(fetches) /\ n - 1 \in 1 .. Len(fetches)
          BY <2>1, <4>2
        <5>2. fetches[n].start = fetches[n - 1].until
          BY <1>1, <5>1 DEF FetchesLinked
        <5> QED
          BY <2>1, <5>1, <5>2
      <4> QED
        BY <4>1, <4>2
    <3>2. fetches'[Len(fetches')].until = source'.taken
      BY <2>1, <2>2
    <3> QED
      BY <2>1, <3>1, <3>2 DEF FetchesLinked
  <2>4. FetchesDone'
    <3> SUFFICES ASSUME source.path # "star", NEW n \in 1 .. Len(fetches')
                 PROVE  Delivers(source.kind, Meant, fetches'[n])
      BY <1>3, <1>4 DEF FetchesDone
    <3>1. CASE n = Len(fetches) + 1
      BY <1>1, <1>6, <2>1, <3>1, FoundIsMeant
    <3>2. CASE n # Len(fetches) + 1
      <4>1. n \in 1 .. Len(fetches)
        BY <2>1, <3>2
      <4> QED
        BY <1>1, <2>1, <4>1 DEF FetchesDone
    <3> QED
      BY <3>1, <3>2
  <2> QED
    BY <1>1, <2>1, <2>3, <2>4 DEF SourceInv
<1> QED
  BY <1>2, <1>5, <1>6 DEF Goes

LEMMA SourceInvStep ==
  ASSUME SourceInv, SourcesNext \/ UNCHANGED sourceVars
  PROVE  SourceInv'
<1>1. /\ SourceTypes /\ SourceTypes' /\ FetchesLinked /\ FetchesDone
      /\ fetch.on => source.open
      /\ source.open \/ fetches # <<>> => source.kind # "none"
      /\ fetch.on => Hand(source.kind, source.has, given, fetch)
  <2>1. SourceTypes /\ SourceTypes' /\ FetchesLinked /\ FetchesDone
        /\ (fetch.on => Hand(source.kind, source.has, given, fetch))
    BY SourceTypesStep DEF SourceInv
  <2> QED
    BY <2>1 DEF SourceTypes
<1>2. ASSUME fetches = <<>>, ~ fetch.on, fetch' = fetch, fetches' = fetches
      PROVE  SourceInv'
  <2>1. Len(<<>>) = 0
    OBVIOUS
  <2> QED
    BY <1>1, <1>2, <2>1 DEF SourceInv, FetchesLinked, FetchesDone
<1>3. ASSUME NEW kind, NEW path, NewSource(kind, path)
      PROVE  SourceInv'
  <2>1. source.kind = "none" /\ ~ source.open /\ fetch' = fetch /\ fetches' = fetches
    BY <1>3 DEF NewSource, NoSource
  <2> QED
    BY <1>1, <1>2, <2>1
<1>4. ASSUME NEW found, Opened(found)
      PROVE  SourceInv'
  <2>1. ~ source.open /\ fetches = <<>> /\ fetch' = fetch /\ fetches' = fetches
    BY <1>4 DEF Opened
  <2> QED
    BY <1>1, <1>2, <2>1
<1>5. CASE CloseSource
  <2>1. /\ ~ fetch.on /\ fetch' = fetch /\ fetches' = fetches
        /\ source' = [source EXCEPT !.open = FALSE, !.has = <<>>]
    BY <1>5 DEF CloseSource
  <2>2. source'.kind = source.kind /\ source'.path = source.path /\ source'.taken = source.taken
    BY <1>1, <2>1 DEF SourceTypes
  <2>3. Meant' = Meant
    BY <2>2 DEF Meant
  <2> QED
    BY <1>1, <2>1, <2>2, <2>3 DEF SourceInv, FetchesLinked, FetchesDone
<1>6. ASSUME NEW limit \in Limits, BeginFetch(limit)
      PROVE  SourceInv'
  <2>1. /\ given' = <<>> /\ fetches' = fetches /\ source' = source
        /\ source.open /\ ~ fetch.on
        /\ fetch' \in Fetch
        /\ fetch'.on = TRUE /\ fetch'.start = source.taken
        /\ fetch'.file = source.taken + 1 /\ fetch'.paused = FALSE /\ fetch'.count = 0
        /\ fetch'.at = IF Live THEN 0 ELSE 1
    BY <1>1, <1>6, BeginFetchDoes
  <2>2. source.kind = "file" => source.taken = 0
    BY <1>1 DEF SourceTypes
  <2>3. source.has \in Seq(Pieces)
    BY <1>1 DEF SourceTypes
  <2>4. Hand(source.kind, source.has, <<>>, fetch')
    BY <2>1, <2>2, <2>3, HandStart DEF Live
  <2>5. FetchesLinked'
    BY <1>1, <2>1 DEF FetchesLinked
  <2>6. FetchesDone'
    BY <1>1, <2>1 DEF FetchesDone, Meant
  <2> QED
    BY <1>1, <2>1, <2>4, <2>5, <2>6 DEF SourceInv
<1>7. CASE UNCHANGED sourceVars
  <2>1. source' = source /\ fetch' = fetch /\ given' = given /\ fetches' = fetches
    BY <1>7 DEF sourceVars
  <2> QED
    BY <1>1, <2>1 DEF SourceInv, FetchesLinked, FetchesDone, Meant
<1>8. CASE \/ FetchListed \/ FetchFiles \/ TakeLocus \/ StreamRaises \/ FetchLatest \/ FetchHistory
           \/ FetchMock \/ Interrupted \/ Abandoned
  BY <1>8, GeneratorInv
<1>9. CASE ConnectFile \/ ConnectFink \/ ConnectMock \/ ConnectAntares \/ ConnectRocks
  BY <1>4, <1>9 DEF ConnectFile, ConnectFink, ConnectMock, ConnectAntares, ConnectRocks
<1>10. CASE SourcesNext
  BY <1>3, <1>5, <1>6, <1>8, <1>9, <1>10 DEF SourcesNext
<1> QED
  BY <1>7, <1>10

LEMMA SourceInvHolds ==
  ASSUME SourceInv
  PROVE  SourcesTypeOK /\ FetchDelivers
<1>1. SourceTypes /\ FetchesLinked /\ FetchesDone
  BY DEF SourceInv
<1>2. SourcesTypeOK
  BY <1>1 DEF SourceTypes, SourcesTypeOK, Fetch
<1>3. Len(fetches) \in Nat /\ DOMAIN fetches = 1 .. Len(fetches)
  BY <1>1, LenProperties DEF SourceTypes
<1>4. FetchDelivers
  <2> SUFFICES ASSUME source.path # "star", NEW n \in DOMAIN fetches
               PROVE  /\ n > 1 => fetches[n].start = fetches[n - 1].until
                      /\ Delivers(source.kind, Meant, fetches[n])
    BY DEF FetchDelivers
  <2>1. n \in 1 .. Len(fetches) /\ (n > 1 => n \in 2 .. Len(fetches))
    BY <1>3
  <2> QED
    BY <1>1, <2>1 DEF FetchesLinked, FetchesDone
<1> QED
  BY <1>2, <1>4

(* Every fetch gives out the alerts its limit promises, in order and       *)
(* without repetition, one that is cut short the beginning of them; of a   *)
(* stream no more is lost than the end, and the next fetch goes on from    *)
(* there: fetch_alerts of the sources.  A FileSource whose limit tells     *)
(* gives some of its records in order, of no file more than the limit.     *)
THEOREM FetchesDeliver == Spec => []FetchDelivers
<1>1. Init => SourceInv
  BY SourceInvInit DEF Init
<1>2. SourceInv /\ [Next]_vars => SourceInv'
  <2>1. [Next]_vars => [SourcesNext]_sourceVars
    BY DEF Next, vars
  <2> QED
    BY <2>1, SourceInvStep
<1>3. SourceInv => FetchDelivers
  BY SourceInvHolds
<1> QED
  BY <1>1, <1>2, <1>3, PTL DEF Spec

(* The types of all that surrounds the database.                           *)
THEOREM InterfaceTypes == Spec => []TypeOK
<1> DEFINE Inv == SourceInv /\ LocusTypeOK /\ SchemaInv /\ ExportInv
<1>1. Init => Inv
  BY SourceInvInit, SchemaInvInit, ExportInvInit DEF Init, LocusInit, LocusTypeOK
<1>2. [Next]_vars => /\ [SourcesNext]_sourceVars /\ [LocusNext]_locusVars
                     /\ [SchemaNext]_schemaVars /\ [ExportNext]_exportVars
  BY DEF Next, vars
<1>3. Inv /\ [Next]_vars => Inv'
  BY <1>2, SourceInvStep, SchemaInvStep, ExportInvStep, LocusTypesStep
<1>4. Inv => TypeOK
  BY SourceInvHolds DEF TypeOK, SchemaInv, ExportInv
<1> QED
  BY <1>1, <1>3, <1>4, PTL DEF Spec
==============================================================================
