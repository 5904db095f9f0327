---------------------------- MODULE OccupancyProofs ----------------------------
(* Lemmas and theorems about the occupancy ledger, for any nets and resources. *)
EXTENDS Occupancy, FiniteSetTheorems, TLAPS

--------------------------------------------------------------------------------
(* Partial maps *)

LEMMA ClaimsElim ==
  ASSUME NEW c \in Claims
  PROVE  /\ DOMAIN c \subseteq Net
         /\ c = [n \in DOMAIN c |-> c[n]]
         /\ \A n \in DOMAIN c : c[n] \subseteq Resource
BY DEF Claims

LEMMA ClaimsIntro ==
  ASSUME NEW S \in SUBSET Net, NEW c \in [S -> SUBSET Resource]
  PROVE  c \in Claims
BY DEF Claims

LEMMA RouteMapsElim ==
  ASSUME NEW rts \in RouteMaps
  PROVE  /\ DOMAIN rts \subseteq Net
         /\ rts = [n \in DOMAIN rts |-> rts[n]]
         /\ \A n \in DOMAIN rts : rts[n] \in Route
BY DEF RouteMaps

LEMMA RouteMapsIntro ==
  ASSUME NEW S \in SUBSET Net, NEW rts \in [S -> Route]
  PROVE  rts \in RouteMaps
BY DEF RouteMaps

\* Only, Without and Override stay among the claims, and have these entries.
LEMMA ClaimsMaps ==
  ASSUME NEW c \in Claims, NEW d \in Claims, NEW S
  PROVE  Only(c, S) \in Claims /\ Without(c, S) \in Claims /\ Override(c, d) \in Claims
<1>1. /\ DOMAIN c \subseteq Net /\ \A n \in DOMAIN c : c[n] \in SUBSET Resource
      /\ DOMAIN d \subseteq Net /\ \A n \in DOMAIN d : d[n] \in SUBSET Resource
  BY ClaimsElim
<1>2. Only(c, S) \in [DOMAIN c \cap S -> SUBSET Resource]
  BY <1>1 DEF Only
<1>3. Without(c, S) \in [DOMAIN c \ S -> SUBSET Resource]
  BY <1>1 DEF Without
<1>4. Override(c, d) \in [DOMAIN c \cup DOMAIN d -> SUBSET Resource]
  BY <1>1 DEF Override
<1>5. /\ DOMAIN c \cap S \in SUBSET Net /\ DOMAIN c \ S \in SUBSET Net
      /\ DOMAIN c \cup DOMAIN d \in SUBSET Net
  BY <1>1
<1>6. QED
  BY <1>2, <1>3, <1>4, <1>5, ClaimsIntro

LEMMA RouteMapsMaps ==
  ASSUME NEW c \in RouteMaps, NEW d \in RouteMaps, NEW S
  PROVE  /\ Only(c, S) \in RouteMaps /\ Without(c, S) \in RouteMaps
         /\ Override(c, d) \in RouteMaps
<1>1. /\ DOMAIN c \subseteq Net /\ \A n \in DOMAIN c : c[n] \in Route
      /\ DOMAIN d \subseteq Net /\ \A n \in DOMAIN d : d[n] \in Route
  BY RouteMapsElim
<1>2. Only(c, S) \in [DOMAIN c \cap S -> Route]
  BY <1>1 DEF Only
<1>3. Without(c, S) \in [DOMAIN c \ S -> Route]
  BY <1>1 DEF Without
<1>4. Override(c, d) \in [DOMAIN c \cup DOMAIN d -> Route]
  BY <1>1 DEF Override
<1>5. /\ DOMAIN c \cap S \in SUBSET Net /\ DOMAIN c \ S \in SUBSET Net
      /\ DOMAIN c \cup DOMAIN d \in SUBSET Net
  BY <1>1
<1>6. QED
  BY <1>2, <1>3, <1>4, <1>5, RouteMapsIntro

LEMMA ClaimsOfType ==
  ASSUME NEW rts \in RouteMaps
  PROVE  ClaimsOf(rts) \in Claims /\ DOMAIN ClaimsOf(rts) = DOMAIN rts
<1>1. DOMAIN rts \in SUBSET Net /\ \A n \in DOMAIN rts : rts[n] \in Route
  BY RouteMapsElim
<1>2. ClaimsOf(rts) \in [DOMAIN rts -> SUBSET Resource]
  BY <1>1, OccupancyAssumption DEF ClaimsOf
<1>3. QED
  BY <1>1, <1>2, ClaimsIntro

--------------------------------------------------------------------------------
(* The operations of the ledger *)

LEMMA LedgerForm ==
  ASSUME NEW l
  PROVE  l \in Ledgers <=> /\ l = [byNet |-> l.byNet, byResource |-> l.byResource]
                           /\ l.byNet \in Claims
                           /\ l.byResource \in [Resource -> SUBSET Net]
BY DEF Ledgers

\* rip_up removes exactly the entries of its nets, from both indexes.
LEMMA RipUpFacts ==
  ASSUME NEW l \in Ledgers, NEW S
  PROVE  /\ RipUp(l, S) \in Ledgers
         /\ RipUp(l, S).byNet = Without(l.byNet, S)
         /\ Indexed(l) => Indexed(RipUp(l, S))
<1>0. l.byNet \in Claims /\ l.byResource \in [Resource -> SUBSET Net]
  BY LedgerForm
<1>1. RipUp(l, S).byNet = Without(l.byNet, S)
  BY DEF RipUp
<1>2. RipUp(l, S).byResource \in [Resource -> SUBSET Net]
  BY <1>0 DEF RipUp
<1>3. RipUp(l, S) \in Ledgers
  BY <1>0, <1>1, <1>2, ClaimsMaps, LedgerForm DEF RipUp
<1>4. ASSUME Indexed(l), NEW r \in Resource
      PROVE  RipUp(l, S).byResource[r]
               = { n \in DOMAIN Without(l.byNet, S) : r \in Without(l.byNet, S)[n] }
  <2>1. l.byResource[r] = { n \in DOMAIN l.byNet : r \in l.byNet[n] }
    BY <1>4 DEF Indexed
  <2>2. RipUp(l, S).byResource[r] =
          { n \in l.byResource[r] : ~(n \in S \cap DOMAIN l.byNet /\ r \in l.byNet[n]) }
    BY DEF RipUp
  <2>3. /\ DOMAIN Without(l.byNet, S) = DOMAIN l.byNet \ S
        /\ \A n \in DOMAIN l.byNet \ S : Without(l.byNet, S)[n] = l.byNet[n]
    BY DEF Without
  <2>4. QED
    BY <2>1, <2>2, <2>3
<1>5. QED
  BY <1>1, <1>3, <1>4 DEF Indexed

\* commit gives its nets these claims, and takes from them what they had.
LEMMA CommitFacts ==
  ASSUME NEW l \in Ledgers, NEW c \in Claims
  PROVE  /\ Commit(l, c) \in Ledgers
         /\ Commit(l, c).byNet = Override(l.byNet, c)
         /\ Indexed(l) => Indexed(Commit(l, c))
<1> DEFINE bare == RipUp(l, DOMAIN c)
<1>0. l.byNet \in Claims /\ DOMAIN c \subseteq Net
  BY LedgerForm, ClaimsElim
<1>1. /\ bare \in Ledgers /\ bare.byNet = Without(l.byNet, DOMAIN c)
      /\ Indexed(l) => Indexed(bare)
  BY RipUpFacts
<1>2. /\ DOMAIN bare.byNet = DOMAIN l.byNet \ DOMAIN c
      /\ \A n \in DOMAIN bare.byNet : bare.byNet[n] = l.byNet[n]
  BY <1>1 DEF Without
<1>3. /\ Commit(l, c).byNet = Override(bare.byNet, c)
      /\ Commit(l, c).byResource = [r \in Resource |->
           bare.byResource[r] \cup { n \in DOMAIN c : r \in c[n] }]
      /\ Commit(l, c) = [byNet |-> Commit(l, c).byNet,
                         byResource |-> Commit(l, c).byResource]
  BY DEF Commit
<1> HIDE DEF bare
<1>4. Override(bare.byNet, c) = Override(l.byNet, c)
  BY <1>2 DEF Override
<1>5. bare.byResource \in [Resource -> SUBSET Net]
  BY <1>1, LedgerForm
<1>6. Commit(l, c).byResource \in [Resource -> SUBSET Net]
  BY <1>0, <1>3, <1>5
<1>7. Commit(l, c).byNet \in Claims
  BY <1>0, <1>3, <1>4, ClaimsMaps
<1>8. ASSUME Indexed(l), NEW r \in Resource
      PROVE  Commit(l, c).byResource[r]
               = { n \in DOMAIN Override(bare.byNet, c) : r \in Override(bare.byNet, c)[n] }
  <2>1. bare.byResource[r] = { n \in DOMAIN bare.byNet : r \in bare.byNet[n] }
    BY <1>1, <1>8 DEF Indexed
  <2>2. Commit(l, c).byResource[r] = bare.byResource[r] \cup { n \in DOMAIN c : r \in c[n] }
    BY <1>3
  <2>3. /\ DOMAIN Override(bare.byNet, c) = DOMAIN bare.byNet \cup DOMAIN c
        /\ \A n \in DOMAIN bare.byNet : Override(bare.byNet, c)[n] = bare.byNet[n]
        /\ \A n \in DOMAIN c : Override(bare.byNet, c)[n] = c[n]
    BY <1>2 DEF Override
  <2>4. QED
    BY <2>1, <2>2, <2>3
<1>9. QED
  BY <1>3, <1>4, <1>6, <1>7, <1>8, LedgerForm DEF Indexed

\* A reload leaves the given claims and nothing else.
LEMMA ReloadFacts ==
  ASSUME NEW l \in Ledgers, NEW c \in Claims
  PROVE  /\ Reload(l, c) \in Ledgers
         /\ Reload(l, c).byNet = c
         /\ Indexed(l) => Indexed(Reload(l, c))
<1> DEFINE bare == RipUp(l, DOMAIN l.byNet)
<1>1. /\ bare \in Ledgers /\ bare.byNet = Without(l.byNet, DOMAIN l.byNet)
      /\ Indexed(l) => Indexed(bare)
  BY RipUpFacts
<1>2. DOMAIN bare.byNet = {}
  BY <1>1 DEF Without
<1>3. Reload(l, c) = Commit(bare, c)
  BY DEF Reload
<1> HIDE DEF bare
<1>4. /\ Commit(bare, c) \in Ledgers /\ Commit(bare, c).byNet = Override(bare.byNet, c)
      /\ Indexed(bare) => Indexed(Commit(bare, c))
  BY <1>1, CommitFacts
<1>5. c = [n \in DOMAIN c |-> c[n]]
  BY ClaimsElim
<1>6. Override(bare.byNet, c) = c
  BY <1>2, <1>5 DEF Override
<1>7. QED
  BY <1>1, <1>3, <1>4, <1>6

LEMMA NewLedgerFacts ==
  ASSUME NEW c \in Claims
  PROVE  NewLedger(c) \in Ledgers /\ NewLedger(c).byNet = c /\ Indexed(NewLedger(c))
<1>1. DOMAIN c \subseteq Net
  BY ClaimsElim
<1>2. NewLedger(c).byNet = c /\ NewLedger(c).byResource \in [Resource -> SUBSET Net]
  BY <1>1 DEF NewLedger
<1>3. \A r \in Resource : NewLedger(c).byResource[r] = { n \in DOMAIN c : r \in c[n] }
  BY DEF NewLedger
<1>4. NewLedger(c) \in Ledgers
  BY <1>2, LedgerForm DEF NewLedger
<1>5. QED
  BY <1>2, <1>3, <1>4 DEF Indexed

(***************************************************************************)
(* What overuse() finds in the index is what the claims say: it is empty   *)
(* exactly if no two nets claim the same resource.                         *)
(***************************************************************************)
THEOREM OveruseIsExact ==
  ASSUME NEW l \in Ledgers, Indexed(l)
  PROVE  Overused(l) = {} <=> ZeroOveruse(l.byNet)
<1>0. /\ l.byNet \in Claims /\ l.byResource \in [Resource -> SUBSET Net]
      /\ DOMAIN l.byNet \subseteq Net
      /\ \A n \in DOMAIN l.byNet : l.byNet[n] \subseteq Resource
  BY LedgerForm, ClaimsElim
<1>1. \A r \in Resource : /\ IsFiniteSet(l.byResource[r])
                          /\ Cardinality(l.byResource[r]) \in Nat
  BY <1>0, OccupancyAssumption, FS_Subset, FS_CardinalityType
<1>2. ASSUME NEW r \in Resource
      PROVE  Cardinality(l.byResource[r]) > 1
               <=> \E m, n \in DOMAIN l.byNet : m # n /\ r \in l.byNet[m] /\ r \in l.byNet[n]
  <2> DEFINE owners == l.byResource[r]
  <2>1. owners = { n \in DOMAIN l.byNet : r \in l.byNet[n] }
    BY DEF Indexed
  <2>2. IsFiniteSet(owners) /\ Cardinality(owners) \in Nat
    BY <1>1
  <2>3. (\E m, n \in DOMAIN l.byNet : m # n /\ r \in l.byNet[m] /\ r \in l.byNet[n])
          <=> \E m, n \in owners : m # n
    BY <2>1
  <2> HIDE DEF owners
  <2>4. ASSUME NEW m \in owners, NEW n \in owners, m # n
        PROVE  Cardinality(owners) > 1
    <3>1. /\ IsFiniteSet(owners \ {m})
          /\ Cardinality(owners \ {m}) = Cardinality(owners) - 1
      BY <2>2, FS_RemoveElement
    <3>2. Cardinality(owners \ {m}) # 0
      BY <2>4, <3>1, FS_EmptySet
    <3>3. Cardinality(owners \ {m}) \in Nat
      BY <3>1, FS_CardinalityType
    <3>4. QED
      BY <2>2, <3>1, <3>2, <3>3
  <2>5. ASSUME Cardinality(owners) > 1
        PROVE  \E m, n \in owners : m # n
    <3>1. owners # {}
      BY <2>2, <2>5, FS_EmptySet
    <3>2. PICK m \in owners : TRUE
      BY <3>1
    <3>3. owners # {m}
      BY <2>2, <2>5, FS_Singleton
    <3>4. QED
      BY <3>2, <3>3
  <2>6. QED
    BY <2>3, <2>4, <2>5 DEF owners
<1>3. Overused(l) = {} <=> \A r \in Resource : ~(Cardinality(l.byResource[r]) > 1)
  BY DEF Overused
<1>4. ZeroOveruse(l.byNet) <=>
        \A r \in Resource :
          ~(\E m, n \in DOMAIN l.byNet : m # n /\ r \in l.byNet[m] /\ r \in l.byNet[n])
  BY <1>0 DEF ZeroOveruse
<1>5. QED
  BY <1>2, <1>3, <1>4

\* The measures of a pass are integers.
LEMMA UnitsType ==
  ASSUME NEW l \in Ledgers
  PROVE  /\ \A R \in SUBSET Resource : TotalUnits(l, R) \in Int
         /\ Overused(l) \subseteq Resource
         /\ Objective(l) \in Int \X Int \X Int
<1>0. IsFiniteSet(Net) /\ IsFiniteSet(Resource) /\ Cardinality(Net) \in Nat
  BY OccupancyAssumption, FS_CardinalityType
<1>1. ASSUME NEW R \in SUBSET Resource
      PROVE  TotalUnits(l, R) \in Int /\ Cardinality(R) \in Int
  <2>1. IsFiniteSet(R)
    BY <1>0, FS_Subset
  <2>2. IsFiniteSet(R \X Net)
    BY <1>0, <2>1, FS_Product
  <2>3. IsFiniteSet({ p \in R \X Net : p[2] \in l.byResource[p[1]] })
    BY <2>2, FS_Subset
  <2>4. QED
    BY <2>1, <2>3, FS_CardinalityType DEF TotalUnits
<1>2. Overused(l) \in SUBSET Resource
  BY DEF Overused
<1>3. LargestUnits(l) \in Int
  <2>1. IsFiniteSet(1 .. Cardinality(Net))
    BY <1>0, FS_Interval
  <2>2. IsFiniteSet({ k \in 1 .. Cardinality(Net) :
                        \E r \in Resource : OveruseUnits(l, r) >= k })
    BY <2>1, FS_Subset
  <2>3. QED
    BY <2>2, FS_CardinalityType DEF LargestUnits
<1>4. QED
  BY <1>1, <1>2, <1>3 DEF Objective

================================================================================
