-------------------------- MODULE OnboardingProofs --------------------------
(***************************************************************************)
(* Theorems about Onboarding and the package catalogue it is composed      *)
(* with, for any number of e-mails, requests and edits.                    *)
(***************************************************************************)
EXTENDS Onboarding, FiniteSetTheorems, SequenceTheorems, WellFoundedInduction, TLAPS

-----------------------------------------------------------------------------
(***************************************************************************)
(* The greatest of a bounded set of versions.                              *)
(***************************************************************************)
LEMMA LeastNatural ==
  ASSUME NEW T, T \subseteq Nat, T # {}
  PROVE  \E m \in T : \A k \in T : m <= k
  <1> DEFINE R == OpToRel(<, Nat)
  <1>1. IsWellFoundedOn(R, Nat)
    BY NatLessThanWellFounded
  <1>2. \A x, y \in Nat : x < y => <<x, y>> \in R
    BY DEF OpToRel
  <1> HIDE DEF R
  <1>3. PICK m \in T : \A k \in T : ~(<<k, m>> \in R)
    BY <1>1, WFMin
  <1>4. ASSUME NEW k \in T PROVE m <= k
    <2>1. k \in Nat /\ m \in Nat /\ ~(k < m)
      BY <1>2, <1>3
    <2>2. QED
      BY <2>1
  <1>5. QED
    BY <1>4

LEMMA MaxIsNatural ==
  ASSUME NEW S, S \subseteq Nat, S # {}, NEW b \in Nat, \A v \in S : v <= b
  PROVE  Max(S) \in S
  <1> DEFINE T == {n \in Nat : \A v \in S : v <= n}
  <1>1. T \subseteq Nat /\ T # {}
    OBVIOUS
  <1>2. PICK m \in T : \A k \in T : m <= k
    BY <1>1, LeastNatural
  <1>3. m \in S
    <2>1. SUFFICES ASSUME m \notin S PROVE FALSE
      OBVIOUS
    <2>2. \A v \in S : v < m
      BY <1>2, <2>1
    <2>3. m \in Nat /\ m > 0
      <3>1. PICK v \in S : TRUE
        OBVIOUS
      <3>2. v \in Nat /\ v < m /\ m \in Nat
        BY <2>2, <3>1
      <3>3. QED
        BY <3>2
    <2>4. m - 1 \in Nat /\ \A v \in S : v <= m - 1
      BY <2>2, <2>3
    <2>5. QED
      BY <1>2, <2>3, <2>4
  <1>4. \A v \in S : m >= v
    BY <1>2
  <1>5. QED
    BY <1>3, <1>4 DEF Max

-----------------------------------------------------------------------------
(***************************************************************************)
(* The catalogue.  Its versions are bounded, so that the next one, which   *)
(* is one above the greatest, is a number.                                 *)
(***************************************************************************)
Bounded == \E b \in Nat : \A v \in pkgs.versions : v <= b

CInv == CatalogTypeOK /\ Bounded

LEMMA InitCInv == InitCatalog => CInv
  <1> SUFFICES ASSUME InitCatalog PROVE CInv
    OBVIOUS
  <1>1. CatalogTypeOK
    <2>1. {1} \subseteq Nat /\ 0 \in 0..MayEdit
      BY EditAssumption
    <2>2. QED
      BY <2>1 DEF InitCatalog, CatalogTypeOK, Catalog, Creator, CreatorPcs
  <1>2. Bounded
    BY DEF InitCatalog, Bounded
  <1>3. QED
    BY <1>1, <1>2 DEF CInv

LEMMA CreatorSet ==
  ASSUME CInv, NEW c \in Creators, NEW pc \in CreatorPcs, NEW v \in Nat, GotoCreator(c, pc, v)
  PROVE  /\ creator' \in [Creators -> Creator]
         /\ creator'[c] = [pc |-> pc, version |-> v]
         /\ \A d \in Creators \ {c} : creator'[d] = creator[d]
  BY DEF GotoCreator, CInv, CatalogTypeOK, Creator

\* The version a new package gets.
LEMMA NextIsNatural == ASSUME CInv PROVE Max(pkgs.versions \cup {0}) + 1 \in Nat
  <1>1. PICK b \in Nat : \A v \in pkgs.versions : v <= b
    BY DEF CInv, Bounded
  <1>2. pkgs.versions \subseteq Nat
    BY DEF CInv, CatalogTypeOK, Catalog
  <1>3. \A v \in pkgs.versions \cup {0} : v <= b
    BY <1>1
  <1>4. Max(pkgs.versions \cup {0}) \in pkgs.versions \cup {0}
    BY <1>2, <1>3, MaxIsNatural
  <1>5. QED
    BY <1>2, <1>4

LEMMA NextCInv == ASSUME CInv, CatalogNext PROVE CInv'
  <1>0. /\ pkgs \in Catalog /\ pkgs.versions \subseteq Nat /\ pkgs.active \subseteq Nat
        /\ creator \in [Creators -> Creator] /\ edits \in 0..MayEdit /\ crowded \in Nat /\ lost \in BOOLEAN
        /\ \A c \in Creators : creator[c].version \in Nat
    BY DEF CInv, CatalogTypeOK, Catalog, Creator
  <1>1. PICK b \in Nat : \A v \in pkgs.versions : v <= b
    BY DEF CInv, Bounded
  <1>2. ASSUME NEW c \in Creators, FindActive(c) PROVE CInv'
    <2>1. PICK v \in Nat : GotoCreator(c, "found", v)
      BY <1>0, <1>2 DEF FindActive
    <2>2. creator' \in [Creators -> Creator]
      BY <2>1, CreatorSet DEF CreatorPcs
    <2>3. QED
      BY <1>0, <1>1, <1>2, <2>2 DEF FindActive, CInv, CatalogTypeOK, Bounded
  <1>3. ASSUME NEW c \in Creators, Deactivate(c) PROVE CInv'
    <2>1. creator' \in [Creators -> Creator]
      BY <1>3, CreatorSet DEF Deactivate, CreatorPcs
    <2>2. pkgs' \in Catalog /\ pkgs'.versions = pkgs.versions
      BY <1>0, <1>3 DEF Deactivate, Catalog
    <2>3. QED
      BY <1>0, <1>1, <1>3, <2>1, <2>2 DEF Deactivate, CInv, CatalogTypeOK, Bounded
  <1>4. ASSUME NEW c \in Creators, NextVersion(c) PROVE CInv'
    <2>1. creator' \in [Creators -> Creator]
      BY <1>4, NextIsNatural, CreatorSet DEF NextVersion, CreatorPcs
    <2>2. QED
      BY <1>0, <1>1, <1>4, <2>1 DEF NextVersion, CInv, CatalogTypeOK, Bounded
  <1>5. ASSUME NEW c \in Creators, CreatePackage(c) PROVE CInv'
    <2>1. creator' \in [Creators -> Creator]
      BY <1>5, CreatorSet DEF CreatePackage, CreatorPcs
    <2>2. /\ pkgs' \in Catalog
          /\ pkgs'.versions = pkgs.versions \cup {creator[c].version}
      BY <1>0, <1>5 DEF CreatePackage, Catalog
    <2>3. Bounded'
      <3>1. \A v \in pkgs'.versions : v <= b + creator[c].version
        BY <1>0, <1>1, <2>2
      <3>2. b + creator[c].version \in Nat
        BY <1>0
      <3>3. QED
        BY <3>1, <3>2 DEF Bounded
    <2>4. QED
      BY <1>0, <1>5, <2>1, <2>2, <2>3 DEF CreatePackage, CInv, CatalogTypeOK
  <1>6. ASSUME NEW c \in Creators, FailCreate(c) PROVE CInv'
    <2>1. creator' \in [Creators -> Creator]
      BY <1>6, CreatorSet DEF FailCreate, CreatorPcs
    <2>2. QED
      BY <1>0, <1>1, <1>6, <2>1 DEF FailCreate, CInv, CatalogTypeOK, Bounded
  <1>7. CASE EditPackage
    <2>1. edits' \in 0..MayEdit /\ crowded' \in Nat /\ lost' \in BOOLEAN /\ creator' = creator
      BY <1>0, <1>7, EditAssumption DEF EditPackage
    <2>2. pkgs' \in Catalog /\ pkgs'.versions \subseteq pkgs.versions
      BY <1>0, <1>7 DEF EditPackage, Catalog
    <2>3. QED
      BY <1>0, <1>1, <2>1, <2>2 DEF CInv, CatalogTypeOK, Bounded
  <1>8. QED
    BY <1>2, <1>3, <1>4, <1>5, <1>6, <1>7 DEF CatalogNext

(***************************************************************************)
(* The strengthening of OneOnSale.  A creation that has found a package    *)
(* holds it: it will take it from sale before it puts its own there.  The  *)
(* packages that nobody holds and the creations under way are one, plus    *)
(* one for everything that came beside another.                            *)
(***************************************************************************)
Finders == {c \in Creators : creator[c].pc = "found"}
Held == {creator[c].version : c \in Finders}
Kept == pkgs.active \ Held

Replacing == pkgs.active # {} \/ \E c \in Creators : creator[c].pc \in {"cleared", "numbered"}

SoldCount ==
  /\ IsFiniteSet(pkgs.active) /\ IsFiniteSet(Creating)
  /\ Cardinality(Kept) + Cardinality(Creating) <= 1 + crowded
  /\ ~lost => Replacing

\* A set that gains at most one element.
LEMMA GainsOne ==
  ASSUME NEW S, IsFiniteSet(S), NEW x, NEW T, T \subseteq S \cup {x}
  PROVE  /\ IsFiniteSet(T) /\ Cardinality(T) \in Nat /\ Cardinality(S) \in Nat
         /\ Cardinality(T) <= Cardinality(S) + 1
         /\ T \subseteq S => Cardinality(T) <= Cardinality(S)
  <1>1. IsFiniteSet(S \cup {x}) /\ Cardinality(S \cup {x}) <= Cardinality(S) + 1
    <2>1. /\ IsFiniteSet(S \cup {x})
          /\ Cardinality(S \cup {x}) = IF x \in S THEN Cardinality(S) ELSE Cardinality(S) + 1
      BY FS_AddElement
    <2>2. Cardinality(S) \in Nat
      BY FS_CardinalityType
    <2>3. QED
      BY <2>1, <2>2
  <1>2. IsFiniteSet(T) /\ Cardinality(T) <= Cardinality(S \cup {x})
    BY <1>1, FS_Subset
  <1>3. Cardinality(T) \in Nat /\ Cardinality(S) \in Nat /\ Cardinality(S \cup {x}) \in Nat
    BY <1>1, <1>2, FS_CardinalityType
  <1>4. T \subseteq S => Cardinality(T) <= Cardinality(S)
    BY FS_Subset
  <1>5. QED
    BY <1>1, <1>2, <1>3, <1>4

\* The creations under way, and what they hold, after a step of creation c.
LEMMA CreatorMoves ==
  ASSUME CInv, NEW c \in Creators, NEW pc \in CreatorPcs, NEW v \in Nat, GotoCreator(c, pc, v)
  PROVE  /\ Creating' = IF pc \in {"new", "over"} THEN Creating \ {c} ELSE Creating \cup {c}
         /\ Held' \subseteq Held \cup {v} /\ (pc # "found" => Held' \subseteq Held)
         /\ Held \subseteq Held' \cup {creator[c].version}
         /\ creator[c].pc # "found" => Held \subseteq Held'
         /\ pc = "found" => v \in Held'
  <1>1. /\ creator'[c] = [pc |-> pc, version |-> v]
        /\ \A d \in Creators \ {c} : creator'[d] = creator[d]
    BY CreatorSet
  <1>2. Creating' = IF pc \in {"new", "over"} THEN Creating \ {c} ELSE Creating \cup {c}
    BY <1>1 DEF Creating
  <1>3. QED
    BY <1>1, <1>2 DEF Held, Finders

LEMMA CatalogSold == ASSUME CInv, SoldCount, CatalogNext PROVE SoldCount'
  <1>0. /\ pkgs \in Catalog /\ pkgs.active \subseteq Nat /\ crowded \in Nat /\ lost \in BOOLEAN
        /\ creator \in [Creators -> Creator]
        /\ \A c \in Creators : creator[c].version \in Nat /\ creator[c].pc \in CreatorPcs
    BY DEF CInv, CatalogTypeOK, Catalog, Creator
  <1>1. /\ IsFiniteSet(pkgs.active) /\ IsFiniteSet(Creating) /\ IsFiniteSet(Kept)
        /\ Cardinality(Kept) \in Nat /\ Cardinality(Creating) \in Nat
        /\ Cardinality(Kept) + Cardinality(Creating) <= 1 + crowded
    BY FS_Difference, FS_CardinalityType DEF SoldCount, Kept
  \* No creation holds a package when none is under way.
  <1>2. Creating = {} => Held = {} /\ Kept = pkgs.active /\ Cardinality(Creating) = 0
    BY FS_EmptySet DEF Creating, Held, Finders, Kept
  <1>3. ASSUME NEW c \in Creators, FindActive(c) PROVE SoldCount'
    <2>1. PICK v \in Nat : /\ GotoCreator(c, "found", v)
                           /\ v \in pkgs.active \/ pkgs.active = {}
      BY <1>0, <1>3 DEF FindActive
    <2>2. /\ pkgs' = pkgs /\ lost' = lost /\ creator[c].pc = "new"
          /\ crowded' = IF Creating # {} THEN crowded + 1 ELSE crowded
      BY <1>3 DEF FindActive
    <2>3. /\ Creating' = Creating \cup {c} /\ Held \subseteq Held' /\ v \in Held'
      BY <2>1, <2>2, CreatorMoves DEF CreatorPcs
    <2>4. Kept' \subseteq Kept
      BY <2>2, <2>3 DEF Kept
    <2>5. /\ IsFiniteSet(Creating') /\ Cardinality(Creating') \in Nat
          /\ Cardinality(Creating') <= Cardinality(Creating) + 1
      BY <1>1, <2>3, GainsOne
    <2>6. Cardinality(Kept') \in Nat /\ Cardinality(Kept') <= Cardinality(Kept)
      BY <1>1, <2>4, GainsOne
    <2>7. Cardinality(Kept') + Cardinality(Creating') <= 1 + crowded'
      <3>1. CASE Creating # {}
        BY <1>0, <1>1, <2>2, <2>5, <2>6, <3>1
      <3>2. CASE Creating = {} /\ v \in pkgs.active
        <4>1. Kept' \subseteq Kept \ {v} /\ v \in Kept
          BY <1>2, <2>2, <2>3, <3>2 DEF Kept
        <4>2. IsFiniteSet(Kept \ {v}) /\ Cardinality(Kept \ {v}) = Cardinality(Kept) - 1
          BY <1>1, <4>1, FS_RemoveElement
        <4>3. Cardinality(Kept') <= Cardinality(Kept) - 1
          BY <4>1, <4>2, GainsOne
        <4>4. QED
          BY <1>0, <1>1, <1>2, <2>2, <2>5, <2>6, <3>2, <4>3
      <3>3. CASE Creating = {} /\ pkgs.active = {}
        <4>1. Kept' = {}
          BY <2>2, <3>3 DEF Kept
        <4>2. Cardinality(Kept') = 0
          BY <4>1, FS_EmptySet
        <4>3. QED
          BY <1>0, <1>2, <2>2, <2>5, <3>3, <4>2
      <3>4. QED
        BY <2>1, <3>1, <3>2, <3>3
    <2>8. ~lost' => Replacing'
      <3>1. \A d \in Creators \ {c} : creator'[d] = creator[d]
        BY <2>1, CreatorSet DEF CreatorPcs
      <3>2. QED
        BY <2>2, <3>1 DEF SoldCount, Replacing
    <2>9. QED
      BY <1>1, <2>2, <2>5, <2>7, <2>8 DEF SoldCount
  <1>4. ASSUME NEW c \in Creators, Deactivate(c) PROVE SoldCount'
    <2>1. /\ creator[c].pc = "found" /\ GotoCreator(c, "cleared", 0)
          /\ pkgs'.active = pkgs.active \ {creator[c].version}
          /\ crowded' = crowded /\ lost' = lost
      BY <1>0, <1>4 DEF Deactivate, Catalog
    <2>2. Creating' = Creating /\ Held \subseteq Held' \cup {creator[c].version}
      <3>1. /\ Creating' = Creating \cup {c} /\ Held \subseteq Held' \cup {creator[c].version}
        BY <2>1, CreatorMoves DEF CreatorPcs
      <3>2. QED
        BY <2>1, <3>1 DEF Creating
    <2>3. Kept' \subseteq Kept /\ pkgs'.active \subseteq pkgs.active
      BY <2>1, <2>2 DEF Kept
    <2>4. /\ Cardinality(Kept') \in Nat /\ Cardinality(Kept') <= Cardinality(Kept)
          /\ IsFiniteSet(pkgs'.active)
      BY <1>1, <2>3, GainsOne
    <2>5. creator'[c].pc = "cleared"
      <3>1. creator'[c] = [pc |-> "cleared", version |-> 0]
        BY <2>1, CreatorSet DEF CreatorPcs
      <3>2. QED
        BY <3>1
    <2>6. QED
      BY <1>0, <1>1, <2>1, <2>2, <2>4, <2>5 DEF SoldCount, Replacing
  <1>5. ASSUME NEW c \in Creators, NextVersion(c) PROVE SoldCount'
    <2>1. PICK v \in Nat : GotoCreator(c, "numbered", v)
      BY <1>5, NextIsNatural DEF NextVersion
    <2>2. creator[c].pc = "cleared" /\ UNCHANGED <<pkgs, crowded, lost>>
      BY <1>5 DEF NextVersion
    <2>3. Creating' = Creating /\ Held' = Held
      <3>1. Creating' = Creating \cup {c} /\ Held \subseteq Held' /\ Held' \subseteq Held
        BY <2>1, <2>2, CreatorMoves DEF CreatorPcs
      <3>2. QED
        BY <2>2, <3>1 DEF Creating
    <2>4. creator'[c].pc = "numbered"
      <3>1. creator'[c] = [pc |-> "numbered", version |-> v]
        BY <2>1, CreatorSet DEF CreatorPcs
      <3>2. QED
        BY <3>1
    <2>5. Kept' = Kept
      BY <2>2, <2>3 DEF Kept
    <2>6. QED
      BY <1>1, <2>2, <2>3, <2>4, <2>5 DEF SoldCount, Replacing
  <1>6. ASSUME NEW c \in Creators, CreatePackage(c) PROVE SoldCount'
    <2>1. /\ creator[c].pc = "numbered" /\ GotoCreator(c, "over", 0)
          /\ pkgs'.active = pkgs.active \cup {creator[c].version}
          /\ crowded' = crowded /\ lost' = lost
      BY <1>6 DEF CreatePackage
    <2>2. /\ Creating' = Creating \ {c} /\ Held \subseteq Held' /\ c \in Creating
      <3>1. Creating' = Creating \ {c} /\ Held \subseteq Held'
        BY <2>1, CreatorMoves DEF CreatorPcs
      <3>2. QED
        BY <2>1, <3>1 DEF Creating
    <2>3. IsFiniteSet(Creating') /\ Cardinality(Creating') = Cardinality(Creating) - 1
      BY <1>1, <2>2, FS_RemoveElement
    <2>4. Kept' \subseteq Kept \cup {creator[c].version}
      BY <2>1, <2>2 DEF Kept
    <2>5. Cardinality(Kept') \in Nat /\ Cardinality(Kept') <= Cardinality(Kept) + 1
      BY <1>1, <2>4, GainsOne
    <2>6. IsFiniteSet(pkgs'.active) /\ Replacing'
      BY <1>1, <2>1, GainsOne DEF Replacing
    <2>7. QED
      BY <1>0, <1>1, <2>1, <2>3, <2>5, <2>6 DEF SoldCount
  <1>7. ASSUME NEW c \in Creators, FailCreate(c) PROVE SoldCount'
    <2>1. /\ c \in Creating /\ GotoCreator(c, "over", 0) /\ pkgs' = pkgs /\ crowded' = crowded
          /\ lost' = (lost \/ creator[c].pc # "found")
      BY <1>7 DEF FailCreate
    <2>2. Creating' = Creating \ {c} /\ Held \subseteq Held' \cup {creator[c].version}
      BY <2>1, CreatorMoves DEF CreatorPcs
    <2>3. IsFiniteSet(Creating') /\ Cardinality(Creating') = Cardinality(Creating) - 1
      BY <1>1, <2>1, <2>2, FS_RemoveElement
    <2>4. Kept' \subseteq Kept \cup {creator[c].version}
      BY <2>1, <2>2 DEF Kept
    <2>5. Cardinality(Kept') \in Nat /\ Cardinality(Kept') <= Cardinality(Kept) + 1
      BY <1>1, <2>4, GainsOne
    <2>6. ~lost' => Replacing'
      <3>1. \A d \in Creators \ {c} : creator'[d] = creator[d]
        BY <2>1, CreatorSet DEF CreatorPcs
      <3>2. QED
        BY <2>1, <3>1 DEF SoldCount, Replacing
    <2>7. QED
      BY <1>0, <1>1, <2>1, <2>3, <2>5, <2>6 DEF SoldCount
  <1>8. CASE EditPackage
    <2>1. PICK v \in pkgs.versions :
            pkgs'.active \subseteq pkgs.active \/ pkgs'.active = pkgs.active \cup {v}
      BY <1>0, <1>8 DEF EditPackage, Catalog
    <2>2. /\ creator' = creator
          /\ lost' = (lost \/ ~(pkgs.active \subseteq pkgs'.active))
          /\ crowded' = IF pkgs'.active \subseteq pkgs.active \/ (pkgs.active = {} /\ Creating = {})
                        THEN crowded ELSE crowded + 1
      BY <1>8 DEF EditPackage
    <2>3. Creating' = Creating /\ Held' = Held
      BY <2>2 DEF Creating, Held, Finders
    <2>4. Kept' \subseteq Kept \cup {v} /\ (pkgs'.active \subseteq pkgs.active => Kept' \subseteq Kept)
      BY <2>1, <2>3 DEF Kept
    <2>5. /\ Cardinality(Kept') \in Nat /\ Cardinality(Kept') <= Cardinality(Kept) + 1
          /\ pkgs'.active \subseteq pkgs.active => Cardinality(Kept') <= Cardinality(Kept)
      BY <1>1, <2>4, GainsOne
    <2>6. IsFiniteSet(pkgs'.active)
      BY <1>1, <2>1, GainsOne
    <2>7. Cardinality(Kept') + Cardinality(Creating') <= 1 + crowded'
      <3>1. CASE pkgs.active = {} /\ Creating = {}
        <4>1. Cardinality(Kept) = 0 /\ Cardinality(Creating) = 0
          BY <1>2, <3>1, FS_EmptySet
        <4>2. QED
          BY <1>0, <2>2, <2>3, <2>5, <3>1, <4>1
      <3>2. CASE ~(pkgs.active = {} /\ Creating = {})
        BY <1>0, <1>1, <2>2, <2>3, <2>5, <3>2
      <3>3. QED
        BY <3>1, <3>2
    <2>8. ~lost' => Replacing'
      BY <2>2 DEF SoldCount, Replacing
    <2>9. QED
      BY <1>1, <2>3, <2>6, <2>7, <2>8 DEF SoldCount
  <1>9. QED
    BY <1>3, <1>4, <1>5, <1>6, <1>7, <1>8 DEF CatalogNext

\* Each package on sale is held by a creation of its own, or is one of those nobody holds.
LEMMA SoldIsOne == ASSUME CInv, SoldCount PROVE OneOnSale
  <1> DEFINE f == [c \in Finders |-> creator[c].version]
  <1>1. IsFiniteSet(Finders) /\ Cardinality(Finders) <= Cardinality(Creating)
    <2>1. Finders \subseteq Creating
      BY DEF Finders, Creating
    <2>2. QED
      BY <2>1, FS_Subset DEF SoldCount
  <1>2. f \in Surjection(Finders, Held)
    BY DEF Surjection, Held
  <1>3. IsFiniteSet(Held) /\ Cardinality(Held) <= Cardinality(Finders)
    BY <1>1, <1>2, FS_Surjection
  <1>4. IsFiniteSet(Kept)
    BY FS_Difference DEF SoldCount, Kept
  <1>5. /\ IsFiniteSet(Kept \cup Held)
        /\ Cardinality(Kept \cup Held) = Cardinality(Kept) + Cardinality(Held) - Cardinality(Kept \cap Held)
    BY <1>3, <1>4, FS_Union
  <1>6. Cardinality(pkgs.active) <= Cardinality(Kept \cup Held)
    <2>1. pkgs.active \subseteq Kept \cup Held
      BY DEF Kept
    <2>2. QED
      BY <1>5, <2>1, FS_Subset
  <1>7. IsFiniteSet(Kept \cap Held)
    BY <1>4, FS_Intersection
  <1>8. /\ Cardinality(Kept) \in Nat /\ Cardinality(Held) \in Nat /\ Cardinality(Kept \cap Held) \in Nat
        /\ Cardinality(Kept \cup Held) \in Nat /\ Cardinality(pkgs.active) \in Nat
        /\ Cardinality(Finders) \in Nat /\ Cardinality(Creating) \in Nat /\ crowded \in Nat
    BY <1>1, <1>3, <1>4, <1>5, <1>7, FS_CardinalityType DEF SoldCount, CInv, CatalogTypeOK
  <1>9. Cardinality(pkgs.active) <= 1 + crowded
    BY <1>1, <1>3, <1>5, <1>6, <1>8 DEF SoldCount
  <1>10. QED
    BY <1>9 DEF OneOnSale, SoldCount, Replacing

-----------------------------------------------------------------------------
(***************************************************************************)
(* The tables.  A request that changes a status has found a developer,     *)
(* which stays, and has read its status.                                   *)
(***************************************************************************)
RowsTyped ==
  /\ app \in [Emails -> AppRow]
  /\ dev \in [Emails -> DevRow \cup {NoDev}]
  /\ owner \subseteq Emails /\ trial \subseteq Emails /\ apps \subseteq Emails
  /\ audit \in Seq(AuditRow)

Based(r) ==
  /\ r.op \in StatusOps \cup KybOps => Exists(r.email)
  /\ r.op \in StatusOps => r.read \in Statuses

HistoriesTyped ==
  met \in [Emails -> Nat] /\ crossed \subseteq Emails /\ unlogged \subseteq Emails

OInv == TypeOK /\ Bounded /\ \A p \in Procs : Based(proc[p])

\* A step of request p that sets its record.
Moves(p, r) ==
  /\ proc' \in [Procs -> Proc]
  /\ proc'[p] = r
  /\ \A q \in Procs \ {p} : proc'[q] = proc[q]

LEMMA RowsOfOInv == ASSUME OInv PROVE RowsTyped /\ HistoriesTyped /\ proc \in [Procs -> Proc] /\ CInv
  BY DEF OInv, TypeOK, RowsTyped, HistoriesTyped, CInv

LEMMA GotoMoves ==
  ASSUME OInv, NEW p \in Procs, NEW pc \in {"written", "created", "done"}, Goto(p, pc)
  PROVE  Moves(p, [pc |-> pc, op |-> proc[p].op, email |-> proc[p].email, read |-> proc[p].read])
  <1>1. [proc[p] EXCEPT !.pc = pc] =
          [pc |-> pc, op |-> proc[p].op, email |-> proc[p].email, read |-> proc[p].read]
    BY RowsOfOInv DEF Proc
  <1>2. [pc |-> pc, op |-> proc[p].op, email |-> proc[p].email, read |-> proc[p].read] \in Proc
    BY RowsOfOInv DEF Proc
  <1>3. QED
    BY <1>1, <1>2, RowsOfOInv DEF Goto, Moves

LEMMA BeginMoves ==
  ASSUME OInv, NEW p \in Procs, NEW op \in Ops, NEW read \in Statuses \cup {"none"}, Begin(p, op, read)
  PROVE  /\ Moves(p, [pc |-> "checked", op |-> op, email |-> proc[p].email, read |-> read])
         /\ UNCHANGED rows /\ proc[p].pc = "new"
  <1>0. proc[p] \in Proc /\ DOMAIN proc[p] = {"pc", "op", "email", "read"}
    BY RowsOfOInv DEF Proc
  <1>1. [proc[p] EXCEPT !.pc = "checked", !.op = op, !.read = read] =
          [pc |-> "checked", op |-> op, email |-> proc[p].email, read |-> read]
    <2> DEFINE r == [proc[p] EXCEPT !.pc = "checked", !.op = op, !.read = read]
               s == [pc |-> "checked", op |-> op, email |-> proc[p].email, read |-> read]
    <2>1. r \in Proc /\ s \in Proc
      BY <1>0, Zenon DEF Proc
    <2>2. r.pc = s.pc /\ r.op = s.op /\ r.email = s.email /\ r.read = s.read
      BY <1>0
    <2>3. QED
      BY <2>1, <2>2 DEF Proc
  <1>2. [pc |-> "checked", op |-> op, email |-> proc[p].email, read |-> read] \in Proc
    BY <1>0 DEF Proc
  <1>3. proc' = [proc EXCEPT ![p] = [proc[p] EXCEPT !.pc = "checked", !.op = op, !.read = read]]
    BY RowsOfOInv DEF Begin
  <1>4. QED
    BY <1>1, <1>2, <1>3, RowsOfOInv DEF Begin, Moves

\* A step of one request keeps the invariant when the tables keep their types and developers.
LEMMA MovesOInv ==
  ASSUME OInv, NEW p \in Procs, NEW r, Moves(p, r), RowsTyped', HistoriesTyped',
         UNCHANGED catalogVars, \A e \in Emails : Exists(e) => Exists(e)',
         r.email = proc[p].email, Based(r)
  PROVE  OInv'
  <1>1. TypeOK' /\ Bounded'
    BY DEF OInv, TypeOK, RowsTyped, HistoriesTyped, Moves, CatalogTypeOK, Bounded, catalogVars
  <1>2. ASSUME NEW q \in Procs PROVE Based(proc[q])'
    <2>1. PICK e \in Emails : e = proc'[q].email
      BY DEF Moves, Proc
    <2>2. Based(proc'[q])
      BY DEF Moves, OInv
    <2>3. proc'[q].op \in StatusOps \cup KybOps => Exists(e)'
      BY <2>1, <2>2 DEF Based
    <2>4. QED
      BY <2>1, <2>2, <2>3 DEF Based, Exists
  <1>3. QED
    BY <1>1, <1>2 DEF OInv

(***************************************************************************)
(* What a step of a request does: it keeps its e-mail, and either begins,  *)
(* a review on a pending application, or goes on from where it was.        *)
(***************************************************************************)
Began(p, r) ==
  /\ proc[p].pc = "new" /\ r.pc = "checked" /\ UNCHANGED rows
  /\ r.op \in ReviewOps => app[r.email].status = "pending"

Went(p, r) ==
  /\ proc[p].pc \notin {"new", "done"} /\ r.pc \notin {"new", "checked"} /\ r.op = proc[p].op
  /\ \/ app' = app
     \/ app' = [app EXCEPT ![r.email] = [status |-> "approved", linked |-> TRUE]]
     \/ /\ At(p, "reject", "checked")
        /\ app' = [app EXCEPT ![r.email].status = "rejected"]

Effect(p) ==
  /\ RowsTyped'
  /\ \A e \in Emails : Exists(e) => Exists(e)'
  /\ \E r \in Proc : Moves(p, r) /\ r.email = proc[p].email /\ Based(r) /\ (Began(p, r) \/ Went(p, r))

LEMMA OpsKnown == Ops \subseteq ReviewOps \cup StatusOps \cup KybOps \cup OwnerOps
  BY OpsAssumption

\* A request that begins has the effect when what it read makes its record based.
LEMMA BeginEffect ==
  ASSUME OInv, NEW p \in Procs, NEW op \in Ops, NEW read \in Statuses \cup {"none"}, Begin(p, op, read),
         op \in StatusOps \cup KybOps => Exists(proc[p].email),
         op \in StatusOps => read \in Statuses,
         op \in ReviewOps => app[proc[p].email].status = "pending"
  PROVE  Effect(p)
  <1> DEFINE r == [pc |-> "checked", op |-> op, email |-> proc[p].email, read |-> read]
  <1>1. Moves(p, r) /\ UNCHANGED rows /\ proc[p].pc = "new"
    BY BeginMoves
  <1>2. r \in Proc
    BY RowsOfOInv DEF Proc
  <1>3. RowsTyped' /\ \A e \in Emails : Exists(e) => Exists(e)'
    BY <1>1, RowsOfOInv DEF RowsTyped, rows, Exists
  <1>4. Based(r) /\ Began(p, r)
    BY <1>1 DEF Based, Began, rows
  <1>5. QED
    BY <1>1, <1>2, <1>3, <1>4 DEF Effect

\* A request that goes on has it when the tables keep their types and developers.
LEMMA GotoEffect ==
  ASSUME OInv, NEW p \in Procs, NEW pc \in {"written", "created", "done"}, Goto(p, pc),
         proc[p].pc \notin {"new", "done"}, RowsTyped', \A e \in Emails : Exists(e) => Exists(e)',
         NEW e \in Emails, e = proc[p].email,
         \/ app' = app
         \/ app' = [app EXCEPT ![e] = [status |-> "approved", linked |-> TRUE]]
         \/ At(p, "reject", "checked") /\ app' = [app EXCEPT ![e].status = "rejected"]
  PROVE  Effect(p)
  <1> DEFINE r == [pc |-> pc, op |-> proc[p].op, email |-> proc[p].email, read |-> proc[p].read]
  <1>1. Moves(p, r)
    BY GotoMoves
  <1>2. r \in Proc
    BY RowsOfOInv DEF Proc
  <1>3. Based(r)
    <2>1. Based(proc[p])
      BY DEF OInv
    <2>2. QED
      BY <2>1 DEF Based
  <1>4. Went(p, r)
    BY DEF Went
  <1>5. QED
    BY <1>1, <1>2, <1>3, <1>4 DEF Effect

LEMMA StatusKnown ==
  /\ \A op \in StatusOps \cup KybOps : NewStatus[op] \in Statuses
  /\ \A op \in KybOps : NewKyb[op] \in KybStatuses
  BY DEF StatusOps, KybOps, NewStatus, NewKyb, Statuses, KybStatuses

\* A developer that is there is a row, and a changed row is one.
LEMMA DevRows ==
  ASSUME OInv, NEW e \in Emails
  PROVE  /\ Exists(e) <=> dev[e] \in DevRow
         /\ Exists(e) => dev[e].status \in Statuses
  <1>1. dev[e] \in DevRow \cup {NoDev}
    BY RowsOfOInv DEF RowsTyped
  <1>2. NoDev \notin DevRow
    BY DEF NoDev, DevRow, Statuses
  <1>3. QED
    BY <1>1, <1>2 DEF Exists, DevRow

LEMMA NewRow ==
  ASSUME OInv, NEW e \in Emails, NEW row \in DevRow, dev' = [dev EXCEPT ![e] = row]
  PROVE  /\ dev' \in [Emails -> DevRow \cup {NoDev}]
         /\ \A x \in Emails : Exists(x) => Exists(x)'
  <1>1. dev \in [Emails -> DevRow \cup {NoDev}]
    BY RowsOfOInv DEF RowsTyped
  <1>2. row # NoDev
    BY DEF NoDev, DevRow, Statuses
  <1>3. QED
    BY <1>1, <1>2 DEF Exists

LEMMA AppendsRow ==
  ASSUME OInv, NEW row \in AuditRow, Log(row)
  PROVE  audit' \in Seq(AuditRow)
  <1>1. audit \in Seq(AuditRow)
    BY RowsOfOInv DEF RowsTyped
  <1>2. QED
    BY <1>1, AppendProperties DEF Log

LEMMA StepEffect == ASSUME OInv, NEW p \in Procs, Step(p) PROVE Effect(p)
  <1> DEFINE e == proc[p].email
  <1>0. /\ RowsTyped /\ proc \in [Procs -> Proc] /\ proc[p] \in Proc /\ e \in Emails
        /\ proc[p].op \in Ops \cup {"none"} /\ Based(proc[p])
    BY RowsOfOInv DEF Proc, OInv
  <1>1. ASSUME NEW op \in ReviewOps, BeginReview(p, op) PROVE Effect(p)
    <2>1. op \notin StatusOps \cup KybOps
      BY DEF ReviewOps, StatusOps, KybOps
    <2>2. QED
      BY <1>1, <2>1, BeginEffect DEF BeginReview
  <1>2. ASSUME NEW op \in StatusOps, BeginStatus(p, op) PROVE Effect(p)
    <2>1. op \notin ReviewOps /\ Exists(e) /\ dev[e].status \in Statuses
      BY <1>0, <1>2, DevRows DEF BeginStatus, ReviewOps, StatusOps
    <2>2. QED
      BY <1>2, <2>1, BeginEffect DEF BeginStatus
  <1>3. ASSUME NEW op \in KybOps, BeginKyb(p, op) PROVE Effect(p)
    <2>1. op \notin ReviewOps /\ Exists(e) /\ dev[e].status \in Statuses
      BY <1>0, <1>3, DevRows DEF BeginKyb, ReviewOps, KybOps
    <2>2. QED
      BY <1>3, <2>1, BeginEffect DEF BeginKyb
  <1>4. CASE BeginRegister(p) \/ BeginCreateApp(p)
    <2>1. \A op \in OwnerOps : op \notin ReviewOps \cup StatusOps \cup KybOps
      BY DEF OwnerOps, ReviewOps, StatusOps, KybOps
    <2>2. {"register", "createApp"} \subseteq OwnerOps
      BY DEF OwnerOps
    <2>3. QED
      BY <1>4, <2>1, <2>2, BeginEffect DEF BeginRegister, BeginCreateApp
  <1>5. CASE Approve(p)
    <2>1. CASE Exists(e) /\ UNCHANGED rows
      <3>1. RowsTyped' /\ (\A x \in Emails : Exists(x) => Exists(x)') /\ app' = app
        BY <1>0, <2>1 DEF rows, RowsTyped, Exists
      <3>2. QED
        BY <1>0, <1>5, <3>1, GotoEffect DEF Approve, At
    <2>2. CASE ~(Exists(e) /\ UNCHANGED rows)
      <3> DEFINE row == [of |-> e, action |-> "approve", previous |-> "pending", new |-> "approved"]
                 new == [status |-> "approved", linked |-> TRUE]
      <3>1. /\ NewDev(e, "approved", "application") /\ app' = [app EXCEPT ![e] = new] /\ Log(row)
            /\ trial' = IF pkgs.active # {} THEN trial \cup {e} ELSE trial
            /\ UNCHANGED <<owner, apps>>
        BY <1>5, <2>2 DEF Approve
      <3>2. row \in AuditRow /\ new \in AppRow
        BY <1>0 DEF AuditRow, ReviewOps, AppRow
      <3>3. [kyb |-> "approved", status |-> "active", origin |-> "application"] \in DevRow
        BY DEF DevRow, KybStatuses, Statuses
      <3>4. /\ dev' \in [Emails -> DevRow \cup {NoDev}]
            /\ \A x \in Emails : Exists(x) => Exists(x)'
        BY <1>0, <3>1, <3>3, NewRow DEF NewDev
      <3>5. audit' \in Seq(AuditRow)
        BY <3>1, <3>2, AppendsRow
      <3>6. RowsTyped'
        BY <1>0, <3>1, <3>2, <3>4, <3>5 DEF RowsTyped
      <3>7. QED
        BY <1>0, <1>5, <3>1, <3>4, <3>6, GotoEffect DEF Approve, At
    <2>3. QED
      BY <2>1, <2>2
  <1>6. CASE Reject(p)
    <2>1. app' \in [Emails -> AppRow]
      BY <1>0, <1>6 DEF Reject, RowsTyped, AppRow
    <2>2. RowsTyped' /\ \A x \in Emails : Exists(x) => Exists(x)'
      BY <1>0, <1>6, <2>1 DEF Reject, RowsTyped, Exists
    <2>3. QED
      BY <1>0, <1>6, <2>2, GotoEffect DEF Reject, At
  <1>7. CASE RejectLog(p)
    <2> DEFINE row == [of |-> e, action |-> "reject", previous |-> "pending", new |-> "rejected"]
    <2>1. row \in AuditRow
      BY <1>0 DEF AuditRow, ReviewOps
    <2>2. audit' \in Seq(AuditRow)
      BY <1>7, <2>1, AppendsRow DEF RejectLog
    <2>3. RowsTyped' /\ \A x \in Emails : Exists(x) => Exists(x)'
      BY <1>0, <1>7, <2>2 DEF RejectLog, RowsTyped, Exists
    <2>4. QED
      BY <1>0, <1>7, <2>3, GotoEffect DEF RejectLog, At
  <1>8. CASE WriteStatus(p)
    <2>1. Exists(e) /\ NewStatus[proc[p].op] \in Statuses
      BY <1>0, <1>8, StatusKnown DEF WriteStatus, Based
    <2>2. PICK row \in DevRow : dev' = [dev EXCEPT ![e] = row]
      <3>1. [dev[e] EXCEPT !.status = NewStatus[proc[p].op]] \in DevRow
        BY <1>0, <2>1, DevRows DEF DevRow
      <3>2. QED
        BY <1>8, <3>1 DEF WriteStatus, SetStatus
    <2>3. RowsTyped' /\ \A x \in Emails : Exists(x) => Exists(x)'
      BY <1>0, <1>8, <2>2, NewRow DEF WriteStatus, RowsTyped
    <2>4. QED
      BY <1>0, <1>8, <2>3, GotoEffect DEF WriteStatus
  <1>9. CASE LogStatus(p)
    <2> DEFINE row == [of |-> e, action |-> proc[p].op, previous |-> proc[p].read,
                       new |-> NewStatus[proc[p].op]]
    <2>1. proc[p].op \in StatusOps /\ proc[p].read \in Statuses /\ NewStatus[proc[p].op] \in Statuses
      BY <1>0, <1>9, StatusKnown DEF LogStatus, Based
    <2>2. row \in AuditRow
      BY <1>0, <2>1 DEF AuditRow
    <2>3. audit' \in Seq(AuditRow)
      BY <1>9, <2>2, AppendsRow DEF LogStatus
    <2>4. RowsTyped' /\ \A x \in Emails : Exists(x) => Exists(x)'
      BY <1>0, <1>9, <2>3 DEF LogStatus, RowsTyped, Exists
    <2>5. QED
      BY <1>0, <1>9, <2>4, GotoEffect DEF LogStatus
  <1>10. CASE WriteKyb(p)
    <2>1. Exists(e) /\ NewStatus[proc[p].op] \in Statuses /\ NewKyb[proc[p].op] \in KybStatuses
      BY <1>0, <1>10, StatusKnown DEF WriteKyb, Based
    <2>2. PICK row \in DevRow : dev' = [dev EXCEPT ![e] = row]
      <3> DEFINE row == [[dev[e] EXCEPT !.status = NewStatus[proc[p].op]]
                           EXCEPT !.kyb = NewKyb[proc[p].op]]
      <3>1. row \in DevRow
        BY <1>0, <2>1, DevRows DEF DevRow
      <3>2. dev' = [dev EXCEPT ![e] = row]
        BY <1>0, <1>10 DEF WriteKyb, RowsTyped
      <3>3. QED
        BY <3>1, <3>2
    <2>3. RowsTyped' /\ \A x \in Emails : Exists(x) => Exists(x)'
      BY <1>0, <1>10, <2>2, NewRow DEF WriteKyb, RowsTyped
    <2>4. QED
      BY <1>0, <1>10, <2>3, GotoEffect DEF WriteKyb
  <1>11. CASE CreateIsv(p)
    <2>1. CASE Goto(p, "done") /\ UNCHANGED rows
      <3>1. RowsTyped' /\ (\A x \in Emails : Exists(x) => Exists(x)') /\ app' = app
        BY <1>0, <2>1 DEF rows, RowsTyped, Exists
      <3>2. QED
        BY <1>0, <1>11, <2>1, <3>1, GotoEffect DEF CreateIsv, At
    <2>2. CASE /\ Goto(p, "created") /\ NewDev(e, "pending", "registration")
               /\ UNCHANGED <<app, owner, trial, apps, audit>>
      <3>1. [kyb |-> "pending", status |-> "active", origin |-> "registration"] \in DevRow
        BY DEF DevRow, KybStatuses, Statuses
      <3>2. RowsTyped' /\ \A x \in Emails : Exists(x) => Exists(x)'
        BY <1>0, <2>2, <3>1, NewRow DEF NewDev, RowsTyped
      <3>3. QED
        BY <1>0, <1>11, <2>2, <3>2, GotoEffect DEF CreateIsv, At
    <2>3. QED
      BY <1>11, <2>1, <2>2 DEF CreateIsv
  <1>12. CASE CreateOwner(p) \/ CreateApp(p)
    <2>1. RowsTyped' /\ (\A x \in Emails : Exists(x) => Exists(x)') /\ app' = app
      BY <1>0, <1>12 DEF CreateOwner, CreateApp, RowsTyped, Exists
    <2>2. QED
      BY <1>0, <1>12, <2>1, GotoEffect DEF CreateOwner, CreateApp, At
  <1>13. CASE Fail(p)
    <2>1. RowsTyped' /\ (\A x \in Emails : Exists(x) => Exists(x)') /\ app' = app
      BY <1>0, <1>13 DEF Fail, rows, RowsTyped, Exists
    <2>2. QED
      BY <1>0, <1>13, <2>1, GotoEffect DEF Fail, Open
  <1>14. QED
    BY <1>1, <1>2, <1>3, <1>4, <1>5, <1>6, <1>7, <1>8, <1>9, <1>10, <1>11, <1>12, <1>13 DEF Step

-----------------------------------------------------------------------------
LEMMA InitOInv == Init => OInv
  <1> SUFFICES ASSUME Init PROVE OInv
    OBVIOUS
  <1>1. CInv
    BY InitCInv DEF Init
  <1>2. RowsTyped /\ HistoriesTyped
    BY DEF Init, RowsTyped, HistoriesTyped, AppRow
  <1>3. proc \in [Procs -> Proc] /\ \A p \in Procs : proc[p].op = "none"
    BY DEF Init, Proc
  <1>4. \A p \in Procs : Based(proc[p])
    BY <1>3 DEF Based, StatusOps, KybOps
  <1>5. QED
    BY <1>1, <1>2, <1>3, <1>4 DEF OInv, CInv, TypeOK, RowsTyped, HistoriesTyped

\* A step of a request, and a step of the catalogue.
RequestStep(p) == Step(p) /\ Note(p) /\ UNCHANGED catalogVars
CatalogStep == CatalogNext /\ UNCHANGED <<rows, proc, histories>>

LEMMA NextSteps == Next <=> (\E p \in Procs : RequestStep(p)) \/ CatalogStep
  BY DEF Next, RequestStep, CatalogStep

LEMMA NextOInv == ASSUME OInv, [Next]_vars PROVE OInv'
  <1>1. ASSUME NEW p \in Procs, RequestStep(p) PROVE OInv'
    <2>1. Effect(p)
      BY <1>1, StepEffect DEF RequestStep
    <2>2. PICK r \in Proc : Moves(p, r) /\ r.email = proc[p].email /\ Based(r)
      BY <2>1 DEF Effect
    <2>3. proc[p].email \in Emails
      BY RowsOfOInv DEF Proc
    <2>4. HistoriesTyped' /\ UNCHANGED catalogVars
      BY <1>1, <2>3, RowsOfOInv DEF RequestStep, Note, HistoriesTyped
    <2>5. QED
      BY <2>1, <2>2, <2>4, MovesOInv DEF Effect
  <1>2. CASE CatalogStep
    <2>1. CInv'
      BY <1>2, RowsOfOInv, NextCInv DEF CatalogStep
    <2>2. QED
      BY <1>2, <2>1 DEF CatalogStep, rows, histories, OInv, TypeOK, CInv, Based, Exists
  <1>3. CASE UNCHANGED vars
    BY <1>3 DEF vars, rows, catalogVars, OInv, TypeOK, CatalogTypeOK, Bounded, Based, Exists
  <1>4. QED
    BY <1>1, <1>2, <1>3, NextSteps

LEMMA SpecOInv == Spec => []OInv
  BY InitOInv, NextOInv, PTL DEF Spec

(***************************************************************************)
(* The tables of the onboarding keep their types whatever the handlers     *)
(* interleave or leave undone: no status is ever written or logged that    *)
(* the tables do not know, and no status request works on a missing row.   *)
(***************************************************************************)
THEOREM OnboardingTypeCorrect == Spec => []TypeOK
  <1>1. OInv => TypeOK
    BY DEF OInv
  <1>2. QED
    BY <1>1, SpecOInv, PTL

(***************************************************************************)
(* There is a package on sale, or a creation that replaces it, until one   *)
(* fails or an edit takes the package; and there is one, plus at most one  *)
(* for each creation or edit that came beside another, for any number of   *)
(* creations that meet and fail (controllers/admin/package.controller.ts). *)
(***************************************************************************)
THEOREM OnePackageOnSale == Spec => []OneOnSale
  <1>1. ASSUME Init PROVE SoldCount
    <2>1. /\ pkgs.active = {1} /\ Creating = {} /\ Finders = {} /\ crowded = 0
      BY <1>1 DEF Init, InitCatalog, Creating, Finders
    <2>2. Kept = {1}
      BY <2>1 DEF Kept, Held
    <2>3. /\ IsFiniteSet({1}) /\ Cardinality({1}) = 1
          /\ IsFiniteSet(Creating) /\ Cardinality(Creating) = 0
      BY <2>1, FS_Singleton, FS_EmptySet
    <2>4. QED
      BY <2>1, <2>2, <2>3 DEF SoldCount, Replacing
  <1>2. ASSUME OInv, SoldCount, [Next]_vars PROVE SoldCount'
    <2>1. CASE UNCHANGED catalogVars
      BY <1>2, <2>1 DEF catalogVars, SoldCount, Creating, Kept, Held, Finders, Replacing
    <2>2. CASE CatalogNext
      BY <1>2, <2>2, RowsOfOInv, CatalogSold
    <2>3. QED
      BY <1>2, <2>1, <2>2 DEF Next, vars
  <1>3. OInv /\ SoldCount => OneOnSale
    BY RowsOfOInv, SoldIsOne
  <1>4. QED
    BY <1>1, <1>2, <1>3, SpecOInv, PTL DEF Spec

-----------------------------------------------------------------------------
(***************************************************************************)
(* What appending a row to the audit log changes: nothing that the log     *)
(* told before, and the last status of the e-mail of the row.              *)
(***************************************************************************)
LEMMA GreatestIsMax ==
  ASSUME NEW S, S \subseteq Nat, NEW n \in S, \A v \in S : v <= n
  PROVE  Max(S) = n
  <1>1. Max(S) \in S /\ \A v \in S : Max(S) >= v
    <2>1. n \in S /\ \A v \in S : n >= v
      OBVIOUS
    <2>2. QED
      BY <2>1 DEF Max
  <1>2. Max(S) \in Nat /\ n \in Nat /\ Max(S) >= n /\ Max(S) <= n
    BY <1>1
  <1>3. QED
    BY <1>2

LEMMA RowsAppended ==
  ASSUME NEW log \in Seq(AuditRow), NEW row \in AuditRow, NEW e, NEW A
  PROVE  /\ Len(log) \in Nat /\ RowsOf(log, e, A) \subseteq 1..Len(log)
         /\ Len(Append(log, row)) = Len(log) + 1
         /\ Append(log, row)[Len(log) + 1] = row
         /\ \A i \in 1..Len(log) : Append(log, row)[i] = log[i]
         /\ RowsOf(Append(log, row), e, A) =
              RowsOf(log, e, A) \cup (IF row.of = e /\ row.action \in A THEN {Len(log) + 1} ELSE {})
  <1> DEFINE n == Len(log)
             new == Append(log, row)
  <1>1. /\ n \in Nat /\ DOMAIN log = 1..n /\ DOMAIN new = 1..(n + 1) /\ Len(new) = n + 1
        /\ new[n + 1] = row /\ \A i \in 1..n : new[i] = log[i]
    BY AppendProperties, LenProperties
  <1> HIDE DEF new, n
  <1>2. \A i \in 1..(n + 1) : i \in 1..n \/ i = n + 1
    BY <1>1
  <1>3. n + 1 \notin 1..n /\ 1..n \subseteq 1..(n + 1) /\ n + 1 \in 1..(n + 1)
    BY <1>1
  <1>4. RowsOf(log, e, A) \subseteq 1..n
    BY <1>1 DEF RowsOf
  <1>5. RowsOf(new, e, A) =
          RowsOf(log, e, A) \cup (IF row.of = e /\ row.action \in A THEN {n + 1} ELSE {})
    BY <1>1, <1>2, <1>3, <1>4, Zenon DEF RowsOf
  <1>6. QED
    BY <1>1, <1>4, <1>5 DEF new, n

LEMMA StatusAppended ==
  ASSUME NEW log \in Seq(AuditRow), NEW row \in AuditRow, NEW e
  PROVE  /\ \A i \in 1..(Len(log) + 1) : StatusAt(Append(log, row), e, i) = StatusAt(log, e, i)
         /\ StatusAt(Append(log, row), e, Len(log) + 2) =
              IF row.of = e /\ row.action \in StatusOps THEN row.new
              ELSE StatusAt(log, e, Len(log) + 1)
  <1> DEFINE n == Len(log)
             new == Append(log, row)
             Told(g, i) == {j \in RowsOf(g, e, StatusOps) : j < i}
             here == row.of = e /\ row.action \in StatusOps
  <1>1. /\ n \in Nat /\ RowsOf(log, e, StatusOps) \subseteq 1..n
        /\ new[n + 1] = row /\ \A i \in 1..n : new[i] = log[i]
        /\ RowsOf(new, e, StatusOps) = RowsOf(log, e, StatusOps) \cup (IF here THEN {n + 1} ELSE {})
    BY RowsAppended
  <1>2. \A g, i : StatusAt(g, e, i) = IF Told(g, i) = {} THEN "active" ELSE g[Max(Told(g, i))].new
    BY DEF StatusAt
  <1>3. ASSUME NEW i, NEW k, Told(new, i) = Told(log, k)
        PROVE  StatusAt(new, e, i) = StatusAt(log, e, k)
    <2>1. CASE Told(log, k) = {}
      BY <1>2, <1>3, <2>1
    <2>2. CASE Told(log, k) # {}
      <3>1. Told(log, k) \subseteq 1..n
        BY <1>1
      <3>2. Max(Told(log, k)) \in Told(log, k)
        <4> DEFINE S == Told(log, k)
        <4>1. S \subseteq Nat /\ S # {} /\ \A v \in S : v <= n
          BY <1>1, <2>2, <3>1
        <4> HIDE DEF S
        <4>2. Max(S) \in S
          BY <1>1, <4>1, MaxIsNatural
        <4>3. QED
          BY <4>2 DEF S
      <3>3. new[Max(Told(log, k))] = log[Max(Told(log, k))]
        BY <1>1, <3>1, <3>2
      <3> HIDE DEF Told, new
      <3>4. QED
        BY <1>2, <1>3, <2>2, <3>3
    <2>3. QED
      BY <2>1, <2>2
  <1>4. ASSUME NEW i \in 1..(n + 1) PROVE StatusAt(new, e, i) = StatusAt(log, e, i)
    <2>1. Told(new, i) = Told(log, i)
      BY <1>1
    <2>2. QED
      BY <1>3, <2>1
  <1>5. CASE here
    <2> DEFINE S == Told(new, n + 2)
    <2>1. S \subseteq Nat /\ n + 1 \in S /\ \A v \in S : v <= n + 1
      BY <1>1, <1>5
    <2>2. Max(S) = n + 1
      <3> HIDE DEF S
      <3>1. QED
        BY <1>1, <2>1, GreatestIsMax
    <2>3. StatusAt(new, e, n + 2) = row.new
      <3>1. StatusAt(new, e, n + 2) = IF S = {} THEN "active" ELSE new[Max(S)].new
        BY <1>2
      <3> HIDE DEF S, new
      <3>2. QED
        BY <1>1, <2>1, <2>2, <3>1
    <2>4. QED
      BY <1>4, <1>5, <2>3
  <1>6. CASE ~here
    <2>1. Told(new, n + 2) = Told(log, n + 1)
      BY <1>1, <1>6
    <2>2. QED
      BY <1>3, <1>4, <1>6, <2>1
  <1>7. QED
    BY <1>5, <1>6

-----------------------------------------------------------------------------
(***************************************************************************)
(* The approval of an application.  The developer of an application, the   *)
(* link to it and the audit row come to be in one step, and no other step  *)
(* makes or unmakes one of them.                                           *)
(***************************************************************************)
Atomic(e) ==
  /\ app[e].linked <=> dev[e].origin = "application"
  /\ app[e].linked => \E i : RowsOf(audit, e, {"approve"}) = {i}
  /\ ~app[e].linked => RowsOf(audit, e, {"approve"}) = {}
  /\ e \in trial => app[e].linked

\* A step that leaves the developers and the log alone.
Quiet ==
  /\ UNCHANGED <<dev, audit, trial>>
  /\ app' = app \/ \E e \in Emails : app' = [app EXCEPT ![e].status = "rejected"]

Births(p) ==
  LET e == proc[p].email IN
  /\ ~Exists(e)
  /\ NewDev(e, "approved", "application")
  /\ app' = [app EXCEPT ![e] = [status |-> "approved", linked |-> TRUE]]
  /\ Log([of |-> e, action |-> "approve", previous |-> "pending", new |-> "approved"])
  /\ trial' = IF pkgs.active # {} THEN trial \cup {e} ELSE trial

Registers(p) ==
  /\ ~Exists(proc[p].email)
  /\ NewDev(proc[p].email, "pending", "registration")
  /\ UNCHANGED <<app, trial, audit>>

\* What a step of a request can do to a developer and to the log.
LEMMA StepKinds ==
  ASSUME NEW p \in Procs, proc[p].email \in Emails, Step(p)
  PROVE  \/ Quiet
         \/ Approve(p) /\ Births(p)
         \/ CreateIsv(p) /\ Registers(p) /\ Goto(p, "created")
         \/ RejectLog(p) \/ WriteStatus(p) \/ LogStatus(p) \/ WriteKyb(p)
  <1>1. ASSUME NEW op, NEW read, Begin(p, op, read) PROVE Quiet
    BY <1>1 DEF Begin, rows, Quiet
  <1>2. CASE Approve(p)
    BY <1>2 DEF Approve, rows, Quiet, Births
  <1>3. CASE Reject(p)
    BY <1>3 DEF Reject, Quiet
  <1>4. CASE CreateIsv(p)
    BY <1>4 DEF CreateIsv, rows, Quiet, Registers
  <1>5. CASE CreateOwner(p) \/ CreateApp(p) \/ Fail(p)
    BY <1>5 DEF CreateOwner, CreateApp, Fail, rows, Quiet
  <1>6. QED
    BY <1>1, <1>2, <1>3, <1>4, <1>5
       DEF Step, BeginReview, BeginStatus, BeginKyb, BeginRegister, BeginCreateApp

\* A status change keeps where a developer comes from.
LEMMA OriginStays ==
  ASSUME OInv, NEW p \in Procs, WriteStatus(p) \/ WriteKyb(p)
  PROVE  /\ \A e \in Emails : dev'[e].origin = dev[e].origin
         /\ \A e \in Emails \ {proc[p].email} : dev'[e] = dev[e]
         /\ dev'[proc[p].email].status = NewStatus[proc[p].op]
  <1> DEFINE e == proc[p].email
  <1>1. e \in Emails /\ dev \in [Emails -> DevRow \cup {NoDev}] /\ Based(proc[p])
    BY RowsOfOInv DEF RowsTyped, Proc, OInv
  <1>2. dev[e] \in DevRow
    BY <1>1, DevRows DEF WriteStatus, WriteKyb, Based
  <1>3. CASE WriteStatus(p)
    <2>1. dev' = [dev EXCEPT ![e] = [dev[e] EXCEPT !.status = NewStatus[proc[p].op]]]
      BY <1>1, <1>3 DEF WriteStatus, SetStatus
    <2>2. QED
      BY <1>1, <1>2, <2>1 DEF DevRow
  <1>4. CASE WriteKyb(p)
    <2> DEFINE row == [[dev[e] EXCEPT !.status = NewStatus[proc[p].op]]
                         EXCEPT !.kyb = NewKyb[proc[p].op]]
    <2>1. dev' = [dev EXCEPT ![e] = row]
      BY <1>1, <1>4 DEF WriteKyb
    <2>2. row.origin = dev[e].origin /\ row.status = NewStatus[proc[p].op]
      BY <1>2 DEF DevRow
    <2> HIDE DEF row
    <2>3. QED
      BY <1>1, <2>1, <2>2
  <1>5. QED
    BY <1>3, <1>4

LEMMA StepAtomic ==
  ASSUME OInv, NEW p \in Procs, Step(p), \A e \in Emails : Atomic(e), NEW e \in Emails
  PROVE  Atomic(e)'
  <1> DEFINE x == proc[p].email
  <1>0. /\ x \in Emails /\ app \in [Emails -> AppRow] /\ audit \in Seq(AuditRow)
        /\ dev \in [Emails -> DevRow \cup {NoDev}] /\ Atomic(e) /\ app[e] \in AppRow
        /\ Based(proc[p])
    BY RowsOfOInv DEF RowsTyped, Proc, OInv
  \* The rows of approvals after a row was appended.
  <1>1. ASSUME NEW row \in AuditRow, Log(row)
        PROVE  RowsOf(audit', e, {"approve"}) =
                 RowsOf(audit, e, {"approve"})
                   \cup (IF row.of = e /\ row.action = "approve" THEN {Len(audit) + 1} ELSE {})
    <2>1. audit' = Append(audit, row)
      BY <1>1 DEF Log
    <2>2. RowsOf(Append(audit, row), e, {"approve"}) =
            RowsOf(audit, e, {"approve"})
              \cup (IF row.of = e /\ row.action \in {"approve"} THEN {Len(audit) + 1} ELSE {})
      BY <1>0, RowsAppended
    <2>3. QED
      BY <2>1, <2>2
  <1>2. CASE Quiet
    <2>1. app'[e].linked = app[e].linked
      BY <1>0, <1>2 DEF Quiet, AppRow
    <2>2. QED
      BY <1>0, <1>2, <2>1 DEF Quiet, Atomic
  <1>3. CASE Births(p)
    <2> DEFINE row == [of |-> x, action |-> "approve", previous |-> "pending", new |-> "approved"]
    <2>1. row \in AuditRow /\ row.of = x /\ row.action = "approve"
      BY <1>0 DEF AuditRow, ReviewOps
    <2>2. RowsOf(audit', e, {"approve"}) =
            RowsOf(audit, e, {"approve"}) \cup (IF x = e THEN {Len(audit) + 1} ELSE {})
      BY <1>1, <1>3, <2>1 DEF Births
    <2>3. CASE e = x
      <3>1. dev[e].origin = "none"
        BY <1>3, <2>3 DEF Births, Exists, NoDev
      <3>2. RowsOf(audit, e, {"approve"}) = {}
        BY <1>0, <3>1 DEF Atomic
      <3>3. dev'[e].origin = "application" /\ app'[e].linked
        BY <1>0, <1>3, <2>3 DEF Births, NewDev
      <3>4. QED
        BY <2>2, <2>3, <3>2, <3>3 DEF Atomic
    <2>4. CASE e # x
      <3>1. dev'[e] = dev[e] /\ app'[e] = app[e] /\ (e \in trial' <=> e \in trial)
        BY <1>0, <1>3, <2>4 DEF Births, NewDev
      <3>2. QED
        BY <1>0, <2>2, <2>4, <3>1 DEF Atomic
    <2>5. QED
      BY <2>3, <2>4
  <1>4. CASE Registers(p)
    <2>1. CASE e = x
      <3>1. dev[e].origin = "none" /\ dev'[e].origin = "registration"
        BY <1>0, <1>4, <2>1 DEF Registers, NewDev, Exists, NoDev
      <3>2. QED
        BY <1>0, <1>4, <3>1 DEF Registers, Atomic
    <2>2. CASE e # x
      <3>1. dev'[e] = dev[e]
        BY <1>0, <1>4, <2>2 DEF Registers, NewDev
      <3>2. QED
        BY <1>0, <1>4, <3>1 DEF Registers, Atomic
    <2>3. QED
      BY <2>1, <2>2
  <1>5. CASE RejectLog(p)
    <2> DEFINE row == [of |-> x, action |-> "reject", previous |-> "pending", new |-> "rejected"]
    <2>1. row \in AuditRow /\ row.action # "approve"
      BY <1>0 DEF AuditRow, ReviewOps
    <2>2. RowsOf(audit', e, {"approve"}) = RowsOf(audit, e, {"approve"})
      BY <1>1, <1>5, <2>1 DEF RejectLog
    <2>3. QED
      BY <1>0, <1>5, <2>2 DEF RejectLog, Atomic
  <1>6. CASE LogStatus(p)
    <2> DEFINE row == [of |-> x, action |-> proc[p].op, previous |-> proc[p].read,
                       new |-> NewStatus[proc[p].op]]
    <2>1. row \in AuditRow /\ row.action # "approve"
      BY <1>0, <1>6, StatusKnown DEF LogStatus, AuditRow, Based, StatusOps
    <2>2. RowsOf(audit', e, {"approve"}) = RowsOf(audit, e, {"approve"})
      BY <1>1, <1>6, <2>1 DEF LogStatus
    <2>3. QED
      BY <1>0, <1>6, <2>2 DEF LogStatus, Atomic
  <1>7. CASE WriteStatus(p) \/ WriteKyb(p)
    <2>1. dev'[e].origin = dev[e].origin
      BY <1>7, OriginStays
    <2>2. UNCHANGED <<app, trial, audit>>
      BY <1>7 DEF WriteStatus, WriteKyb
    <2>3. QED
      BY <1>0, <2>1, <2>2 DEF Atomic
  <1>8. QED
    BY <1>0, <1>2, <1>3, <1>4, <1>5, <1>6, <1>7, StepKinds

LEMMA InitAtomic == ASSUME Init, NEW e \in Emails PROVE Atomic(e)
  <1>1. /\ app[e].linked = FALSE /\ dev[e].origin = "none" /\ trial = {} /\ audit = <<>>
    BY DEF Init, NoDev
  <1>2. RowsOf(audit, e, {"approve"}) = {}
    BY <1>1 DEF RowsOf
  <1>3. QED
    BY <1>1, <1>2 DEF Atomic

(***************************************************************************)
(* The developer of an application, the link to it and the audit row of    *)
(* the approval exist together, once, or not at all, however many requests *)
(* for one e-mail meet and wherever they fail                              *)
(* (developer-application.service.ts:26).                                  *)
(***************************************************************************)
THEOREM ApprovalsAreAtomic == Spec => []ApprovalAtomic
  <1> DEFINE AInv == \A e \in Emails : Atomic(e)
  <1>1. Init => AInv
    BY InitAtomic
  <1>2. ASSUME OInv, AInv, [Next]_vars PROVE AInv'
    <2>1. ASSUME NEW p \in Procs, RequestStep(p) PROVE AInv'
      BY <1>2, <2>1, StepAtomic DEF RequestStep
    <2>2. CASE UNCHANGED rows
      BY <1>2, <2>2 DEF rows, Atomic
    <2>3. QED
      BY <1>2, <2>1, <2>2, NextSteps DEF CatalogStep, vars, rows
  <1>3. ASSUME AInv PROVE ApprovalAtomic
    <2> SUFFICES ASSUME NEW e \in Emails
                 PROVE  /\ app[e].linked <=> dev[e].origin = "application"
                        /\ Cardinality(RowsOf(audit, e, {"approve"})) =
                             IF app[e].linked THEN 1 ELSE 0
                        /\ e \in trial => app[e].linked
      BY DEF ApprovalAtomic
    <2>1. Atomic(e)
      BY <1>3
    <2>2. CASE app[e].linked
      <3>1. PICK i : RowsOf(audit, e, {"approve"}) = {i}
        BY <2>1, <2>2 DEF Atomic
      <3>2. Cardinality(RowsOf(audit, e, {"approve"})) = 1
        BY <3>1, FS_Singleton
      <3>3. QED
        BY <2>1, <2>2, <3>2 DEF Atomic
    <2>3. CASE ~app[e].linked
      <3>1. Cardinality(RowsOf(audit, e, {"approve"})) = 0
        BY <2>1, <2>3, FS_EmptySet DEF Atomic
      <3>2. QED
        BY <2>1, <2>3, <3>1 DEF Atomic
    <2>4. QED
      BY <2>2, <2>3
  <1>4. QED
    BY <1>1, <1>2, <1>3, SpecOInv, PTL DEF Spec

-----------------------------------------------------------------------------
(***************************************************************************)
(* What a step of a request does to its own record, to the log and to what *)
(* the history notes of its e-mail.                                        *)
(***************************************************************************)
\* A step either begins the request, which leaves the tables alone, or takes it on.
LEMMA StepMoves ==
  ASSUME OInv, NEW p \in Procs, Step(p)
  PROVE  \E r \in Proc :
           /\ Moves(p, r) /\ r.email = proc[p].email
           /\ \/ proc[p].pc = "new" /\ r.pc = "checked" /\ UNCHANGED rows
              \/ p \in Open /\ r.op = proc[p].op /\ r.pc \notin {"new", "checked"}
  <1>1. PICK r \in Proc : Moves(p, r) /\ r.email = proc[p].email /\ (Began(p, r) \/ Went(p, r))
    BY StepEffect DEF Effect
  <1>2. QED
    BY <1>1 DEF Began, Went, Open

\* A row that is logged names the e-mail and the operation of its request, which it ends.
LEMMA StepLogs ==
  ASSUME OInv, NEW p \in Procs, Step(p)
  PROVE  \/ audit' = audit
         \/ \E row \in AuditRow :
              Log(row) /\ row.of = proc[p].email /\ row.action = proc[p].op /\ p \in Open /\ Goto(p, "done")
  <1>0. proc[p].email \in Emails /\ Based(proc[p])
    BY RowsOfOInv DEF Proc, OInv
  <1>1. CASE Quiet \/ Registers(p) \/ WriteStatus(p) \/ WriteKyb(p)
    BY <1>1 DEF Quiet, Registers, WriteStatus, WriteKyb
  <1>2. CASE Approve(p) /\ Births(p)
    <2> DEFINE row == [of |-> proc[p].email, action |-> "approve", previous |-> "pending",
                       new |-> "approved"]
    <2>1. row \in AuditRow /\ Log(row) /\ row.of = proc[p].email /\ row.action = proc[p].op
      BY <1>0, <1>2 DEF AuditRow, ReviewOps, Births, Approve, At
    <2>2. p \in Open /\ Goto(p, "done")
      BY <1>2 DEF Approve, At, Open
    <2>3. QED
      BY <2>1, <2>2
  <1>3. CASE RejectLog(p)
    <2> DEFINE row == [of |-> proc[p].email, action |-> "reject", previous |-> "pending",
                       new |-> "rejected"]
    <2>1. row \in AuditRow /\ Log(row) /\ row.of = proc[p].email /\ row.action = proc[p].op
      BY <1>0, <1>3 DEF AuditRow, ReviewOps, RejectLog, At
    <2>2. p \in Open /\ Goto(p, "done")
      BY <1>3 DEF RejectLog, At, Open
    <2>3. QED
      BY <2>1, <2>2
  <1>4. CASE LogStatus(p)
    <2> DEFINE row == [of |-> proc[p].email, action |-> proc[p].op, previous |-> proc[p].read,
                       new |-> NewStatus[proc[p].op]]
    <2>1. row \in AuditRow /\ Log(row) /\ row.of = proc[p].email /\ row.action = proc[p].op
      BY <1>0, <1>4, StatusKnown DEF LogStatus, AuditRow, Based
    <2>2. p \in Open /\ Goto(p, "done")
      BY <1>4 DEF LogStatus, Open
    <2>3. QED
      BY <2>1, <2>2
  <1>5. QED
    BY <1>0, <1>1, <1>2, <1>3, <1>4, StepKinds

\* The requests under way for e that ask for one of the operations.
Busy(e, ops) == {p \in Open : proc[p].email = e /\ proc[p].op \in ops}

LEMMA BusyMoves ==
  ASSUME NEW p \in Procs, NEW r, Moves(p, r), r.email = proc[p].email, NEW e, NEW ops
  PROVE  /\ r.email = e /\ r.op \in ops /\ r.pc \notin {"new", "done"}
              => Busy(e, ops)' = Busy(e, ops) \cup {p}
         /\ ~(r.email = e /\ r.op \in ops /\ r.pc \notin {"new", "done"})
              => Busy(e, ops)' = Busy(e, ops) \ {p}
  <1>1. proc'[p] = r /\ \A q \in Procs \ {p} : proc'[q] = proc[q]
    BY DEF Moves
  <1>2. QED
    BY <1>1 DEF Busy, Open

-----------------------------------------------------------------------------
(***************************************************************************)
(* The decisions of an application.  The rows of decisions and the reviews *)
(* under way are one, plus one for each review that began beside another;  *)
(* there is no row before the application leaves pending, which it does    *)
(* for good; and a review that is alone still finds it pending.            *)
(***************************************************************************)
Decisions(e) == RowsOf(audit, e, ReviewOps)
Reviews(e) == Busy(e, ReviewOps)

Decided(e) ==
  /\ IsFiniteSet(Reviews(e)) /\ IsFiniteSet(Decisions(e))
  /\ Cardinality(Decisions(e)) + Cardinality(Reviews(e)) <= 1 + met[e]
  /\ app[e].status = "pending"
       => Decisions(e) = {} /\ \A p \in Reviews(e) : proc[p].pc = "checked"
  /\ app[e].linked => app[e].status = "approved" \/ met[e] > 0
  /\ met[e] = 0 =>
       /\ \A p, q \in Reviews(e) : p = q
       /\ \A p \in Reviews(e) : proc[p].pc = "checked" => app[e].status = "pending"

\* A step that is not one of a review of e changes nothing of this.
LEMMA OthersDecided ==
  ASSUME OInv, NEW p \in Procs, RequestStep(p), NEW e \in Emails, Decided(e),
         proc[p].email # e \/ proc'[p].op \notin ReviewOps
  PROVE  Decided(e)'
  <1>0. /\ app \in [Emails -> AppRow] /\ audit \in Seq(AuditRow) /\ proc[p].email \in Emails
        /\ met \in [Emails -> Nat] /\ Step(p)
    BY RowsOfOInv DEF RowsTyped, HistoriesTyped, Proc, RequestStep
  <1>1. PICK r \in Proc :
           /\ Moves(p, r) /\ r.email = proc[p].email
           /\ \/ proc[p].pc = "new" /\ r.pc = "checked" /\ UNCHANGED rows
              \/ p \in Open /\ r.op = proc[p].op /\ r.pc \notin {"new", "checked"}
    BY <1>0, StepMoves
  <1>2. proc'[p] = r /\ \A q \in Procs \ {p} : proc'[q] = proc[q]
    BY <1>1 DEF Moves
  <1>3. Reviews(e)' = Reviews(e) /\ p \notin Reviews(e)
    <2>1. p \notin Busy(e, ReviewOps)
      BY <1>1, <1>2 DEF Busy, Open
    <2>2. Busy(e, ReviewOps)' = Busy(e, ReviewOps) \ {p}
      BY <1>1, <1>2, BusyMoves
    <2>3. QED
      BY <2>1, <2>2 DEF Reviews
  <1>4. \A q \in Reviews(e) : proc'[q] = proc[q]
    BY <1>2, <1>3 DEF Reviews, Busy, Open
  <1>5. met'[e] = met[e]
    <2>1. CASE proc[p].email # e
      BY <1>0, <2>1 DEF RequestStep, Note
    <2>2. CASE proc'[p].op \notin ReviewOps
      <3>1. ~Beside(p, ReviewOps)
        BY <2>2 DEF Beside
      <3>2. QED
        BY <3>1 DEF RequestStep, Note
    <2>3. QED
      BY <2>1, <2>2
  <1>6. app'[e] = app[e]
    <2>1. CASE proc[p].email # e
      BY <1>0, <2>1, StepEffect DEF Effect, Began, Went, rows
    <2>2. CASE proc'[p].op \notin ReviewOps
      <3>1. CASE UNCHANGED rows
        BY <3>1 DEF rows
      <3>2. CASE ~UNCHANGED rows
        <4>1. proc[p].op \notin ReviewOps
          BY <1>1, <1>2, <2>2, <3>2
        <4>2. ~Approve(p) /\ ~Reject(p)
          BY <4>1 DEF Approve, Reject, At, ReviewOps
        <4>3. UNCHANGED rows \/ app' = app
          BY <1>0, <4>2 DEF Step, BeginReview, BeginStatus, BeginKyb, BeginRegister, BeginCreateApp,
                            Begin, RejectLog, WriteStatus, LogStatus, WriteKyb, CreateIsv, CreateOwner,
                            CreateApp, Fail, rows
        <4>4. QED
          BY <3>2, <4>3
      <3>3. QED
        BY <3>1, <3>2
    <2>3. QED
      BY <2>1, <2>2
  <1>7. Decisions(e)' = Decisions(e)
    <2>1. CASE audit' = audit
      BY <2>1 DEF Decisions
    <2>2. CASE audit' # audit
      <3>1. PICK row \in AuditRow :
              Log(row) /\ row.of = proc[p].email /\ row.action = proc[p].op /\ p \in Open
        BY <1>0, <2>2, StepLogs
      <3>2. r.op = proc[p].op
        BY <1>1, <2>2 DEF rows
      <3>3. ~(row.of = e /\ row.action \in ReviewOps)
        BY <1>2, <3>1, <3>2
      <3>4. RowsOf(Append(audit, row), e, ReviewOps) =
              RowsOf(audit, e, ReviewOps)
                \cup (IF row.of = e /\ row.action \in ReviewOps THEN {Len(audit) + 1} ELSE {})
        BY <1>0, RowsAppended
      <3>5. RowsOf(audit', e, ReviewOps) = RowsOf(audit, e, ReviewOps)
        BY <3>1, <3>3, <3>4 DEF Log
      <3>6. QED
        BY <3>5 DEF Decisions
    <2>3. QED
      BY <2>1, <2>2
  <1>8. QED
    BY <1>3, <1>4, <1>5, <1>6, <1>7 DEF Decided

\* A review of e that goes on, keeps or ends its turn, and logs at most one row, at its end.
LEMMA ReviewGoes ==
  ASSUME OInv, NEW p \in Procs, RequestStep(p), NEW e \in Emails, e = proc[p].email, Decided(e),
         proc'[p].op \in ReviewOps, p \in Open
  PROVE  /\ p \in Reviews(e) /\ met' = met
         /\ \/ Approve(p) /\ Goto(p, "done")
            \/ Reject(p) /\ Goto(p, "written")
            \/ RejectLog(p) /\ Goto(p, "done")
            \/ UNCHANGED rows /\ Goto(p, "done")
         /\ \A q \in Procs \ {p} : proc'[q] = proc[q]
         /\ Goto(p, "done") => Reviews(e)' = Reviews(e) \ {p}
         /\ Goto(p, "written") => Reviews(e)' = Reviews(e) /\ proc'[p].pc = "written"
         /\ Cardinality(Decisions(e)') + Cardinality(Reviews(e)') <= 1 + met[e]
         /\ IsFiniteSet(Reviews(e)') /\ IsFiniteSet(Decisions(e)')
  <1>0. /\ audit \in Seq(AuditRow) /\ met \in [Emails -> Nat] /\ met[e] \in Nat /\ Step(p)
    BY RowsOfOInv DEF RowsTyped, HistoriesTyped, RequestStep
  <1>1. PICK r \in Proc : Moves(p, r) /\ r.email = proc[p].email /\ r.op = proc[p].op
    BY <1>0, StepMoves DEF Open
  <1>2. proc'[p] = r /\ \A q \in Procs \ {p} : proc'[q] = proc[q]
    BY <1>1 DEF Moves
  <1>3. p \in Reviews(e) /\ proc[p].op \in ReviewOps
    BY <1>1, <1>2 DEF Reviews, Busy
  <1>4. met' = met
    <2>1. ~Beside(p, ReviewOps)
      BY DEF Beside, Open
    <2>2. QED
      BY <2>1 DEF RequestStep, Note
  <1>5. \/ Approve(p) /\ Goto(p, "done")
        \/ Reject(p) /\ Goto(p, "written")
        \/ RejectLog(p) /\ Goto(p, "done")
        \/ UNCHANGED rows /\ Goto(p, "done")
    <2>1. ~(proc[p].op \in StatusOps \cup KybOps \cup OwnerOps)
      BY <1>3 DEF ReviewOps, StatusOps, KybOps, OwnerOps
    <2>2. proc[p].pc # "new"
      BY DEF Open
    <2>3. Approve(p) \/ Reject(p) \/ RejectLog(p) \/ Fail(p)
      BY <1>0, <2>1, <2>2 DEF Step, BeginReview, BeginStatus, BeginKyb, BeginRegister, BeginCreateApp,
           Begin, WriteStatus, LogStatus, WriteKyb, CreateIsv, CreateOwner, CreateApp, At, OwnerOps
    <2>4. QED
      BY <2>3 DEF Approve, Reject, RejectLog, Fail
  <1>6. ASSUME Goto(p, "done") PROVE Reviews(e)' = Reviews(e) \ {p}
    <2>1. Moves(p, [pc |-> "done", op |-> proc[p].op, email |-> proc[p].email, read |-> proc[p].read])
      BY <1>6, GotoMoves
    <2>2. Busy(e, ReviewOps)' = Busy(e, ReviewOps) \ {p}
      BY <2>1, BusyMoves
    <2>3. QED
      BY <2>2 DEF Reviews
  <1>7. ASSUME Goto(p, "written") PROVE Reviews(e)' = Reviews(e) /\ proc'[p].pc = "written"
    <2>1. Moves(p, [pc |-> "written", op |-> proc[p].op, email |-> proc[p].email, read |-> proc[p].read])
      BY <1>7, GotoMoves
    <2>2. Busy(e, ReviewOps)' = Busy(e, ReviewOps) \cup {p}
      <3> DEFINE w == [pc |-> "written", op |-> proc[p].op, email |-> proc[p].email,
                       read |-> proc[p].read]
      <3>1. w.email = e /\ w.op \in ReviewOps /\ w.pc \notin {"new", "done"} /\ w.email = proc[p].email
        BY <1>3
      <3> HIDE DEF w
      <3>2. QED
        BY <2>1, <3>1, BusyMoves DEF w
    <2>3. QED
      BY <1>3, <2>1, <2>2 DEF Reviews, Moves
  <1>8. /\ IsFiniteSet(Reviews(e)) /\ IsFiniteSet(Decisions(e))
        /\ Cardinality(Reviews(e)) \in Nat /\ Cardinality(Decisions(e)) \in Nat
        /\ Cardinality(Decisions(e)) + Cardinality(Reviews(e)) <= 1 + met[e]
    BY FS_CardinalityType DEF Decided
  <1>9. /\ IsFiniteSet(Reviews(e) \ {p}) /\ Cardinality(Reviews(e) \ {p}) = Cardinality(Reviews(e)) - 1
    BY <1>3, <1>8, FS_RemoveElement
  <1>10. /\ Cardinality(Decisions(e)') + Cardinality(Reviews(e)') <= 1 + met[e]
         /\ IsFiniteSet(Reviews(e)') /\ IsFiniteSet(Decisions(e)')
    <2>1. CASE audit' = audit
      <3>1. Decisions(e)' = Decisions(e)
        BY <2>1 DEF Decisions
      <3>2. Reviews(e)' = Reviews(e) \/ Reviews(e)' = Reviews(e) \ {p}
        BY <1>5, <1>6, <1>7
      <3>3. IsFiniteSet(Reviews(e)') /\ Cardinality(Reviews(e)') \in Nat
              /\ Cardinality(Reviews(e)') <= Cardinality(Reviews(e))
        BY <1>8, <3>2, GainsOne
      <3>4. QED
        BY <1>0, <1>8, <3>1, <3>3
    <2>2. CASE audit' # audit
      <3>1. PICK row \in AuditRow : Log(row) /\ Goto(p, "done")
        BY <1>0, <2>2, StepLogs
      <3>2. RowsOf(Append(audit, row), e, ReviewOps) =
              RowsOf(audit, e, ReviewOps)
                \cup (IF row.of = e /\ row.action \in ReviewOps THEN {Len(audit) + 1} ELSE {})
        BY <1>0, RowsAppended
      <3>3. Decisions(e)' \subseteq Decisions(e) \cup {Len(audit) + 1}
        BY <3>1, <3>2 DEF Decisions, Log
      <3>4. /\ IsFiniteSet(Decisions(e)') /\ Cardinality(Decisions(e)') \in Nat
            /\ Cardinality(Decisions(e)') <= Cardinality(Decisions(e)) + 1
        BY <1>8, <3>3, GainsOne
      <3>5. /\ IsFiniteSet(Reviews(e)') /\ Cardinality(Reviews(e)') = Cardinality(Reviews(e)) - 1
        BY <1>6, <1>9, <3>1
      <3>6. QED
        BY <1>0, <1>8, <3>4, <3>5
    <2>3. QED
      BY <2>1, <2>2
  <1>11. QED
    BY <1>2, <1>3, <1>4, <1>5, <1>6, <1>7, <1>10

\* A review of e that begins has found the application pending.
LEMMA ReviewBegins ==
  ASSUME OInv, NEW p \in Procs, RequestStep(p), NEW e \in Emails, e = proc[p].email, Decided(e),
         proc'[p].op \in ReviewOps, p \notin Open
  PROVE  Decided(e)'
  <1>0. /\ met \in [Emails -> Nat] /\ met[e] \in Nat /\ Step(p)
    BY RowsOfOInv DEF HistoriesTyped, RequestStep
  <1>1. PICK r \in Proc :
           Moves(p, r) /\ r.email = e /\ proc[p].pc = "new" /\ r.pc = "checked" /\ UNCHANGED rows
    BY <1>0, StepMoves
  <1>2. proc'[p] = r /\ \A q \in Procs \ {p} : proc'[q] = proc[q]
    BY <1>1 DEF Moves
  <1>3. Reviews(e)' = Reviews(e) \cup {p} /\ p \notin Reviews(e)
    <2>1. Busy(e, ReviewOps)' = Busy(e, ReviewOps) \cup {p}
      BY <1>1, <1>2, BusyMoves
    <2>2. QED
      BY <2>1 DEF Reviews, Busy
  <1>4. app[e].status = "pending"
    <2>1. Began(p, proc'[p])
      <3>1. PICK s \in Proc : Moves(p, s) /\ (Began(p, s) \/ Went(p, s))
        BY <1>0, StepEffect DEF Effect
      <3>2. QED
        BY <1>1, <3>1 DEF Moves, Went
    <2>2. QED
      BY <1>1, <1>2, <2>1 DEF Began
  <1>5. Decisions(e)' = Decisions(e) /\ Decisions(e) = {} /\ app' = app
    BY <1>1, <1>4 DEF Decided, Decisions, rows
  <1>6. met'[e] = IF Reviews(e) = {} THEN met[e] ELSE met[e] + 1
    <2>1. Beside(p, ReviewOps) <=> Reviews(e) # {}
      BY <1>1 DEF Beside, Reviews, Busy
    <2>2. QED
      BY <1>0, <2>1 DEF RequestStep, Note
  <1>7. /\ IsFiniteSet(Reviews(e)) /\ Cardinality(Reviews(e)) \in Nat
        /\ IsFiniteSet(Reviews(e)') /\ Cardinality(Reviews(e)') = Cardinality(Reviews(e)) + 1
        /\ Cardinality(Decisions(e)) = 0
    BY <1>3, <1>5, FS_AddElement, FS_CardinalityType, FS_EmptySet DEF Decided
  <1>8. /\ Cardinality(Decisions(e)') + Cardinality(Reviews(e)') <= 1 + met'[e]
        /\ IsFiniteSet(Decisions(e)')
    <2>1. Cardinality(Decisions(e)) + Cardinality(Reviews(e)) <= 1 + met[e] /\ IsFiniteSet(Decisions(e))
      BY DEF Decided
    <2>2. CASE Reviews(e) = {}
      <3>1. Cardinality(Reviews(e)) = 0
        BY <2>2, FS_EmptySet
      <3>2. QED
        BY <1>0, <1>5, <1>6, <1>7, <2>1, <2>2, <3>1
    <2>3. CASE Reviews(e) # {}
      BY <1>0, <1>5, <1>6, <1>7, <2>1, <2>3
    <2>4. QED
      BY <2>2, <2>3
  <1>9. \A q \in Reviews(e)' : proc'[q].pc = "checked"
    <2>1. \A q \in Reviews(e) : proc[q].pc = "checked" /\ q \in Procs
      BY <1>4 DEF Decided, Reviews, Busy, Open
    <2>2. QED
      BY <1>1, <1>2, <1>3, <2>1
  <1>10. app[e].linked => met[e] > 0
    BY <1>4 DEF Decided
  <1>11. met'[e] = 0 => \A q, t \in Reviews(e)' : q = t
    BY <1>0, <1>3, <1>6
  <1>12. QED
    BY <1>0, <1>4, <1>5, <1>6, <1>7, <1>8, <1>9, <1>10, <1>11 DEF Decided

LEMMA OwnDecided ==
  ASSUME OInv, NEW p \in Procs, RequestStep(p), NEW e \in Emails, e = proc[p].email, Decided(e),
         proc'[p].op \in ReviewOps, p \in Open
  PROVE  Decided(e)'
  <1>0. app \in [Emails -> AppRow] /\ met[e] \in Nat /\ app[e] \in AppRow
    BY RowsOfOInv DEF RowsTyped, HistoriesTyped
  <1>1. /\ p \in Reviews(e) /\ met' = met
        /\ \A q \in Procs \ {p} : proc'[q] = proc[q]
        /\ Cardinality(Decisions(e)') + Cardinality(Reviews(e)') <= 1 + met[e]
        /\ IsFiniteSet(Reviews(e)') /\ IsFiniteSet(Decisions(e)')
    BY ReviewGoes
  <1>2. \/ Approve(p) /\ Goto(p, "done")
        \/ Reject(p) /\ Goto(p, "written")
        \/ RejectLog(p) /\ Goto(p, "done")
        \/ UNCHANGED rows /\ Goto(p, "done")
    BY ReviewGoes
  <1>3. Goto(p, "done") => Reviews(e)' = Reviews(e) \ {p}
    BY ReviewGoes
  \* Alone, no other review of e is under way.
  <1>4. ASSUME met[e] = 0 PROVE \A q \in Reviews(e) : q = p
    BY <1>1, <1>4 DEF Decided
  \* A review that ends and leaves the tables alone.
  <1>5. ASSUME Goto(p, "done"), UNCHANGED <<app, audit>> PROVE Decided(e)'
    <2>1. Reviews(e)' \subseteq Reviews(e) /\ Decisions(e)' = Decisions(e)
      BY <1>3, <1>5 DEF Decisions
    <2>2. \A q \in Reviews(e)' : proc'[q] = proc[q]
      BY <1>1, <1>3, <1>5 DEF Reviews, Busy, Open
    <2>3. QED
      BY <1>1, <1>5, <2>1, <2>2 DEF Decided
  <1>6. CASE Approve(p) /\ Goto(p, "done")
    <2>1. CASE UNCHANGED rows
      BY <1>5, <1>6, <2>1 DEF rows
    <2>2. CASE ~UNCHANGED rows
      <3>1. app'[e] = [status |-> "approved", linked |-> TRUE]
        BY <1>0, <1>6, <2>2 DEF Approve
      <3>2. met[e] = 0 => Reviews(e)' = {}
        BY <1>3, <1>4, <1>6
      <3>3. QED
        BY <1>1, <3>1, <3>2 DEF Decided
    <2>3. QED
      BY <2>1, <2>2
  <1>7. CASE Reject(p) /\ Goto(p, "written")
    <2>1. /\ app'[e].status = "rejected" /\ app'[e].linked = app[e].linked
          /\ proc[p].pc = "checked"
      BY <1>0, <1>7 DEF Reject, At, AppRow
    <2>2. Reviews(e)' = Reviews(e) /\ proc'[p].pc = "written"
      BY <1>7, ReviewGoes
    <2>3. met[e] = 0 => ~app[e].linked
      BY <1>1, <2>1 DEF Decided
    <2>4. met[e] = 0 => \A q \in Reviews(e)' : proc'[q].pc = "written"
      BY <1>4, <2>2
    <2>5. app'[e].linked => met[e] > 0
      BY <1>0, <2>1, <2>3
    <2>6. met[e] = 0 => \A q, t \in Reviews(e)' : q = t
      BY <1>4, <2>2
    <2>7. QED
      BY <1>1, <2>1, <2>4, <2>5, <2>6 DEF Decided
  <1>8. CASE RejectLog(p) /\ Goto(p, "done")
    <2>1. app' = app /\ proc[p].pc = "written"
      BY <1>8 DEF RejectLog, At
    <2>2. app[e].status # "pending"
      BY <1>1, <2>1 DEF Decided
    <2>3. met[e] = 0 => Reviews(e)' = {}
      BY <1>3, <1>4, <1>8
    <2>4. QED
      BY <1>1, <2>1, <2>2, <2>3 DEF Decided
  <1>9. CASE UNCHANGED rows /\ Goto(p, "done")
    BY <1>5, <1>9 DEF rows
  <1>10. QED
    BY <1>2, <1>6, <1>7, <1>8, <1>9

(***************************************************************************)
(* An application is decided once, plus at most once for each review that  *)
(* began beside another one, whatever fails; and unless two reviews met a  *)
(* rejected applicant is a developer only by registering, for any number   *)
(* of reviews and e-mails (controllers/admin/application.controller.ts).   *)
(***************************************************************************)
THEOREM ApplicationsDecidedOnce == Spec => []DecidedOnce
  <1> DEFINE DInv == \A e \in Emails : Decided(e) /\ Atomic(e)
  <1>1. Init => DInv
    <2> SUFFICES ASSUME Init, NEW e \in Emails PROVE Decided(e) /\ Atomic(e)
      OBVIOUS
    <2>1. Atomic(e)
      BY InitAtomic
    <2>2. Reviews(e) = {} /\ Decisions(e) = {} /\ met[e] = 0 /\ ~app[e].linked
      BY DEF Init, Reviews, Busy, Open, Decisions, RowsOf
    <2>3. Cardinality({}) = 0 /\ IsFiniteSet({})
      BY FS_EmptySet
    <2>4. QED
      BY <2>1, <2>2, <2>3 DEF Decided
  <1>2. ASSUME OInv, DInv, [Next]_vars PROVE DInv'
    <2>1. ASSUME NEW p \in Procs, RequestStep(p), NEW e \in Emails PROVE Decided(e)' /\ Atomic(e)'
      <3>1. Decided(e) /\ Step(p) /\ \A x \in Emails : Atomic(x)
        BY <1>2, <2>1 DEF RequestStep
      <3>2. Atomic(e)'
        BY <1>2, <3>1, StepAtomic
      <3>3. CASE proc[p].email # e \/ proc'[p].op \notin ReviewOps
        BY <1>2, <2>1, <3>1, <3>2, <3>3, OthersDecided
      <3>4. CASE proc[p].email = e /\ proc'[p].op \in ReviewOps
        BY <1>2, <2>1, <3>1, <3>2, <3>4, ReviewBegins, OwnDecided
      <3>5. QED
        BY <3>3, <3>4
    <2>2. CASE UNCHANGED <<rows, proc, histories>>
      <3>1. /\ app' = app /\ dev' = dev /\ trial' = trial /\ audit' = audit /\ proc' = proc /\ met' = met
        BY <2>2 DEF rows, histories
      <3>2. \A e \in Emails : Reviews(e)' = Reviews(e) /\ Decisions(e)' = Decisions(e)
        BY <3>1 DEF Reviews, Busy, Open, Decisions
      <3>3. QED
        BY <1>2, <3>1, <3>2 DEF Decided, Atomic
    <2>3. QED
      BY <1>2, <2>1, <2>2, NextSteps DEF CatalogStep, vars, rows, histories
  <1>3. ASSUME OInv, DInv PROVE DecidedOnce
    <2> SUFFICES ASSUME NEW e \in Emails
                 PROVE  /\ Cardinality(RowsOf(audit, e, ReviewOps)) <= 1 + met[e]
                        /\ app[e].status = "rejected" /\ Exists(e)
                             => dev[e].origin = "registration" \/ met[e] > 0
      BY DEF DecidedOnce
    <2>1. Decided(e) /\ Atomic(e) /\ met[e] \in Nat
      BY <1>3, RowsOfOInv DEF HistoriesTyped
    <2>2. Cardinality(Decisions(e)) \in Nat /\ Cardinality(Reviews(e)) \in Nat
      BY <2>1, FS_CardinalityType DEF Decided
    <2>3. Cardinality(Decisions(e)) <= 1 + met[e]
      BY <2>1, <2>2 DEF Decided
    <2>4. ASSUME app[e].status = "rejected", Exists(e), met[e] = 0
          PROVE  dev[e].origin = "registration"
      <3>1. dev[e] \in DevRow
        BY <1>3, <2>4, DevRows
      <3>2. dev[e].origin # "application"
        BY <2>1, <2>4 DEF Decided, Atomic
      <3>3. QED
        BY <3>1, <3>2 DEF DevRow
    <2>5. QED
      BY <2>1, <2>3, <2>4 DEF Decisions
  <1>4. QED
    BY <1>1, <1>2, <1>3, SpecOInv, PTL DEF Spec

-----------------------------------------------------------------------------
(***************************************************************************)
(* The audit log.  The status of a developer is told by the log, or by a   *)
(* request between its update and its row.  When the status requests of    *)
(* an e-mail come one by one, the log tells the last status except between *)
(* update and row; the one request that may be under way read the status   *)
(* that is there, and after its update still has in read what the log      *)
(* tells last.                                                             *)
(***************************************************************************)
StatusReqs == StatusOps \cup KybOps
Last(e) == StatusAt(audit, e, Len(audit) + 1)
StatusRows(e) == RowsOf(audit, e, StatusOps)

Writing(e) == {p \in Procs : proc[p].email = e /\ proc[p].op \in StatusOps /\ proc[p].pc = "written"}
Reading(e) == {p \in Procs : proc[p].email = e /\ proc[p].op \in StatusOps /\ proc[p].pc = "checked"}

Told(e) ==
  /\ ~Exists(e) => StatusRows(e) = {}
  /\ Exists(e) =>
       \/ dev[e].status = "active" /\ StatusRows(e) = {} /\ Writing(e) = {}
       \/ \E i \in StatusRows(e) : audit[i].new = dev[e].status
       \/ \E p \in Writing(e) : NewStatus[proc[p].op] = dev[e].status

Alone(e) == \A p, q \in Busy(e, StatusReqs) : p = q

Replayed(e) ==
  /\ \A i \in StatusRows(e) : audit[i].previous = StatusAt(audit, e, i)
  /\ ~Exists(e) => StatusRows(e) = {}
  /\ Exists(e) /\ Writing(e) = {} => dev[e].status = Last(e)
  /\ \A p \in Reading(e) : proc[p].read = dev[e].status
  /\ \A p \in Writing(e) : proc[p].read = Last(e) /\ dev[e].status = NewStatus[proc[p].op]

\* A row of another e-mail, or of another kind, changes nothing the log tells of e.
LEMMA OtherRow ==
  ASSUME OInv, NEW e \in Emails,
         \/ audit' = audit
         \/ \E row \in AuditRow : Log(row) /\ ~(row.of = e /\ row.action \in StatusOps)
  PROVE  /\ StatusRows(e)' = StatusRows(e) /\ Last(e)' = Last(e)
         /\ \A i \in StatusRows(e) : /\ audit'[i] = audit[i]
                                     /\ StatusAt(audit', e, i) = StatusAt(audit, e, i)
  <1>1. CASE audit' = audit
    BY <1>1 DEF StatusRows, Last
  <1>2. CASE \E row \in AuditRow : Log(row) /\ ~(row.of = e /\ row.action \in StatusOps)
    <2>1. PICK row \in AuditRow : Log(row) /\ ~(row.of = e /\ row.action \in StatusOps)
      BY <1>2
    <2>2. audit \in Seq(AuditRow) /\ audit' = Append(audit, row)
      BY <2>1, RowsOfOInv DEF RowsTyped, Log
    <2>3. RowsOf(Append(audit, row), e, StatusOps) =
            RowsOf(audit, e, StatusOps)
              \cup (IF row.of = e /\ row.action \in StatusOps THEN {Len(audit) + 1} ELSE {})
      BY <2>2, RowsAppended
    <2>4. StatusRows(e)' = StatusRows(e)
      BY <2>1, <2>2, <2>3, Zenon DEF StatusRows
    <2>5. /\ Len(audit) \in Nat /\ StatusRows(e) \subseteq 1..Len(audit)
          /\ Len(audit') = Len(audit) + 1 /\ \A i \in 1..Len(audit) : audit'[i] = audit[i]
      BY <2>2, RowsAppended DEF StatusRows
    <2>6. /\ \A i \in 1..(Len(audit) + 1) : StatusAt(audit', e, i) = StatusAt(audit, e, i)
          /\ StatusAt(audit', e, Len(audit) + 2) = StatusAt(audit, e, Len(audit) + 1)
      BY <2>1, <2>2, StatusAppended
    <2>7. Len(audit') + 1 = Len(audit) + 2 /\ 1..Len(audit) \subseteq 1..(Len(audit) + 1)
      BY <2>5
    <2>8. QED
      BY <2>4, <2>5, <2>6, <2>7 DEF Last
  <1>3. QED
    BY <1>1, <1>2

\* A step that is not one of a status request of e leaves its status and its rows, or creates it.
LEMMA OthersQuiet ==
  ASSUME OInv, NEW p \in Procs, Step(p), NEW e \in Emails,
         proc[p].email # e \/ proc'[p].op \notin StatusReqs
  PROVE  /\ Writing(e)' = Writing(e) /\ Reading(e)' = Reading(e)
         /\ \A q \in Writing(e) \cup Reading(e) : proc'[q] = proc[q]
         /\ \/ dev'[e] = dev[e]
            \/ /\ ~Exists(e) /\ Exists(e)' /\ dev'[e].status = "active"
               /\ Writing(e) = {} /\ Reading(e) = {}
         /\ StatusRows(e)' = StatusRows(e) /\ Last(e)' = Last(e)
         /\ \A i \in StatusRows(e) : /\ audit'[i] = audit[i]
                                     /\ StatusAt(audit', e, i) = StatusAt(audit, e, i)
  <1>0. /\ proc[p].email \in Emails /\ dev \in [Emails -> DevRow \cup {NoDev}]
        /\ \A q \in Procs : Based(proc[q])
    BY RowsOfOInv DEF RowsTyped, Proc, OInv
  <1>1. PICK r \in Proc :
           /\ Moves(p, r) /\ r.email = proc[p].email
           /\ \/ proc[p].pc = "new" /\ r.pc = "checked" /\ UNCHANGED rows
              \/ p \in Open /\ r.op = proc[p].op /\ r.pc \notin {"new", "checked"}
    BY StepMoves
  <1>2. proc'[p] = r /\ \A q \in Procs \ {p} : proc'[q] = proc[q]
    BY <1>1 DEF Moves
  <1>3. /\ p \notin Writing(e) \cup Reading(e) /\ p \notin Writing(e)' \cup Reading(e)'
    BY <1>1, <1>2 DEF Writing, Reading, StatusReqs, Open
  <1>4. /\ Writing(e)' = Writing(e) /\ Reading(e)' = Reading(e)
        /\ \A q \in Writing(e) \cup Reading(e) : proc'[q] = proc[q]
    BY <1>2, <1>3 DEF Writing, Reading
  <1>5. ~Exists(e) => Writing(e) = {} /\ Reading(e) = {}
    BY <1>0 DEF Based, Writing, Reading
  <1>6. \/ dev'[e] = dev[e]
        \/ ~Exists(e) /\ Exists(e)' /\ dev'[e].status = "active"
    <2>1. CASE Quiet \/ RejectLog(p) \/ LogStatus(p)
      BY <2>1 DEF Quiet, RejectLog, LogStatus
    <2>2. CASE Births(p) \/ Registers(p)
      <3>1. CASE proc[p].email = e
        <4>1. /\ ~Exists(e)
              /\ \/ dev' = [dev EXCEPT ![e] = [kyb |-> "approved", status |-> "active", origin |-> "application"]]
                 \/ dev' = [dev EXCEPT ![e] = [kyb |-> "pending", status |-> "active", origin |-> "registration"]]
          BY <2>2, <3>1 DEF Births, Registers, NewDev
        <4>2. dev'[e].status = "active"
          BY <1>0, <4>1
        <4>3. Exists(e)'
          BY <4>2 DEF Exists, NoDev
        <4>4. QED
          BY <4>1, <4>2, <4>3
      <3>2. CASE proc[p].email # e
        BY <1>0, <2>2, <3>2 DEF Births, Registers, NewDev
      <3>3. QED
        BY <3>1, <3>2
    <2>3. CASE WriteStatus(p) \/ WriteKyb(p)
      <3>1. proc[p].op \in StatusReqs /\ proc[p].pc # "new"
        BY <2>3 DEF WriteStatus, WriteKyb, StatusReqs
      <3>2. proc[p].email # e
        BY <1>1, <1>2, <3>1
      <3>3. QED
        BY <2>3, <3>2, OriginStays
    <2>4. QED
      BY <1>0, <2>1, <2>2, <2>3, StepKinds
  <1>7. \/ audit' = audit
        \/ \E row \in AuditRow : Log(row) /\ ~(row.of = e /\ row.action \in StatusOps)
    <2>1. SUFFICES ASSUME audit' # audit
                   PROVE  \E row \in AuditRow : Log(row) /\ ~(row.of = e /\ row.action \in StatusOps)
      OBVIOUS
    <2>2. PICK row \in AuditRow : Log(row) /\ row.of = proc[p].email /\ row.action = proc[p].op
      BY <2>1, StepLogs
    <2>3. r.op = proc[p].op
      BY <1>1, <2>1 DEF rows
    <2>4. QED
      BY <1>2, <2>2, <2>3 DEF StatusReqs
  <1>8. QED
    BY <1>4, <1>5, <1>6, <1>7, OtherRow

LEMMA OthersTold ==
  ASSUME OInv, NEW p \in Procs, Step(p), NEW e \in Emails,
         proc[p].email # e \/ proc'[p].op \notin StatusReqs
  PROVE  (Told(e) => Told(e)') /\ (Replayed(e) => Replayed(e)')
  <1>1. /\ Writing(e)' = Writing(e) /\ Reading(e)' = Reading(e)
        /\ \A q \in Writing(e) \cup Reading(e) : proc'[q] = proc[q]
        /\ \/ dev'[e] = dev[e]
           \/ /\ ~Exists(e) /\ Exists(e)' /\ dev'[e].status = "active"
              /\ Writing(e) = {} /\ Reading(e) = {}
        /\ StatusRows(e)' = StatusRows(e) /\ Last(e)' = Last(e)
        /\ \A i \in StatusRows(e) : /\ audit'[i] = audit[i]
                                    /\ StatusAt(audit', e, i) = StatusAt(audit, e, i)
    BY OthersQuiet
  <1>2. CASE dev'[e] = dev[e]
    <2>1. Exists(e)' <=> Exists(e)
      BY <1>2 DEF Exists
    <2>2. ASSUME Told(e) PROVE Told(e)'
      BY <1>1, <1>2, <2>1, <2>2 DEF Told
    <2>3. ASSUME Replayed(e) PROVE Replayed(e)'
      BY <1>1, <1>2, <2>1, <2>3 DEF Replayed
    <2>4. QED
      BY <2>2, <2>3
  <1>3. CASE /\ ~Exists(e) /\ Exists(e)' /\ dev'[e].status = "active"
             /\ Writing(e) = {} /\ Reading(e) = {}
    <2>1. ASSUME Told(e) PROVE Told(e)'
      BY <1>1, <1>3, <2>1 DEF Told
    <2>2. ASSUME Replayed(e) PROVE Replayed(e)'
      <3>1. StatusRows(e) = {}
        BY <1>3, <2>2 DEF Replayed
      <3>2. Last(e) = "active"
        BY <3>1 DEF Last, StatusAt, StatusRows
      <3>3. QED
        BY <1>1, <1>3, <3>1, <3>2 DEF Replayed
    <2>3. QED
      BY <2>1, <2>2
  <1>4. QED
    BY <1>1, <1>2, <1>3

\* The steps of a status request.
LEMMA StatusSteps ==
  ASSUME OInv, NEW p \in Procs, Step(p), proc'[p].op \in StatusReqs
  PROVE  \/ \E op \in Ops \cap StatusOps : BeginStatus(p, op) /\ Begin(p, op, dev[proc[p].email].status)
         \/ \E op \in Ops \cap KybOps : BeginKyb(p, op) /\ Begin(p, op, dev[proc[p].email].status)
         \/ WriteStatus(p) \/ LogStatus(p) \/ WriteKyb(p) \/ Fail(p)
  <1>1. PICK r \in Proc :
           /\ Moves(p, r)
           /\ \/ proc[p].pc = "new" /\ r.pc = "checked" /\ UNCHANGED rows
              \/ p \in Open /\ r.op = proc[p].op /\ r.pc \notin {"new", "checked"}
    BY StepMoves
  <1>2. proc'[p] = r
    BY <1>1 DEF Moves
  <1>3. CASE p \in Open
    <2>1. proc[p].op \notin ReviewOps \cup OwnerOps /\ proc[p].pc # "new"
      BY <1>1, <1>2, <1>3 DEF StatusReqs, ReviewOps, OwnerOps, StatusOps, KybOps, Open
    <2>2. QED
      BY <2>1 DEF Step, BeginReview, BeginStatus, BeginKyb, BeginRegister, BeginCreateApp, Begin, Approve,
                  Reject, RejectLog, CreateIsv, CreateOwner, CreateApp, At, ReviewOps, OwnerOps
  <1>4. CASE p \notin Open
    <2>1. ASSUME NEW op \in Ops, Begin(p, op, "none") PROVE op \in StatusReqs
      <3>1. Moves(p, [pc |-> "checked", op |-> op, email |-> proc[p].email, read |-> "none"])
        BY <2>1, BeginMoves
      <3>2. proc'[p].op = op
        BY <3>1 DEF Moves
      <3>3. QED
        BY <3>2
    <2>2. \A op \in ReviewOps : ~BeginReview(p, op)
      BY <2>1 DEF BeginReview, StatusReqs, ReviewOps, StatusOps, KybOps
    <2>3. ~BeginRegister(p) /\ ~BeginCreateApp(p)
      BY <2>1 DEF BeginRegister, BeginCreateApp, StatusReqs, StatusOps, KybOps
    <2>4. QED
      BY <1>1, <1>4, <2>2, <2>3 DEF Step, Approve, Reject, RejectLog, WriteStatus, LogStatus, WriteKyb,
           CreateIsv, CreateOwner, CreateApp, Fail, At, Open, BeginStatus, BeginKyb
  <1>5. QED
    BY <1>3, <1>4

\* The row of a status request tells the status it has written.
LEMMA StatusLogged ==
  ASSUME OInv, NEW p \in Procs, LogStatus(p), NEW e \in Emails, e = proc[p].email
  PROVE  /\ Len(audit) \in Nat /\ StatusRows(e) \subseteq 1..Len(audit)
         /\ audit'[Len(audit) + 1].previous = proc[p].read
         /\ audit'[Len(audit) + 1].new = NewStatus[proc[p].op]
         /\ \A i \in 1..Len(audit) : audit'[i] = audit[i]
         /\ StatusRows(e)' = StatusRows(e) \cup {Len(audit) + 1}
         /\ \A i \in 1..(Len(audit) + 1) : StatusAt(audit', e, i) = StatusAt(audit, e, i)
         /\ Last(e)' = NewStatus[proc[p].op]
  <1> DEFINE row == [of |-> e, action |-> proc[p].op, previous |-> proc[p].read,
                     new |-> NewStatus[proc[p].op]]
  <1>1. audit \in Seq(AuditRow) /\ Based(proc[p]) /\ proc[p].op \in StatusOps
    BY RowsOfOInv DEF RowsTyped, OInv, LogStatus
  <1>2. row \in AuditRow /\ audit' = Append(audit, row)
    BY <1>1, StatusKnown DEF LogStatus, AuditRow, Based, Log
  <1>3. /\ Len(audit) \in Nat /\ RowsOf(audit, e, StatusOps) \subseteq 1..Len(audit)
        /\ Len(audit') = Len(audit) + 1 /\ audit'[Len(audit) + 1] = row
        /\ \A i \in 1..Len(audit) : audit'[i] = audit[i]
        /\ RowsOf(audit', e, StatusOps) = RowsOf(audit, e, StatusOps) \cup {Len(audit) + 1}
    BY <1>1, <1>2, RowsAppended
  <1>4. /\ \A i \in 1..(Len(audit) + 1) : StatusAt(audit', e, i) = StatusAt(audit, e, i)
        /\ StatusAt(audit', e, Len(audit) + 2) = NewStatus[proc[p].op]
    BY <1>1, <1>2, StatusAppended
  <1>5. Len(audit') + 1 = Len(audit) + 2
    BY <1>3
  <1>6. Last(e)' = NewStatus[proc[p].op]
    BY <1>4, <1>5 DEF Last
  <1>7. StatusRows(e)' = StatusRows(e) \cup {Len(audit) + 1} /\ StatusRows(e) \subseteq 1..Len(audit)
    BY <1>3 DEF StatusRows
  <1>8. /\ audit'[Len(audit) + 1].previous = proc[p].read
        /\ audit'[Len(audit) + 1].new = NewStatus[proc[p].op]
    BY <1>3
  <1>9. QED
    BY <1>3, <1>4, <1>6, <1>7, <1>8

\* A step that ends a request, or begins one, and what it does to those who read and write.
LEMMA EndsWriting ==
  ASSUME OInv, NEW p \in Procs, Goto(p, "done"), NEW e \in Emails
  PROVE  /\ Writing(e)' = Writing(e) \ {p} /\ Reading(e)' = Reading(e) \ {p}
         /\ \A q \in Procs \ {p} : proc'[q] = proc[q]
  <1>1. Moves(p, [pc |-> "done", op |-> proc[p].op, email |-> proc[p].email, read |-> proc[p].read])
    BY GotoMoves
  <1>2. proc'[p].pc = "done" /\ \A q \in Procs \ {p} : proc'[q] = proc[q]
    BY <1>1 DEF Moves
  <1>3. QED
    BY <1>2 DEF Writing, Reading

LEMMA BeginsReading ==
  ASSUME OInv, NEW p \in Procs, NEW op \in Ops \cap StatusReqs, NEW read \in Statuses \cup {"none"},
         Begin(p, op, read), NEW e \in Emails
  PROVE  /\ Writing(e)' = Writing(e) /\ Reading(e)' \subseteq Reading(e) \cup {p}
         /\ p \notin Reading(e) /\ p \notin Writing(e)
         /\ proc'[p].read = read /\ proc'[p].op = op /\ UNCHANGED rows
         /\ \A q \in Procs \ {p} : proc'[q] = proc[q]
  <1>1. /\ Moves(p, [pc |-> "checked", op |-> op, email |-> proc[p].email, read |-> read])
        /\ UNCHANGED rows /\ proc[p].pc = "new"
    BY BeginMoves
  <1>2. /\ proc'[p].pc = "checked" /\ proc'[p].read = read /\ proc'[p].op = op
        /\ \A q \in Procs \ {p} : proc'[q] = proc[q]
    BY <1>1 DEF Moves
  <1>3. QED
    BY <1>1, <1>2 DEF Writing, Reading

LEMMA WritesStatus ==
  ASSUME OInv, NEW p \in Procs, WriteStatus(p), NEW e \in Emails, e = proc[p].email
  PROVE  /\ p \in Reading(e) /\ Writing(e)' = Writing(e) \cup {p} /\ Reading(e)' = Reading(e) \ {p}
         /\ proc'[p].read = proc[p].read /\ proc'[p].op = proc[p].op
         /\ Exists(e) /\ Exists(e)' /\ dev'[e].status = NewStatus[proc[p].op]
         /\ audit' = audit
  <1>1. /\ Moves(p, [pc |-> "written", op |-> proc[p].op, email |-> proc[p].email, read |-> proc[p].read])
        /\ proc[p].op \in StatusOps /\ proc[p].pc = "checked" /\ audit' = audit
    BY GotoMoves DEF WriteStatus
  <1>2. /\ proc'[p].pc = "written" /\ proc'[p].op = proc[p].op /\ proc'[p].read = proc[p].read
        /\ proc'[p].email = e /\ \A q \in Procs \ {p} : proc'[q] = proc[q]
    BY <1>1 DEF Moves
  <1>3. p \in Reading(e) /\ Writing(e)' = Writing(e) \cup {p} /\ Reading(e)' = Reading(e) \ {p}
    BY <1>1, <1>2 DEF Writing, Reading
  <1>4. Exists(e) /\ \A x \in Emails : Exists(x) => Exists(x)'
    BY <1>1, StepEffect DEF OInv, Based, Effect, Step
  <1>5. QED
    BY <1>1, <1>2, <1>3, <1>4, OriginStays

\* A status request that tells the log of every status it has written.
LEMMA OwnTold ==
  ASSUME OInv, NEW p \in Procs, RequestStep(p), NEW e \in Emails, e = proc[p].email,
         proc'[p].op \in StatusReqs, e \notin unlogged', Told(e)
  PROVE  Told(e)'
  <1>0. Step(p) /\ ~Unlogs(p)
    BY DEF RequestStep, Note
  \* A step that leaves the developer and the log alone, and no write untold.
  <1>1. ASSUME UNCHANGED <<dev, audit>>, Writing(e)' = Writing(e),
               \A q \in Writing(e) : proc'[q] = proc[q]
        PROVE  Told(e)'
    BY <1>1 DEF Told, StatusRows, Exists
  <1>2. ASSUME NEW op \in Ops \cap StatusReqs, NEW read \in Statuses \cup {"none"}, Begin(p, op, read)
        PROVE  Told(e)'
    <2>1. /\ Writing(e)' = Writing(e) /\ p \notin Writing(e) /\ UNCHANGED rows
          /\ \A q \in Procs \ {p} : proc'[q] = proc[q]
      BY <1>2, BeginsReading
    <2>2. \A q \in Writing(e) : proc'[q] = proc[q]
      BY <2>1 DEF Writing
    <2>3. QED
      BY <1>1, <2>1, <2>2 DEF rows
  <1>3. ASSUME Goto(p, "done"), UNCHANGED <<dev, audit>>, p \notin Writing(e) PROVE Told(e)'
    <2>1. Writing(e)' = Writing(e) /\ \A q \in Procs \ {p} : proc'[q] = proc[q]
      BY <1>3, EndsWriting
    <2>2. \A q \in Writing(e) : proc'[q] = proc[q]
      BY <1>3, <2>1 DEF Writing
    <2>3. QED
      BY <1>1, <1>3, <2>1, <2>2
  <1>4. CASE \E op \in Ops \cap StatusReqs : Begin(p, op, dev[e].status) /\ Exists(e)
    BY <1>2, <1>4, DevRows
  <1>5. CASE WriteStatus(p)
    <2>1. /\ Writing(e)' = Writing(e) \cup {p} /\ proc'[p].op = proc[p].op
          /\ Exists(e)' /\ dev'[e].status = NewStatus[proc[p].op]
      BY <1>5, WritesStatus
    <2>2. QED
      BY <2>1 DEF Told
  <1>6. CASE LogStatus(p)
    <2>1. Goto(p, "done") /\ dev' = dev /\ p \in Writing(e)
      BY <1>6 DEF LogStatus, Writing
    <2>2. Writing(e)' = Writing(e) \ {p} /\ \A q \in Procs \ {p} : proc'[q] = proc[q]
      BY <2>1, EndsWriting
    <2>3. /\ Len(audit) \in Nat /\ StatusRows(e) \subseteq 1..Len(audit)
          /\ audit'[Len(audit) + 1].new = NewStatus[proc[p].op]
          /\ \A i \in 1..Len(audit) : audit'[i] = audit[i]
          /\ StatusRows(e)' = StatusRows(e) \cup {Len(audit) + 1}
      BY <1>6, StatusLogged
    <2>4. Exists(e) /\ Exists(e)'
      BY <1>6, <2>1 DEF OInv, Based, LogStatus, Exists
    <2>5. \A q \in Writing(e) \ {p} : proc'[q] = proc[q]
      BY <2>2 DEF Writing
    <2>6. \/ \E i \in StatusRows(e) : audit[i].new = dev[e].status
          \/ NewStatus[proc[p].op] = dev[e].status
          \/ \E q \in Writing(e) \ {p} : NewStatus[proc[q].op] = dev[e].status
      BY <2>1, <2>4 DEF Told
    <2>7. \/ \E i \in StatusRows(e)' : audit'[i].new = dev'[e].status
          \/ \E q \in Writing(e)' : NewStatus[proc'[q].op] = dev'[e].status
      BY <2>1, <2>2, <2>3, <2>5, <2>6
    <2>8. QED
      BY <2>4, <2>7 DEF Told
  <1>7. CASE WriteKyb(p)
    <2>1. Goto(p, "done") /\ audit' = audit /\ proc[p].op \in KybOps
      BY <1>7 DEF WriteKyb
    <2>2. dev' = dev
      BY <1>0, <2>1 DEF Unlogs
    <2>3. p \notin Writing(e)
      BY <2>1 DEF Writing, KybOps, StatusOps
    <2>4. QED
      BY <1>3, <2>1, <2>2, <2>3
  <1>8. CASE Fail(p)
    <2>1. Goto(p, "done") /\ UNCHANGED <<dev, audit>>
      BY <1>8 DEF Fail, rows
    <2>2. p \notin Writing(e)
      BY <1>0, <2>1 DEF Unlogs, Writing
    <2>3. QED
      BY <1>3, <2>1, <2>2
  <1>9. QED
    BY <1>0, <1>4, <1>5, <1>6, <1>7, <1>8, StatusSteps DEF BeginStatus, BeginKyb, StatusReqs

\* One that is alone, moreover, keeps the log in step with the status.
LEMMA OwnReplay ==
  ASSUME OInv, NEW p \in Procs, RequestStep(p), NEW e \in Emails, e = proc[p].email,
         proc'[p].op \in StatusReqs, e \notin crossed', e \notin unlogged', Alone(e), Replayed(e)
  PROVE  Replayed(e)'
  <1>0. Step(p) /\ ~Unlogs(p) /\ ~Beside(p, StatusReqs) /\ Based(proc[p])
    BY DEF RequestStep, Note, StatusReqs, OInv
  <1>1. Writing(e) \subseteq {p} /\ Reading(e) \subseteq {p}
    <2>1. PICK r \in Proc :
             /\ Moves(p, r)
             /\ \/ proc[p].pc = "new" /\ r.pc = "checked" /\ UNCHANGED rows
                \/ p \in Open /\ r.op = proc[p].op /\ r.pc \notin {"new", "checked"}
      BY <1>0, StepMoves
    <2>2. proc'[p] = r
      BY <2>1 DEF Moves
    <2>3. Writing(e) \cup Reading(e) \subseteq Busy(e, StatusReqs)
      BY DEF Writing, Reading, Busy, Open, StatusReqs
    <2>4. CASE p \in Open
      <3>1. p \in Busy(e, StatusReqs)
        BY <2>1, <2>2, <2>4 DEF Busy, Open
      <3>2. QED
        BY <2>3, <3>1 DEF Alone
    <2>5. CASE p \notin Open
      <3>1. Busy(e, StatusReqs) = {}
        BY <1>0, <2>1, <2>5 DEF Beside, Busy
      <3>2. QED
        BY <2>3, <3>1
    <2>6. QED
      BY <2>4, <2>5
  \* A step that leaves the developer and the log alone.
  <1>2. ASSUME UNCHANGED <<dev, audit>>, Writing(e) = {}, Writing(e)' = {},
               \A q \in Reading(e)' : proc'[q].read = dev[e].status
        PROVE  Replayed(e)'
    BY <1>2 DEF Replayed, Last, Exists, StatusRows
  <1>3. ASSUME NEW op \in Ops \cap StatusReqs, NEW read \in Statuses \cup {"none"}, Begin(p, op, read),
               read = dev[e].status
        PROVE  Replayed(e)'
    <2>1. /\ Writing(e)' = Writing(e) /\ p \notin Writing(e) /\ Reading(e)' \subseteq Reading(e) \cup {p}
          /\ proc'[p].read = read /\ UNCHANGED rows
      BY <1>3, BeginsReading
    <2>2. QED
      BY <1>1, <1>2, <1>3, <2>1 DEF rows
  <1>4. ASSUME Goto(p, "done"), UNCHANGED <<dev, audit>>, p \notin Writing(e) PROVE Replayed(e)'
    <2>1. Writing(e)' = Writing(e) \ {p} /\ Reading(e)' = Reading(e) \ {p}
      BY <1>4, EndsWriting
    <2>2. QED
      BY <1>1, <1>2, <1>4, <2>1
  <1>5. CASE \E op \in Ops \cap StatusReqs : Begin(p, op, dev[e].status) /\ Exists(e)
    BY <1>3, <1>5, DevRows
  <1>6. CASE WriteStatus(p)
    <2>1. /\ p \in Reading(e) /\ Writing(e)' = Writing(e) \cup {p} /\ Reading(e)' = Reading(e) \ {p}
          /\ proc'[p].read = proc[p].read /\ proc'[p].op = proc[p].op
          /\ Exists(e) /\ Exists(e)' /\ dev'[e].status = NewStatus[proc[p].op]
          /\ audit' = audit
      BY <1>6, WritesStatus
    <2>2. p \notin Writing(e)
      BY <2>1 DEF Writing, Reading
    <2>3. Writing(e) = {} /\ Writing(e)' = {p} /\ Reading(e)' = {}
      BY <1>1, <2>1, <2>2
    <2>4. dev[e].status = Last(e) /\ proc[p].read = dev[e].status
      BY <2>1, <2>3 DEF Replayed
    <2>5. Last(e)' = Last(e) /\ StatusRows(e)' = StatusRows(e)
      BY <2>1 DEF Last, StatusRows
    <2>6. \A q \in Writing(e)' : proc'[q].read = Last(e)' /\ dev'[e].status = NewStatus[proc'[q].op]
      BY <2>1, <2>3, <2>4, <2>5
    <2>7. QED
      BY <2>1, <2>3, <2>5, <2>6 DEF Replayed
  <1>7. CASE LogStatus(p)
    <2>1. Goto(p, "done") /\ dev' = dev /\ p \in Writing(e)
      BY <1>7 DEF LogStatus, Writing
    <2>2. Writing(e)' = {} /\ Reading(e)' = {}
      BY <1>1, <2>1, EndsWriting
    <2>3. /\ Len(audit) \in Nat /\ StatusRows(e) \subseteq 1..Len(audit)
          /\ audit'[Len(audit) + 1].previous = proc[p].read
          /\ \A i \in 1..Len(audit) : audit'[i] = audit[i]
          /\ StatusRows(e)' = StatusRows(e) \cup {Len(audit) + 1}
          /\ \A i \in 1..(Len(audit) + 1) : StatusAt(audit', e, i) = StatusAt(audit, e, i)
          /\ Last(e)' = NewStatus[proc[p].op]
      BY <1>7, StatusLogged
    <2>4. proc[p].read = Last(e) /\ dev[e].status = NewStatus[proc[p].op]
      BY <2>1 DEF Replayed
    <2>5. ASSUME NEW i \in StatusRows(e)' PROVE audit'[i].previous = StatusAt(audit', e, i)
      <3>1. CASE i = Len(audit) + 1
        <4>1. i \in 1..(Len(audit) + 1)
          BY <2>3, <3>1
        <4>2. StatusAt(audit', e, i) = Last(e)
          BY <2>3, <3>1, <4>1 DEF Last
        <4>3. QED
          BY <2>3, <2>4, <3>1, <4>2
      <3>2. CASE i \in StatusRows(e)
        <4>1. i \in 1..Len(audit) /\ i \in 1..(Len(audit) + 1)
          BY <2>3, <3>2
        <4>2. audit[i].previous = StatusAt(audit, e, i)
          BY <3>2 DEF Replayed
        <4>3. QED
          BY <2>3, <4>1, <4>2
      <3>3. QED
        BY <2>3, <2>5, <3>1, <3>2
    <2>6. Exists(e) /\ Exists(e)'
      BY <1>0, <1>7, <2>1 DEF Based, LogStatus, Exists
    <2>7. QED
      BY <2>1, <2>2, <2>3, <2>4, <2>5, <2>6 DEF Replayed
  <1>8. CASE WriteKyb(p)
    <2>1. Goto(p, "done") /\ audit' = audit /\ proc[p].op \in KybOps
      BY <1>8 DEF WriteKyb
    <2>2. dev' = dev
      BY <1>0, <2>1 DEF Unlogs
    <2>3. p \notin Writing(e)
      BY <2>1 DEF Writing, KybOps, StatusOps
    <2>4. QED
      BY <1>4, <2>1, <2>2, <2>3
  <1>9. CASE Fail(p)
    <2>1. Goto(p, "done") /\ UNCHANGED <<dev, audit>>
      BY <1>9 DEF Fail, rows
    <2>2. p \notin Writing(e)
      BY <1>0, <2>1 DEF Unlogs, Writing
    <2>3. QED
      BY <1>4, <2>1, <2>2
  <1>10. QED
    BY <1>0, <1>5, <1>6, <1>7, <1>8, <1>9, StatusSteps DEF BeginStatus, BeginKyb, StatusReqs

\* The status requests of an e-mail go on coming one by one when none begins beside another.
LEMMA StaysAlone ==
  ASSUME OInv, NEW p \in Procs, RequestStep(p), NEW e \in Emails, e \notin crossed', Alone(e)
  PROVE  Alone(e)'
  <1>1. PICK r \in Proc :
           /\ Moves(p, r) /\ r.email = proc[p].email
           /\ \/ proc[p].pc = "new" /\ r.pc = "checked" /\ UNCHANGED rows
              \/ p \in Open /\ r.op = proc[p].op /\ r.pc \notin {"new", "checked"}
    BY StepMoves DEF RequestStep
  <1>2. proc'[p] = r
    BY <1>1 DEF Moves
  <1>3. \/ Busy(e, StatusReqs)' = Busy(e, StatusReqs) \ {p}
        \/ /\ Busy(e, StatusReqs)' = Busy(e, StatusReqs) \cup {p}
           /\ r.email = e /\ r.op \in StatusReqs
    BY <1>1, BusyMoves
  <1>4. CASE Busy(e, StatusReqs)' \subseteq Busy(e, StatusReqs)
    BY <1>4 DEF Alone
  <1>5. CASE /\ Busy(e, StatusReqs)' = Busy(e, StatusReqs) \cup {p}
             /\ r.email = e /\ r.op \in StatusReqs /\ p \notin Busy(e, StatusReqs)
    <2>1. ~Beside(p, StatusReqs)
      BY <1>1, <1>5 DEF RequestStep, Note, StatusReqs
    <2>2. p \notin Open
      BY <1>1, <1>5 DEF Busy, Open
    <2>3. Busy(e, StatusReqs) = {}
      BY <1>1, <1>2, <1>5, <2>1, <2>2 DEF Beside, Busy
    <2>4. QED
      BY <1>5, <2>3 DEF Alone
  <1>6. QED
    BY <1>3, <1>4, <1>5

(***************************************************************************)
(* The log tells the status a developer has as long as every status that   *)
(* is written is logged, however requests meet; and replaying it gives     *)
(* that status, row after row, when the status requests of the e-mail come *)
(* one by one, for any number of requests and e-mails                      *)
(* (controllers/admin/developer.controller.ts).                            *)
(***************************************************************************)
THEOREM AuditLogReplays == Spec => []AuditReplays
  <1> DEFINE InStep(e) == /\ e \notin unlogged => Told(e)
                          /\ e \notin crossed => Alone(e)
                          /\ e \notin crossed /\ e \notin unlogged => Replayed(e)
             RInv == \A e \in Emails : InStep(e)
  <1>1. Init => RInv
    <2> SUFFICES ASSUME Init, NEW e \in Emails PROVE Told(e) /\ Alone(e) /\ Replayed(e)
      OBVIOUS
    <2>1. ~Exists(e) /\ StatusRows(e) = {}
      BY DEF Init, Exists, RowsOf, StatusRows
    <2>2. Writing(e) = {} /\ Reading(e) = {} /\ Busy(e, StatusReqs) = {}
      BY DEF Init, Writing, Reading, Busy, Open
    <2>3. QED
      BY <2>1, <2>2 DEF Told, Alone, Replayed
  <1>2. ASSUME OInv, RInv, [Next]_vars PROVE RInv'
    <2>1. ASSUME NEW p \in Procs, RequestStep(p), NEW e \in Emails PROVE InStep(e)'
      <3>0. Step(p) /\ InStep(e)
        BY <1>2, <2>1 DEF RequestStep
      <3>1. crossed \subseteq crossed' /\ unlogged \subseteq unlogged'
        BY <2>1 DEF RequestStep, Note
      <3>2. e \notin crossed' => Alone(e)'
        BY <1>2, <2>1, <3>0, <3>1, StaysAlone
      <3>3. CASE proc[p].email # e \/ proc'[p].op \notin StatusReqs
        <4>1. (Told(e) => Told(e)') /\ (Replayed(e) => Replayed(e)')
          BY <1>2, <2>1, <3>0, <3>3, OthersTold
        <4>2. QED
          BY <3>0, <3>1, <3>2, <4>1
      <3>4. CASE proc[p].email = e /\ proc'[p].op \in StatusReqs
        <4>1. e \notin unlogged' => Told(e)'
          BY <1>2, <2>1, <3>0, <3>1, <3>4, OwnTold
        <4>2. e \notin crossed' /\ e \notin unlogged' => Replayed(e)'
          BY <1>2, <2>1, <3>0, <3>1, <3>4, OwnReplay
        <4>3. QED
          BY <3>2, <4>1, <4>2
      <3>5. QED
        BY <3>3, <3>4
    <2>2. CASE UNCHANGED <<rows, proc, histories>>
      <3>1. UNCHANGED <<dev, audit, proc, crossed, unlogged>>
        BY <2>2 DEF rows, histories
      <3>2. \A e \in Emails : /\ Writing(e)' = Writing(e) /\ Reading(e)' = Reading(e)
                              /\ Busy(e, StatusReqs)' = Busy(e, StatusReqs)
                              /\ StatusRows(e)' = StatusRows(e) /\ Last(e)' = Last(e)
                              /\ (Exists(e)' <=> Exists(e))
        BY <3>1 DEF Writing, Reading, Busy, Open, StatusRows, Last, Exists
      <3>3. QED
        BY <1>2, <3>1, <3>2 DEF Told, Alone, Replayed
    <2>3. QED
      BY <1>2, <2>1, <2>2, NextSteps DEF CatalogStep, vars, rows, histories
  <1>3. ASSUME OInv, RInv PROVE AuditReplays
    <2> DEFINE Settled(e) == Exists(e) /\ \A p \in Open : proc[p].email = e => proc[p].pc # "written"
    <2> SUFFICES ASSUME NEW e \in Emails \ unlogged
                 PROVE  /\ Settled(e) => dev[e].status \in IF StatusRows(e) = {} THEN {"active"}
                                                           ELSE {audit[i].new : i \in StatusRows(e)}
                        /\ e \notin crossed =>
                             /\ \A i \in StatusRows(e) : audit[i].previous = StatusAt(audit, e, i)
                             /\ Settled(e) => dev[e].status = StatusAt(audit, e, Len(audit) + 1)
      BY DEF AuditReplays, StatusRows
    <2>1. Told(e) /\ (e \notin crossed => Replayed(e))
      BY <1>3
    <2>2. Settled(e) => Exists(e) /\ Writing(e) = {}
      BY DEF Writing, Open
    <2>3. Settled(e) => dev[e].status \in IF StatusRows(e) = {} THEN {"active"}
                                          ELSE {audit[i].new : i \in StatusRows(e)}
      BY <2>1, <2>2 DEF Told
    <2>4. QED
      BY <2>1, <2>2, <2>3 DEF Replayed, Last
  <1>4. QED
    BY <1>1, <1>2, <1>3, SpecOInv, PTL DEF Spec
=============================================================================
