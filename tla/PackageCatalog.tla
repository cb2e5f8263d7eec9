--------------------------- MODULE PackageCatalog ---------------------------
(***************************************************************************)
(* The packages of one type (controllers/admin/package.controller.ts).     *)
(* A new package takes the place of the one on sale: the row that is found *)
(* active is made inactive, the highest version is read, and the new row   *)
(* inserted, in four statements.  Prices and limits are data.              *)
(***************************************************************************)
EXTENDS Integers, FiniteSetsExt

CONSTANTS
  Creators,  \* requests that create a package
  MayEdit    \* bound: how often a package is edited or deleted

ASSUME EditAssumption == MayEdit \in Nat

VARIABLES
  pkgs,      \* packages: the versions of the type, and which are on sale
  creator,   \* the requests
  edits,     \* how many edits and deletions there were
  crowded,   \* how often a creation began beside another one, or an edit put a package
             \* on sale beside another one or a creation (history)
  lost       \* a creation failed after it took a package from sale, or an edit took one (history)

catalogVars == <<pkgs, creator, edits, crowded, lost>>

CreatorPcs == {"new", "found", "cleared", "numbered", "over"}
Catalog == [versions : SUBSET Nat, active : SUBSET Nat]
Creator == [pc : CreatorPcs, version : Nat]

InitCatalog ==
  /\ pkgs = [versions |-> {1}, active |-> {1}]
  /\ creator = [c \in Creators |-> [pc |-> "new", version |-> 0]]
  /\ edits = 0 /\ crowded = 0 /\ lost = FALSE

-----------------------------------------------------------------------------
Creating == {c \in Creators : creator[c].pc \notin {"new", "over"}}
GotoCreator(c, pc, version) == creator' = [creator EXCEPT ![c] = [pc |-> pc, version |-> version]]

(* findByCodeAndStatus: one of the packages on sale, or none (0). *)
FindActive(c) ==
  /\ creator[c].pc = "new"
  /\ \/ \E v \in pkgs.active : GotoCreator(c, "found", v)
     \/ pkgs.active = {} /\ GotoCreator(c, "found", 0)
  /\ crowded' = IF Creating # {} THEN crowded + 1 ELSE crowded
  /\ UNCHANGED <<pkgs, edits, lost>>

\* Bug: the package found is left on sale until the new one is there.
DeactivateLater(c) ==
  /\ creator[c].pc = "found"
  /\ GotoCreator(c, "cleared", creator[c].version)
  /\ UNCHANGED <<pkgs, edits, crowded, lost>>

(* It is taken from sale, whatever has become of it.  The update of a      *)
(* deleted row fails.                                                      *)
Deactivate(c) ==
  LET v == creator[c].version IN
  /\ creator[c].pc = "found" /\ v \in pkgs.versions \cup {0}
  /\ GotoCreator(c, "cleared", 0)
  /\ pkgs' = [pkgs EXCEPT !.active = @ \ {v}]
  /\ UNCHANGED <<edits, crowded, lost>>

(* getMaxVersion. *)
NextVersion(c) ==
  /\ creator[c].pc = "cleared"
  /\ GotoCreator(c, "numbered", Max(pkgs.versions \cup {0}) + 1)
  /\ UNCHANGED <<pkgs, edits, crowded, lost>>

(* create: the table refuses a version that is taken by now. *)
CreatePackage(c) ==
  LET v == creator[c].version IN
  /\ creator[c].pc = "numbered" /\ v \notin pkgs.versions
  /\ GotoCreator(c, "over", 0)
  /\ pkgs' = [versions |-> pkgs.versions \cup {v}, active |-> pkgs.active \cup {v}]
  /\ UNCHANGED <<edits, crowded, lost>>

(* A statement fails, or the process stops. *)
FailCreate(c) ==
  /\ c \in Creating
  /\ GotoCreator(c, "over", 0)
  /\ lost' = (lost \/ creator[c].pc # "found")
  /\ UNCHANGED <<pkgs, edits, crowded>>

(* updatePackage sets any status, or another type, which takes the package *)
(* from this one; deletePackage deletes a row that no subscription refers  *)
(* to.  Neither looks at the other versions.                               *)
EditPackage ==
  /\ edits < MayEdit
  /\ edits' = edits + 1
  /\ \E v \in pkgs.versions :
       pkgs' \in {[pkgs EXCEPT !.active = @ \cup {v}], [pkgs EXCEPT !.active = @ \ {v}],
                  [versions |-> pkgs.versions \ {v}, active |-> pkgs.active \ {v}]}
  /\ crowded' = IF pkgs'.active \subseteq pkgs.active \/ (pkgs.active = {} /\ Creating = {})
                THEN crowded ELSE crowded + 1
  /\ lost' = (lost \/ ~(pkgs.active \subseteq pkgs'.active))
  /\ UNCHANGED creator

CatalogNext ==
  \/ \E c \in Creators : FindActive(c) \/ Deactivate(c) \/ NextVersion(c) \/ CreatePackage(c) \/ FailCreate(c)
  \/ EditPackage

-----------------------------------------------------------------------------
CatalogTypeOK ==
  /\ pkgs \in Catalog
  /\ creator \in [Creators -> Creator]
  /\ edits \in 0..MayEdit /\ crowded \in Nat /\ lost \in BOOLEAN

(* "Deactivate all active packages of the same type"                       *)
(* (package.controller.ts:97).  There is a package on sale, or a creation  *)
(* under way that took it, until a creation fails there or an edit takes   *)
(* the package; and there is one, however many creations meet or fail,     *)
(* plus at most one for each creation that began beside another and each   *)
(* edit that put a second package on sale.                                 *)
OneOnSale ==
  /\ ~lost => pkgs.active # {} \/ \E c \in Creators : creator[c].pc \in {"cleared", "numbered"}
  /\ Cardinality(pkgs.active) <= 1 + crowded
=============================================================================
