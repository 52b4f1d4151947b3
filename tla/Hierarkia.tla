-------------------------------- MODULE Hierarkia ------------------------------
(***************************************************************************)
(* The hierarchy of organisations that rights are read with, in two caches *)
(* one over the other.  OrganisaatioServiceImpl's client keeps the whole   *)
(* of it for two hours from its loading.  What OrganisaatioService cuts    *)
(* from that for one organisation, a slice, it keeps for 45 minutes from   *)
(* the cutting, however old the whole was then.  A load that fails leaves  *)
(* both as they are.                                                       *)
(*                                                                         *)
(* One server; the whole is its age, HierarchyAge when there is none.  The *)
(* scheduled task loads a hierarchy as well, into a client of its own that *)
(* nothing else reads, and is left out.  Paasy composes the module.        *)
(***************************************************************************)
EXTENDS Naturals

CONSTANTS
    Organisations,  \* that people have rights in
    HierarchyAge,   \* when the whole expires
    SliceAge        \* when a slice expires

ASSUME HierarchyAssumption == HierarchyAge \in Nat \ {0} /\ SliceAge \in Nat \ {0}

VARIABLES
    whole,          \* wholeHierarkiaCache
    slice           \* hierarkiaCache: since when it is there, and the age of what it shows

hierarchyVars == <<whole, slice>>

Slices == [age : 0 .. SliceAge, source : 0 .. HierarchyAge + SliceAge]
NoSlice == [age |-> SliceAge, source |-> 0]

HierarchyInit == whole = HierarchyAge /\ slice = [oid \in Organisations |-> NoSlice]

(* Caffeine's get: what has expired is loaded first. *)
Get(age) == IF age < HierarchyAge THEN age ELSE 0

Sliced(oid) == slice[oid].age < SliceAge

Found_Renewed(oid) ==                                            \* faulty
    IF Sliced(oid) THEN [slice[oid] EXCEPT !.age = 0] ELSE [age |-> 0, source |-> Get(whole)]

(* The slice, cut anew from the whole if it has expired. *)
Found(oid) == IF Sliced(oid) THEN slice[oid] ELSE [age |-> 0, source |-> Get(whole)]

(* getHierarkiaFromCache: the whole is asked for only by a slice that is missing. *)
ReadHierarchy(oid) ==
    /\ slice' = [slice EXCEPT ![oid] = Found(oid)]
    /\ whole' = IF Sliced(oid) THEN whole ELSE Get(whole)

(* findMatchingOppilaitosBranches and what looks through the whole tree. *)
ReadWhole == whole' = Get(whole) /\ UNCHANGED slice

SlicesAging ==
    slice' = [oid \in Organisations |->
                IF slice[oid].age + 1 < SliceAge
                THEN [age |-> slice[oid].age + 1, source |-> slice[oid].source + 1] ELSE NoSlice]

HierarchyAging_KeepsWhole == SlicesAging /\ whole' = whole + 1   \* faulty

HierarchyAging == SlicesAging /\ whole' = IF whole < HierarchyAge THEN whole + 1 ELSE whole

HierarchyRestart == whole' = HierarchyAge /\ slice' = [oid \in Organisations |-> NoSlice]

HierarchyTypeOK == whole \in 0 .. HierarchyAge /\ slice \in [Organisations -> Slices]
=============================================================================
