------------------------ MODULE TableSelection_proofs ------------------------
(***************************************************************************)
(* What resolution and split compute, for every catalog, override file and *)
(* batch size.  The merge of the extra entries is a fold, and the batches  *)
(* count names in sorted order; both are followed by induction over the    *)
(* natural numbers, as a fact about sets of them.                          *)
(***************************************************************************)
EXTENDS TableSelection, TLAPS, FiniteSetTheorems, WellFoundedInduction

-----------------------------------------------------------------------------
(* Natural numbers *)

LEMMA LeastNat ==
    ASSUME NEW T, T \subseteq Nat, T # {}
    PROVE  \E x \in T : \A y \in T : x <= y
<1> DEFINE R == {ss \in Nat \X Nat : ss[1] < ss[2]}
<1>1. IsWellFoundedOn(R, Nat)
    BY NatLessThanWellFounded DEF OpToRel
<1>2. PICK x \in T : \A y \in T : ~ (<<y, x>> \in R)
  <2> HIDE DEF R
  <2> QED
      BY <1>1, WFMin
<1>3. \A y \in T : ~ (y < x)
    BY <1>2
<1> QED
    BY <1>3

\* Induction over the natural numbers, for what is said as membership in a set.
LEMMA InductiveSet ==
    ASSUME NEW S, 0 \in S, \A n \in Nat : n \in S => n + 1 \in S
    PROVE  \A n \in Nat : n \in S
<1> SUFFICES ASSUME Nat \ S # {} PROVE FALSE
    OBVIOUS
<1>1. PICK x \in Nat \ S : \A y \in Nat \ S : x <= y
    BY LeastNat
<1>2. x - 1 \in Nat /\ x - 1 \in S
    BY <1>1
<1> QED
    BY <1>2

LEMMA GreatestOf ==
    ASSUME NEW n \in Nat, NEW s \in SUBSET (1..n), s # {}
    PROVE  /\ Max(s) \in s /\ \A x \in s : x <= Max(s)
           /\ s \ {Max(s)} \in SUBSET (1..(n - 1))
<1> DEFINE T == {y \in Nat : \E x \in s : y = n - x}
<1>1. \A x \in s : x \in Int /\ 1 <= x /\ x <= n
    OBVIOUS
<1>2. \A x \in s : n - x \in T
    BY <1>1
<1>3. PICK t \in T : \A z \in T : t <= z
  <2>1. T \subseteq Nat /\ T # {}
      BY <1>2
  <2> HIDE DEF T
  <2> QED
      BY <2>1, LeastNat
<1>4. PICK x \in s : t = n - x
    OBVIOUS
<1>5. \A z \in s : n - x <= n - z
    BY <1>2, <1>3, <1>4
<1>6. \E y \in s : \A z \in s : y >= z
    BY <1>1, <1>5
<1>7. Max(s) \in s /\ \A z \in s : Max(s) >= z
    BY <1>6 DEF Max
<1>8. PICK m \in s : m = Max(s)
    BY <1>7
<1>9. \A z \in s \ {m} : z \in 1..(n - 1)
    BY <1>1, <1>7, <1>8
<1>10. \A z \in s : z <= Max(s)
    BY <1>1, <1>7, <1>8
<1> QED
    BY <1>7, <1>8, <1>9, <1>10

-----------------------------------------------------------------------------
(* The merge of the extra entries *)

\* FoldLeft is a recursive function over the subsets of the indices, with this body.
MergeBody(catalog, ov, base, f, s) ==
    IF s = {} THEN base ELSE ApplyExtra(catalog, ov, f[s \ {Max(s)}], ov.extra[Max(s)])

MergeFunction(catalog, ov, base, n, f) ==
    [s \in SUBSET (1..n) |-> MergeBody(catalog, ov, base, f, s)]

\* That there is such a function, for the indices up to any n: by induction on n.
LEMMA MergeDefined ==
    ASSUME NEW catalog, NEW ov, NEW base, NEW n \in Nat
    PROVE  \E f : f = MergeFunction(catalog, ov, base, n, f)
<1> DEFINE Body(f, s) == MergeBody(catalog, ov, base, f, s)
           S == {k \in Nat : \E f : f = MergeFunction(catalog, ov, base, k, f)}
<1>1. 0 \in S
  <2> DEFINE f == [s \in SUBSET (1..0) |-> base]
  <2>1. \A s \in SUBSET (1..0) : s = {}
      OBVIOUS
  <2>2. \A s \in SUBSET (1..0) : base = Body(f, s)
      BY <2>1 DEF MergeBody
  <2>3. f = [s \in SUBSET (1..0) |-> Body(f, s)]
      BY <2>2
  <2>4. f = MergeFunction(catalog, ov, base, 0, f)
      BY <2>3 DEF MergeFunction
  <2> HIDE DEF f
  <2> QED
      BY <2>4
<1>2. ASSUME NEW k \in Nat, k \in S PROVE k + 1 \in S
  <2>1. PICK f : f = [s \in SUBSET (1..k) |-> Body(f, s)]
      BY <1>2 DEF MergeFunction
  <2> DEFINE g == [s \in SUBSET (1..(k + 1)) |-> Body(f, s)]
  <2>2. ASSUME NEW s \in SUBSET (1..(k + 1)), s # {}
        PROVE  f[s \ {Max(s)}] = g[s \ {Max(s)}]
    <3>1. k + 1 \in Nat /\ (k + 1) - 1 = k
        OBVIOUS
    <3>2. s \ {Max(s)} \in SUBSET (1..k)
        BY <2>2, <3>1, GreatestOf
    <3>3. s \ {Max(s)} \in SUBSET (1..(k + 1))
        OBVIOUS
    <3> QED
        BY <2>1, <3>2, <3>3
  <2>3. \A s \in SUBSET (1..(k + 1)) : Body(f, s) = Body(g, s)
      BY <2>2 DEF MergeBody
  <2>4. g = [s \in SUBSET (1..(k + 1)) |-> Body(g, s)]
      BY <2>3
  <2>5. g = MergeFunction(catalog, ov, base, k + 1, g)
      BY <2>4 DEF MergeFunction
  <2> HIDE DEF g
  <2> QED
      BY <2>5
<1>3. n \in S
  <2> HIDE DEF S
  <2> QED
      BY <1>1, <1>2, InductiveSet
<1> QED
    BY <1>3

\* An empty result is an error too.
OrEmpty(acc) == [acc EXCEPT !.ok = @ /\ DOMAIN acc.tables # {}]

\* The states of the merge after each entry, and what Resolve makes of the last.
LEMMA MergeSteps ==
    ASSUME NEW catalog, NEW ov, ov.extra \in Seq(ExtraRows)
    PROVE  \E acc :
              /\ acc[0] = [ok |-> TRUE, tables |-> FromCommon(catalog, ov)]
              /\ \A i \in 1..Len(ov.extra) :
                    acc[i] = ApplyExtra(catalog, ov, acc[i - 1], ov.extra[i])
              /\ Resolve(catalog, ov) = OrEmpty(acc[Len(ov.extra)])
<1> DEFINE n == Len(ov.extra)
           base == [ok |-> TRUE, tables |-> FromCommon(catalog, ov)]
           iter == CHOOSE f : f = MergeFunction(catalog, ov, base, n, f)
           acc == [i \in 0..n |-> iter[1..i]]
<1>1. n \in Nat /\ DOMAIN ov.extra = 1..n
    OBVIOUS
<1>2. Resolve(catalog, ov) = OrEmpty(iter[1..n])
    BY <1>1, Zenon DEF OrEmpty, Resolve, FoldLeft, MapThenFoldSet, MergeFunction, MergeBody
<1> HIDE DEF n, base
<1>3. \E f : f = MergeFunction(catalog, ov, base, n, f)
    BY <1>1, MergeDefined
<1>4. iter = [s \in SUBSET (1..n) |-> MergeBody(catalog, ov, base, iter, s)]
  <2>1. iter = MergeFunction(catalog, ov, base, n, iter)
      BY <1>3, Zenon
  <2> HIDE DEF iter
  <2> QED
      BY <2>1 DEF MergeFunction
<1> HIDE DEF iter
<1>5. acc[0] = base
  <2>1. 1..0 \in SUBSET (1..n) /\ 1..0 = {} /\ 0 \in 0..n
      BY <1>1
  <2> QED
      BY <1>4, <2>1 DEF MergeBody
<1>6. ASSUME NEW i \in 1..n
      PROVE  acc[i] = ApplyExtra(catalog, ov, acc[i - 1], ov.extra[i])
  <2>1. i \in Nat /\ 1 <= i /\ i <= n /\ i - 1 \in 0..n /\ i \in 0..n
      BY <1>1
  <2>2. \A j \in 1..i : j \in 1..n
      BY <1>1, <2>1
  <2>3. i \in 1..i /\ 1..i \in SUBSET (1..i)
      BY <2>1
  <2>4. Max(1..i) \in 1..i /\ i <= Max(1..i)
      BY <2>1, <2>3, GreatestOf
  <2>5. Max(1..i) = i
      BY <2>1, <2>4
  <2>6. (1..i) \ {i} = 1..(i - 1)
      BY <2>1
  <2>7. iter[1..i] = MergeBody(catalog, ov, base, iter, 1..i)
      BY <1>4, <2>2
  <2>8. iter[1..i] = ApplyExtra(catalog, ov, iter[1..(i - 1)], ov.extra[i])
      BY <2>3, <2>5, <2>6, <2>7 DEF MergeBody
  <2> QED
      BY <2>1, <2>8
<1>7. acc[n] = iter[1..n]
    BY <1>1
<1> HIDE DEF acc
<1>8. Resolve(catalog, ov) = OrEmpty(acc[n])
    BY <1>2, <1>7
<1> QED
    BY <1>5, <1>6, <1>8 DEF n, base

\* The merge after the first i entries: it has failed if one of them collides; each
\* name stands as its latest entry says, or as in the catalog if it has none.
LatestEntry(ov, i, j) == \A k \in (j + 1)..i : ov.extra[k].nm # ov.extra[j].nm

Unmentioned(ov, i, nm) == \A k \in 1..i : ov.extra[k].nm # nm

MergedShape(acc) ==
    /\ DOMAIN acc = {"ok", "tables"} /\ acc.ok \in BOOLEAN
    /\ DOMAIN acc.tables \subseteq Nat /\ IsFiniteSet(DOMAIN acc.tables)

MergedOk(catalog, ov, i, acc) ==
    acc.ok <=> \A j \in 1..i : ov.extra[j].active => ~Collides(catalog, ov, ov.extra[j].nm)

MergedExtras(ov, i, acc) ==
    \A j \in 1..i : LatestEntry(ov, i, j) =>
        LET e == ov.extra[j]
        IN  /\ e.nm \in DOMAIN acc.tables <=> e.active
            /\ e.active => acc.tables[e.nm] = Effective(e.nm, "extra", e.recon)

MergedCommons(catalog, ov, i, acc) ==
    \A nm \in Nat : Unmentioned(ov, i, nm) =>
        LET common == FromCommon(catalog, ov)
        IN  /\ nm \in DOMAIN acc.tables <=> nm \in DOMAIN common
            /\ nm \in DOMAIN common => acc.tables[nm] = common[nm]

MergedTo(catalog, ov, i, acc) ==
    /\ MergedShape(acc)
    /\ MergedOk(catalog, ov, i, acc)
    /\ acc.ok => MergedExtras(ov, i, acc) /\ MergedCommons(catalog, ov, i, acc)

LEMMA MergeStep ==
    ASSUME NEW catalog, NEW ov, ov.extra \in Seq(ExtraRows),
           NEW i \in Nat, i + 1 \in 1..Len(ov.extra), NEW acc, MergedTo(catalog, ov, i, acc)
    PROVE  MergedTo(catalog, ov, i + 1, ApplyExtra(catalog, ov, acc, ov.extra[i + 1]))
<1> DEFINE e == ov.extra[i + 1]
           next == ApplyExtra(catalog, ov, acc, e)
<1>1. e.nm \in Nat /\ e.active \in BOOLEAN
  <2>1. e \in ExtraRows
      OBVIOUS
  <2> QED
      BY <2>1 DEF ExtraRows
<1>2. /\ DOMAIN acc = {"ok", "tables"} /\ acc.ok \in BOOLEAN
      /\ DOMAIN acc.tables \subseteq Nat /\ IsFiniteSet(DOMAIN acc.tables)
    BY DEF MergedTo, MergedShape
<1>3. ASSUME NEW j \in 1..(i + 1), LatestEntry(ov, i + 1, j), j # i + 1
      PROVE  j \in 1..i /\ LatestEntry(ov, i, j) /\ ov.extra[j].nm # e.nm
  <2>1. j \in 1..i /\ i + 1 \in (j + 1)..(i + 1)
      BY <1>3
  <2>2. \A k \in (j + 1)..i : k \in (j + 1)..(i + 1)
      BY <2>1
  <2> QED
      BY <1>3, <2>1, <2>2 DEF LatestEntry
<1>4. ASSUME NEW nm, Unmentioned(ov, i + 1, nm)
      PROVE  Unmentioned(ov, i, nm) /\ nm # e.nm
    BY <1>4 DEF Unmentioned
<1>5. \A j \in 1..(i + 1) : j \in 1..i \/ j = i + 1
    OBVIOUS
<1>6. i + 1 \in 1..(i + 1) /\ \A j \in 1..i : j \in 1..(i + 1)
    OBVIOUS
<1>7. CASE ~acc.ok
  <2>1. next = acc
      BY <1>2, <1>7 DEF ApplyExtra
  <2>2. MergedOk(catalog, ov, i + 1, next)
      BY <1>6, <1>7, <2>1 DEF MergedTo, MergedOk
  <2> QED
      BY <1>7, <2>1, <2>2 DEF MergedTo
<1>8. CASE acc.ok /\ ~e.active
  <2>1. next = [acc EXCEPT !.tables = Restrict(@, DOMAIN @ \ {e.nm})]
      BY <1>2, <1>8, Zenon DEF ApplyExtra
  <2>2. /\ DOMAIN next = {"ok", "tables"} /\ next.ok = acc.ok
        /\ next.tables = Restrict(acc.tables, DOMAIN acc.tables \ {e.nm})
      BY <1>2, <2>1
  <2> HIDE DEF next
  <2>3. /\ DOMAIN next.tables = DOMAIN acc.tables \ {e.nm}
        /\ \A nm \in DOMAIN next.tables : next.tables[nm] = acc.tables[nm]
      BY <2>2 DEF Restrict
  <2>4. MergedShape(next)
      BY <1>2, <2>2, <2>3, FS_Subset DEF MergedShape
  <2>5. MergedOk(catalog, ov, i + 1, next)
      BY <1>5, <1>6, <1>8, <2>2 DEF MergedTo, MergedOk
  <2>6. MergedExtras(ov, i + 1, next)
      BY <1>3, <1>8, <2>3 DEF MergedTo, MergedExtras
  <2>7. MergedCommons(catalog, ov, i + 1, next)
      BY <1>4, <1>8, <2>3 DEF MergedTo, MergedCommons
  <2> QED
      BY <2>4, <2>5, <2>6, <2>7 DEF MergedTo, next
<1>9. CASE acc.ok /\ e.active /\ Collides(catalog, ov, e.nm)
  <2>1. next = [acc EXCEPT !.ok = FALSE]
      BY <1>2, <1>9, Zenon DEF ApplyExtra
  <2>2. /\ DOMAIN next = {"ok", "tables"} /\ next.ok = FALSE
        /\ next.tables = acc.tables
      BY <1>2, <2>1
  <2> HIDE DEF next
  <2>3. MergedShape(next)
      BY <1>2, <2>2 DEF MergedShape
  <2>4. MergedOk(catalog, ov, i + 1, next)
      BY <1>6, <1>9, <2>2 DEF MergedOk
  <2> QED
      BY <2>2, <2>3, <2>4 DEF MergedTo, next
<1>10. CASE acc.ok /\ e.active /\ ~Collides(catalog, ov, e.nm)
  <2>1. next = [acc EXCEPT !.tables = Put(@, e.nm, Effective(e.nm, "extra", e.recon))]
      BY <1>2, <1>10, Zenon DEF ApplyExtra
  <2>2. /\ DOMAIN next = {"ok", "tables"} /\ next.ok = acc.ok
        /\ next.tables = Put(acc.tables, e.nm, Effective(e.nm, "extra", e.recon))
      BY <1>2, <2>1
  <2> HIDE DEF next
  <2>3. /\ DOMAIN next.tables = DOMAIN acc.tables \cup {e.nm}
        /\ next.tables[e.nm] = Effective(e.nm, "extra", e.recon)
        /\ \A nm \in DOMAIN acc.tables \ {e.nm} : next.tables[nm] = acc.tables[nm]
      BY <2>2 DEF Put
  <2>4. MergedShape(next)
    <3>1. IsFiniteSet(DOMAIN next.tables)
        BY <1>2, <2>3, FS_AddElement
    <3> QED
        BY <1>1, <1>2, <2>2, <2>3, <3>1 DEF MergedShape
  <2>5. MergedOk(catalog, ov, i + 1, next)
      BY <1>5, <1>6, <1>10, <2>2 DEF MergedTo, MergedOk
  <2>6. MergedExtras(ov, i + 1, next)
      BY <1>3, <1>10, <2>3 DEF MergedTo, MergedExtras
  <2>7. MergedCommons(catalog, ov, i + 1, next)
      BY <1>4, <1>10, <2>3 DEF MergedTo, MergedCommons
  <2> QED
      BY <2>4, <2>5, <2>6, <2>7 DEF MergedTo, next
<1> QED
    BY <1>1, <1>2, <1>7, <1>8, <1>9, <1>10

LEMMA MergeResult ==
    ASSUME NEW catalog, IsCatalog(catalog), NEW ov \in OverrideSets
    PROVE  \E acc : /\ MergedTo(catalog, ov, Len(ov.extra), acc)
                    /\ Resolve(catalog, ov) = OrEmpty(acc)
<1> DEFINE n == Len(ov.extra)
<1>1. ov.extra \in Seq(ExtraRows) /\ n \in Nat
    BY DEF OverrideSets
<1>2. PICK acc :
          /\ acc[0] = [ok |-> TRUE, tables |-> FromCommon(catalog, ov)]
          /\ \A i \in 1..n : acc[i] = ApplyExtra(catalog, ov, acc[i - 1], ov.extra[i])
          /\ Resolve(catalog, ov) = OrEmpty(acc[n])
    BY <1>1, MergeSteps
<1> DEFINE S == {i \in Nat : i <= n => MergedTo(catalog, ov, i, acc[i])}
<1>3. 0 \in S
  <2>1. DOMAIN FromCommon(catalog, ov) \subseteq DOMAIN catalog
      BY DEF FromCommon
  <2>2. /\ DOMAIN FromCommon(catalog, ov) \subseteq Nat
        /\ IsFiniteSet(DOMAIN FromCommon(catalog, ov))
      BY <2>1, FS_Subset DEF IsCatalog
  <2>3. MergedShape(acc[0])
      BY <1>2, <2>2 DEF MergedShape
  <2>4. MergedOk(catalog, ov, 0, acc[0]) /\ MergedExtras(ov, 0, acc[0])
      BY <1>2 DEF MergedOk, MergedExtras
  <2>5. MergedCommons(catalog, ov, 0, acc[0])
      BY <1>2 DEF MergedCommons
  <2> QED
      BY <2>3, <2>4, <2>5 DEF MergedTo
<1>4. ASSUME NEW i \in Nat, i \in S PROVE i + 1 \in S
  <2> SUFFICES ASSUME i + 1 <= n PROVE MergedTo(catalog, ov, i + 1, acc[i + 1])
      OBVIOUS
  <2>1. i + 1 \in 1..n /\ MergedTo(catalog, ov, i, acc[i])
      BY <1>1, <1>4
  <2>2. acc[i + 1] = ApplyExtra(catalog, ov, acc[i], ov.extra[i + 1])
      BY <1>2, <2>1
  <2> QED
      BY <1>1, <2>1, <2>2, MergeStep
<1>5. n \in S
  <2> HIDE DEF S
  <2> QED
      BY <1>1, <1>3, <1>4, InductiveSet
<1>6. MergedTo(catalog, ov, n, acc[n])
    BY <1>1, <1>5
<1> QED
    BY <1>2, <1>6

-----------------------------------------------------------------------------
(* What the merge amounts to *)

LEMMA IgnoredMeans ==
    ASSUME NEW ov \in OverrideSets, NEW nm
    PROVE  nm \notin Ignored(ov) <=> \A item \in ov.ignore : item.nm = nm => item.active
<1>1. \A item \in ov.ignore : item.active \in BOOLEAN
  <2>1. ov.ignore \subseteq IgnoreRows
      BY DEF OverrideSets
  <2> QED
      BY <2>1 DEF IgnoreRows
<1> QED
    BY <1>1 DEF Ignored

LEMMA FromCommonMeans ==
    ASSUME NEW catalog, NEW ov \in OverrideSets, NEW nm
    PROVE  nm \in DOMAIN FromCommon(catalog, ov)
              <=> nm \in DOMAIN catalog /\ catalog[nm].active /\ Kept(ov, nm)
    BY IgnoredMeans DEF FromCommon, Kept

LEMMA FailsIfAmbiguous ==
    ASSUME NEW catalog, NEW ov \in OverrideSets, NEW acc, MergedOk(catalog, ov, Len(ov.extra), acc)
    PROVE  acc.ok <=> ~Ambiguous(catalog, ov)
<1>1. DOMAIN ov.extra = 1..Len(ov.extra)
    BY DEF OverrideSets
<1> QED
    BY <1>1, IgnoredMeans DEF MergedOk, Collides, Ambiguous

\* The two cases of Declared, at the end of the merge.
LEMMA LastEntryDecides ==
    ASSUME NEW catalog, NEW ov \in OverrideSets, NEW acc,
           MergedExtras(ov, Len(ov.extra), acc),
           NEW nm, Entries(ov, nm) # {}
    PROVE  LET e == ov.extra[Max(Entries(ov, nm))]
           IN  /\ Max(Entries(ov, nm)) \in DOMAIN ov.extra
               /\ nm \in DOMAIN acc.tables <=> e.active
               /\ e.active => acc.tables[nm] = Effective(nm, "extra", e.recon)
<1> DEFINE n == Len(ov.extra)
           j == Max(Entries(ov, nm))
<1>1. n \in Nat /\ DOMAIN ov.extra = 1..n
    BY DEF OverrideSets
<1>2. Entries(ov, nm) \in SUBSET (1..n)
    BY <1>1 DEF Entries
<1>3. j \in Entries(ov, nm) /\ \A k \in Entries(ov, nm) : k <= j
    BY <1>1, <1>2, GreatestOf
<1> HIDE DEF j
<1>4. j \in 1..n /\ ov.extra[j].nm = nm
    BY <1>1, <1>3 DEF Entries
<1>5. \A k \in (j + 1)..n : k \in 1..n /\ ~ (k <= j)
    BY <1>1, <1>4
<1>6. LatestEntry(ov, n, j)
    BY <1>1, <1>3, <1>4, <1>5 DEF LatestEntry, Entries
<1>7. /\ nm \in DOMAIN acc.tables <=> ov.extra[j].active
      /\ ov.extra[j].active => acc.tables[nm] = Effective(nm, "extra", ov.extra[j].recon)
    BY <1>4, <1>6 DEF MergedExtras
<1> QED
    BY <1>1, <1>4, <1>7 DEF j

LEMMA CatalogDecides ==
    ASSUME NEW catalog, NEW ov \in OverrideSets, NEW acc,
           MergedCommons(catalog, ov, Len(ov.extra), acc),
           NEW nm \in Nat, Entries(ov, nm) = {}
    PROVE  /\ nm \in DOMAIN acc.tables
                 <=> nm \in DOMAIN catalog /\ catalog[nm].active /\ Kept(ov, nm)
           /\ nm \in DOMAIN acc.tables =>
                 acc.tables[nm] = Effective(nm, "common", catalog[nm].recon)
<1>1. DOMAIN ov.extra = 1..Len(ov.extra)
    BY DEF OverrideSets
<1>2. Unmentioned(ov, Len(ov.extra), nm)
    BY <1>1 DEF Unmentioned, Entries
<1>3. /\ nm \in DOMAIN acc.tables <=> nm \in DOMAIN FromCommon(catalog, ov)
      /\ nm \in DOMAIN FromCommon(catalog, ov) => acc.tables[nm] = FromCommon(catalog, ov)[nm]
    BY <1>2 DEF MergedCommons
<1>4. nm \in DOMAIN FromCommon(catalog, ov) =>
          FromCommon(catalog, ov)[nm] = Effective(nm, "common", catalog[nm].recon)
    BY DEF FromCommon
<1> QED
    BY <1>3, <1>4, FromCommonMeans

LEMMA MergedAsDeclared ==
    ASSUME NEW catalog, IsCatalog(catalog), NEW ov \in OverrideSets, NEW acc,
           MergedTo(catalog, ov, Len(ov.extra), acc), acc.ok, NEW nm
    PROVE  /\ nm \in DOMAIN acc.tables
                 <=> nm \in NamesOf(catalog, ov) /\ Declared(catalog, ov, nm)
           /\ nm \in DOMAIN acc.tables =>
                 \E source : acc.tables[nm] =
                                Effective(nm, source, DeclaredType(catalog, ov, nm))
<1>1. MergedShape(acc) /\ MergedExtras(ov, Len(ov.extra), acc)
      /\ MergedCommons(catalog, ov, Len(ov.extra), acc)
    BY DEF MergedTo
<1>2. CASE Entries(ov, nm) # {}
  <2>1. nm \in NamesOf(catalog, ov)
      BY <1>2 DEF NamesOf, Entries
  <2> QED
      BY <1>1, <1>2, <2>1, LastEntryDecides DEF Declared, DeclaredType
<1>3. CASE Entries(ov, nm) = {} /\ nm \in Nat
  <2>1. nm \in DOMAIN catalog => nm \in NamesOf(catalog, ov)
      BY DEF NamesOf
  <2> QED
      BY <1>1, <1>3, <2>1, CatalogDecides DEF Declared, DeclaredType
<1>4. CASE Entries(ov, nm) = {} /\ nm \notin Nat
    BY <1>1, <1>4 DEF MergedShape, IsCatalog, Declared
<1> QED
    BY <1>2, <1>3, <1>4

LEMMA TypeFor ==
    ASSUME NEW nm, NEW source, NEW recon \in ReconTypes \cup {NoReconType}
    PROVE  /\ Effective(nm, source, recon).recon =
                  IF recon = NoReconType THEN 1 ELSE IF nm \in Snapshots THEN 2 ELSE recon
           /\ Effective(nm, source, recon).recon \in ReconTypes
    BY DEF Effective, ReconTypeFor, ReconTypes, NoReconType

LEMMA DeclaredTypeRange ==
    ASSUME NEW catalog, IsCatalog(catalog), NEW ov \in OverrideSets, NEW nm,
           Declared(catalog, ov, nm)
    PROVE  DeclaredType(catalog, ov, nm) \in ReconTypes \cup {NoReconType}
<1>1. ov.extra \in Seq(ExtraRows) /\ Len(ov.extra) \in Nat
    BY DEF OverrideSets
<1>2. CASE Entries(ov, nm) # {}
  <2>1. Entries(ov, nm) \in SUBSET (1..Len(ov.extra))
      BY <1>1 DEF Entries
  <2>2. Max(Entries(ov, nm)) \in 1..Len(ov.extra)
      BY <1>1, <1>2, <2>1, GreatestOf
  <2>3. ov.extra[Max(Entries(ov, nm))] \in ExtraRows
      BY <1>1, <2>2
  <2> QED
      BY <1>2, <2>3 DEF DeclaredType, ExtraRows
<1>3. CASE Entries(ov, nm) = {}
  <2>1. catalog[nm] \in CommonRows
      BY <1>3 DEF Declared, IsCatalog
  <2> QED
      BY <1>3, <2>1 DEF DeclaredType, CommonRows
<1> QED
    BY <1>2, <1>3

\* What resolve_effective_tables computes is what the files declare, for any catalog and
\* any override file, however many entries it has.  What type a table gets whose row
\* states none is left open.
THEOREM ResolutionFollowsFiles ==
    ASSUME NEW catalog, IsCatalog(catalog), NEW ov \in OverrideSets
    PROVE  AsDeclared(catalog, ov)
<1> DEFINE res == Resolve(catalog, ov)
           wanted == {nm \in NamesOf(catalog, ov) : Declared(catalog, ov, nm)}
<1>1. PICK acc : MergedTo(catalog, ov, Len(ov.extra), acc) /\ res = OrEmpty(acc)
    BY MergeResult
<1>2. MergedShape(acc) /\ MergedOk(catalog, ov, Len(ov.extra), acc)
    BY <1>1 DEF MergedTo
<1>3. (res.ok <=> acc.ok /\ DOMAIN acc.tables # {}) /\ res.tables = acc.tables
    BY <1>1, <1>2 DEF OrEmpty, MergedShape
<1> HIDE DEF res
<1>4. acc.ok <=> ~Ambiguous(catalog, ov)
    BY <1>2, FailsIfAmbiguous
<1>5. acc.ok => DOMAIN acc.tables = wanted
    BY <1>1, MergedAsDeclared
<1>6. ASSUME acc.ok, NEW nm \in wanted, DeclaredType(catalog, ov, nm) # NoReconType
      PROVE  res.tables[nm].recon = IF nm \in Snapshots THEN 2
                                    ELSE DeclaredType(catalog, ov, nm)
  <2>1. DeclaredType(catalog, ov, nm) \in ReconTypes \cup {NoReconType}
      BY DeclaredTypeRange
  <2>2. PICK source : acc.tables[nm] = Effective(nm, source, DeclaredType(catalog, ov, nm))
      BY <1>1, <1>5, <1>6, MergedAsDeclared
  <2> QED
      BY <1>3, <1>6, <2>1, <2>2, TypeFor
<1> QED
    BY <1>3, <1>4, <1>5, <1>6 DEF AsDeclared, res

LEMMA ResolveType ==
    ASSUME NEW catalog, IsCatalog(catalog), NEW ov \in OverrideSets
    PROVE  /\ Resolve(catalog, ov).ok \in BOOLEAN
           /\ Resolve(catalog, ov).ok => TableMap(Resolve(catalog, ov).tables)
<1> DEFINE res == Resolve(catalog, ov)
<1>1. PICK acc : MergedTo(catalog, ov, Len(ov.extra), acc) /\ res = OrEmpty(acc)
    BY MergeResult
<1>2. MergedShape(acc)
    BY <1>1 DEF MergedTo
<1>3. res.ok = (acc.ok /\ DOMAIN acc.tables # {}) /\ res.tables = acc.tables
    BY <1>1, <1>2 DEF OrEmpty, MergedShape
<1> HIDE DEF res
<1>4. ASSUME acc.ok, NEW nm \in DOMAIN acc.tables PROVE acc.tables[nm].recon \in ReconTypes
  <2>1. Declared(catalog, ov, nm)
      BY <1>1, <1>4, MergedAsDeclared
  <2>2. DeclaredType(catalog, ov, nm) \in ReconTypes \cup {NoReconType}
      BY <2>1, DeclaredTypeRange
  <2>3. PICK source : acc.tables[nm] = Effective(nm, source, DeclaredType(catalog, ov, nm))
      BY <1>1, <1>4, MergedAsDeclared
  <2> QED
      BY <2>2, <2>3, TypeFor
<1> QED
    BY <1>2, <1>3, <1>4 DEF MergedShape, TableMap, res

-----------------------------------------------------------------------------
(* The split into pipelines *)

LEMMA RankBelowSize ==
    ASSUME NEW tables, TableMap(tables), NEW nm \in DOMAIN tables
    PROVE  Rank(tables, nm) \in Nat /\ Rank(tables, nm) < Cardinality(DOMAIN tables)
<1> DEFINE D == DOMAIN tables
           below == {n \in D : n < nm}
<1>1. D \subseteq Nat /\ IsFiniteSet(D) /\ nm \in D /\ nm \in Nat
    BY DEF TableMap
<1> HIDE DEF D
<1>2. IsFiniteSet(D \ {nm}) /\ Cardinality(D \ {nm}) = Cardinality(D) - 1
    BY <1>1, FS_RemoveElement
<1>3. below \subseteq D \ {nm}
    BY <1>1
<1> HIDE DEF below
<1>4. IsFiniteSet(below) /\ Cardinality(below) <= Cardinality(D \ {nm})
    BY <1>2, <1>3, FS_Subset
<1>5. Cardinality(below) \in Nat /\ Cardinality(D) \in Nat
    BY <1>1, <1>4, FS_CardinalityType
<1>6. Rank(tables, nm) = Cardinality(below)
    BY DEF Rank, below, D
<1> QED
    BY <1>2, <1>4, <1>5, <1>6 DEF D

\* The least name has rank 0; the least of those above a name has the next rank.
LEMMA RankFirst ==
    ASSUME NEW tables, TableMap(tables), DOMAIN tables # {}
    PROVE  \E nm \in DOMAIN tables : Rank(tables, nm) = 0
<1>1. PICK nm \in DOMAIN tables : \A n \in DOMAIN tables : nm <= n
    BY LeastNat DEF TableMap
<1>2. {n \in DOMAIN tables : n < nm} = {}
    BY <1>1 DEF TableMap
<1> QED
    BY <1>2, FS_EmptySet DEF Rank

LEMMA RankNext ==
    ASSUME NEW tables, TableMap(tables), NEW nm \in DOMAIN tables,
           Rank(tables, nm) + 1 < Cardinality(DOMAIN tables)
    PROVE  \E m \in DOMAIN tables : Rank(tables, m) = Rank(tables, nm) + 1
<1> DEFINE D == DOMAIN tables
           below == {n \in D : n < nm}
           above == {n \in D : nm < n}
<1>1. D \subseteq Nat /\ IsFiniteSet(D) /\ nm \in D /\ nm \in Nat
    BY DEF TableMap
<1>2. IsFiniteSet(below)
    BY <1>1, FS_Subset
<1>3. Rank(tables, nm) = Cardinality(below) /\ Cardinality(below) \in Nat
    BY <1>2, FS_CardinalityType DEF Rank
<1>4. IsFiniteSet(below \cup {nm}) /\ Cardinality(below \cup {nm}) = Cardinality(below) + 1
  <2>1. nm \notin below
      BY <1>1
  <2> HIDE DEF below
  <2> QED
      BY <1>2, <2>1, FS_AddElement
<1>5. above # {}
  <2> SUFFICES ASSUME above = {} PROVE FALSE
      OBVIOUS
  <2>1. D = below \cup {nm}
      BY <1>1
  <2> QED
      BY <1>3, <1>4, <2>1
<1>6. PICK m \in above : \A n \in above : m <= n
  <2>1. above \subseteq Nat
      BY <1>1
  <2> HIDE DEF above
  <2> QED
      BY <1>5, <2>1, LeastNat
<1>7. {n \in D : n < m} = below \cup {nm}
  <2>1. ASSUME NEW n \in D PROVE n < m <=> n \in below \cup {nm}
      BY <1>1, <1>6, <2>1
  <2> QED
      BY <1>1, <2>1
<1> QED
    BY <1>3, <1>4, <1>7 DEF Rank

LEMMA RankOnto ==
    ASSUME NEW tables, TableMap(tables), NEW r \in Nat, r < Cardinality(DOMAIN tables)
    PROVE  \E nm \in DOMAIN tables : Rank(tables, nm) = r
<1> DEFINE size == Cardinality(DOMAIN tables)
           S == {k \in Nat : k < size => \E nm \in DOMAIN tables : Rank(tables, nm) = k}
<1>1. size \in Nat /\ (size > 0 => DOMAIN tables # {})
    BY FS_CardinalityType, FS_EmptySet DEF TableMap
<1> HIDE DEF size
<1>2. 0 \in S
    BY <1>1, RankFirst
<1>3. ASSUME NEW k \in Nat, k \in S PROVE k + 1 \in S
    BY <1>1, <1>3, RankNext DEF size
<1>4. r \in S
  <2> HIDE DEF S
  <2> QED
      BY <1>2, <1>3, InductiveSet
<1> QED
    BY <1>4 DEF size

\* Multiples of the batch size, which cut the ranks into slices.
LEMMA SliceEnd ==
    ASSUME NEW s \in Nat
    PROVE  /\ s * BatchSize \in Nat
           /\ (s + 1) * BatchSize = s * BatchSize + BatchSize
           /\ s <= s * BatchSize
    BY SelectionAssumption

LEMMA SlicesInOrder ==
    ASSUME NEW s \in Nat, NEW t \in Nat, s <= t
    PROVE  s * BatchSize <= t * BatchSize
<1>1. PICK d \in Nat : t = s + d
    OBVIOUS
<1>2. t * BatchSize = s * BatchSize + d * BatchSize
    BY <1>1, SelectionAssumption
<1> QED
    BY <1>2, SliceEnd, SelectionAssumption

LEMMA SliceOf ==
    ASSUME NEW size \in Nat, NEW r \in Nat, r < size
    PROVE  \E s \in 1..size : (s - 1) * BatchSize <= r /\ r < s * BatchSize
<1> DEFINE T == {s \in Nat : r < s * BatchSize}
<1>1. size \in T
    BY SliceEnd
<1>2. PICK s \in T : \A t \in T : s <= t
    BY <1>1, LeastNat
<1>3. s # 0
    BY <1>2, SelectionAssumption
<1>4. s - 1 \in Nat /\ s - 1 \notin T
    BY <1>2, <1>3
<1>5. (s - 1) * BatchSize <= r
    BY <1>4, SliceEnd
<1> QED
    BY <1>1, <1>2, <1>3, <1>5

\* Every table is in exactly one batch, and no batch is empty.
Partition(tables, batches) ==
    /\ DOMAIN batches \subseteq Nat
    /\ {} \notin {batches[s] : s \in DOMAIN batches}
    /\ \A s, t \in DOMAIN batches : s # t => batches[s] \cap batches[t] = {}
    /\ UNION {batches[s] : s \in DOMAIN batches} = DOMAIN tables

LEMMA UnionOfBatches ==
    ASSUME NEW batches, NEW D, \A s \in DOMAIN batches : batches[s] \subseteq D,
           \A nm \in D : \E s \in DOMAIN batches : nm \in batches[s]
    PROVE  UNION {batches[s] : s \in DOMAIN batches} = D
<1>1. ASSUME NEW nm \in UNION {batches[s] : s \in DOMAIN batches} PROVE nm \in D
    BY <1>1
<1>2. ASSUME NEW nm \in D PROVE nm \in UNION {batches[s] : s \in DOMAIN batches}
    BY <1>2
<1> QED
    BY <1>1, <1>2

LEMMA CountPartitions ==
    ASSUME NEW tables, TableMap(tables)
    PROVE  Partition(tables, CountBatches(tables))
<1> DEFINE D == DOMAIN tables
           size == Cardinality(D)
           batches == CountBatches(tables)
<1>1. size \in Nat
    BY FS_CardinalityType DEF TableMap
<1> HIDE DEF size
<1>2. /\ DOMAIN batches = {t \in 1..size : (t - 1) * BatchSize < size}
      /\ \A s \in DOMAIN batches : batches[s] =
            {nm \in D : Rank(tables, nm) \in (s - 1) * BatchSize .. s * BatchSize - 1}
    BY DEF CountBatches, size
<1> HIDE DEF batches
<1>3. \A nm \in D : Rank(tables, nm) \in Nat /\ Rank(tables, nm) < size
    BY RankBelowSize DEF size
<1>4. ASSUME NEW s \in DOMAIN batches
      PROVE  /\ s \in Nat /\ s - 1 \in Nat /\ (s - 1) * BatchSize < size
             /\ (s - 1) * BatchSize \in Nat /\ s * BatchSize \in Nat
             /\ (s - 1) * BatchSize < s * BatchSize
  <2>1. s \in Nat /\ s - 1 \in Nat /\ (s - 1) * BatchSize < size /\ s = (s - 1) + 1
      BY <1>1, <1>2
  <2>2. /\ (s - 1) * BatchSize \in Nat /\ s * BatchSize \in Nat
        /\ s * BatchSize = (s - 1) * BatchSize + BatchSize
      BY <2>1, SliceEnd
  <2> QED
      BY <2>1, <2>2, SelectionAssumption
<1>5. ASSUME NEW s \in DOMAIN batches PROVE batches[s] # {}
  <2>1. PICK nm \in D : Rank(tables, nm) = (s - 1) * BatchSize
      BY <1>4, RankOnto DEF size
  <2> QED
      BY <1>2, <1>4, <2>1
<1>6. ASSUME NEW s \in DOMAIN batches, NEW t \in DOMAIN batches, s < t
      PROVE  batches[s] \cap batches[t] = {}
  <2>1. s * BatchSize <= (t - 1) * BatchSize
      BY <1>4, <1>6, SlicesInOrder
  <2>2. ASSUME NEW nm \in batches[s], nm \in batches[t] PROVE FALSE
    <3>1. /\ Rank(tables, nm) \in (s - 1) * BatchSize .. s * BatchSize - 1
          /\ Rank(tables, nm) \in (t - 1) * BatchSize .. t * BatchSize - 1
        BY <1>2, <2>2
    <3> QED
        BY <1>4, <2>1, <3>1
  <2> QED
      BY <2>2
<1>7. \A s, t \in DOMAIN batches : s # t => batches[s] \cap batches[t] = {}
  <2>1. \A s, t \in DOMAIN batches : s # t => s < t \/ t < s
      BY <1>4
  <2> QED
      BY <1>6, <2>1
<1>8. ASSUME NEW nm \in D PROVE \E s \in DOMAIN batches : nm \in batches[s]
  <2> DEFINE r == Rank(tables, nm)
  <2>1. r \in Nat /\ r < size
      BY <1>3
  <2> HIDE DEF r
  <2>2. PICK s \in 1..size : (s - 1) * BatchSize <= r /\ r < s * BatchSize
      BY <1>1, <2>1, SliceOf
  <2>3. s \in Nat /\ s - 1 \in Nat
      BY <1>1
  <2>4. (s - 1) * BatchSize \in Nat /\ s * BatchSize \in Nat
      BY <2>3, SliceEnd
  <2>5. (s - 1) * BatchSize < size /\ r \in (s - 1) * BatchSize .. s * BatchSize - 1
      BY <1>1, <2>1, <2>2, <2>4
  <2> QED
      BY <1>2, <2>2, <2>5 DEF r
<1>9. DOMAIN batches \subseteq Nat
    BY <1>4
<1>10. {} \notin {batches[s] : s \in DOMAIN batches}
    BY <1>5
<1>11. UNION {batches[s] : s \in DOMAIN batches} = D
  <2>1. \A s \in DOMAIN batches : batches[s] \subseteq D
      BY <1>2
  <2> QED
      BY <1>8, <2>1, UnionOfBatches
<1> QED
    BY <1>7, <1>9, <1>10, <1>11 DEF Partition, batches

LEMMA ReconPartitions ==
    ASSUME NEW tables, TableMap(tables)
    PROVE  Partition(tables, ReconBatches(tables))
<1> DEFINE batches == ReconBatches(tables)
<1>1. /\ DOMAIN batches = {tables[nm].recon : nm \in DOMAIN tables}
      /\ \A r \in DOMAIN batches :
            batches[r] = {nm \in DOMAIN tables : tables[nm].recon = r}
    BY DEF ReconBatches
<1> HIDE DEF batches
<1>2. DOMAIN batches \subseteq Nat
    BY <1>1 DEF TableMap, ReconTypes
<1>3. \A r \in DOMAIN batches : batches[r] # {}
    BY <1>1
<1>4. \A s, t \in DOMAIN batches : s # t => batches[s] \cap batches[t] = {}
    BY <1>1
<1>5. UNION {batches[s] : s \in DOMAIN batches} = DOMAIN tables
  <2>1. \A s \in DOMAIN batches : batches[s] \subseteq DOMAIN tables
      BY <1>1
  <2>2. \A nm \in DOMAIN tables : \E s \in DOMAIN batches : nm \in batches[s]
      BY <1>1
  <2> QED
      BY <2>1, <2>2, UnionOfBatches
<1> QED
    BY <1>2, <1>3, <1>4, <1>5 DEF Partition, batches

\* Both splits put every table into exactly one pipeline, and none without tables; for
\* any number of tables and any num_of_tables_in_pipeline that is positive.
THEOREM SplitIsPartition ==
    ASSUME NEW tables, TableMap(tables), NEW mode
    PROVE  Partition(tables, SplitTables(tables, mode))
    BY CountPartitions, ReconPartitions DEF SplitTables

=============================================================================
