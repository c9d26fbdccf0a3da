-------------------------- MODULE DictionaryProofs --------------------------
(***************************************************************************)
(* How storing and dropping a block changes the number of bytes held, and  *)
(* the counting lemmas it rests on.                                        *)
(***************************************************************************)
EXTENDS Dictionaries, FiniteSetTheorems, TLAPS

\* The empty dictionary is one, and holds nothing.
LEMMA EmptyDict == (\A R : IsDict(Empty, R)) /\ Bytes(Empty) = {}
  BY DEF IsDict, Empty, Bytes

\* Storing a value of the right type leaves a dictionary of that type.
LEMMA StoreDict ==
  ASSUME NEW R, NEW d, IsDict(d, R), NEW k \in Keys, NEW v \in R
  PROVE  IsDict(Store(d, k, v), R)
  BY DEF IsDict, Store

\* So does popping a key.
LEMMA DropDict ==
  ASSUME NEW R, NEW d, IsDict(d, R), NEW k
  PROVE  IsDict(Drop(d, k), R)
  BY DEF IsDict, Drop

-----------------------------------------------------------------------------
(* Sums as cardinalities: f[h] summed over H is the number of these pairs. *)

Rows(H, f) == {b \in H \X (1 .. MaxSize) : b[2] <= f[b[1]]}

\* One row of length n has n elements.
LEMMA RowCount ==
  ASSUME NEW x, NEW n \in Nat
  PROVE  /\ IsFiniteSet({x} \X (1 .. n))
         /\ Cardinality({x} \X (1 .. n)) = n
<1>1. IsFiniteSet({x}) /\ Cardinality({x}) = 1
  BY FS_Singleton
<1>2. IsFiniteSet(1 .. n) /\ Cardinality(1 .. n) = n
  BY FS_Interval, 1 \in Int, n \in Int
<1>3. /\ IsFiniteSet({x} \X (1 .. n))
      /\ Cardinality({x} \X (1 .. n)) = Cardinality({x}) * Cardinality(1 .. n)
  BY <1>1, <1>2, FS_Product
<1> QED BY <1>1, <1>2, <1>3

\* Rows over a finite set: at most MaxSize for each of its members.
LEMMA RowsBound ==
  ASSUME NEW H, IsFiniteSet(H), NEW f
  PROVE  /\ IsFiniteSet(Rows(H, f))
         /\ Cardinality(Rows(H, f)) \in Nat
         /\ Cardinality(H) \in Nat
         /\ Cardinality(Rows(H, f)) <= Cardinality(H) * MaxSize
<1>1. IsFiniteSet(1 .. MaxSize) /\ Cardinality(1 .. MaxSize) = MaxSize
  BY DictionaryConstants, FS_Interval, 1 \in Int
<1>2. /\ IsFiniteSet(H \X (1 .. MaxSize))
      /\ Cardinality(H \X (1 .. MaxSize))
            = Cardinality(H) * Cardinality(1 .. MaxSize)
  BY <1>1, FS_Product
<1>3. /\ IsFiniteSet(Rows(H, f))
      /\ Cardinality(Rows(H, f)) <= Cardinality(H \X (1 .. MaxSize))
  BY <1>2, FS_Subset DEF Rows
<1>4. Cardinality(Rows(H, f)) \in Nat /\ Cardinality(H) \in Nat
  BY <1>3, FS_CardinalityType
<1> QED BY <1>1, <1>2, <1>3, <1>4

\* A member with an empty row leaves its share of that bound free.
LEMMA RowsBut ==
  ASSUME NEW H, IsFiniteSet(H), NEW f, NEW h \in H, f[h] = 0
  PROVE  Cardinality(Rows(H, f)) <= Cardinality(H) * MaxSize - MaxSize
<1>1. /\ IsFiniteSet(H \ {h})
      /\ Cardinality(H \ {h}) = Cardinality(H) - 1
  BY FS_RemoveElement
<1>2. Rows(H, f) = Rows(H \ {h}, f)
  BY DictionaryConstants DEF Rows
<1>3. Cardinality(Rows(H \ {h}, f)) <= Cardinality(H \ {h}) * MaxSize
  BY <1>1, RowsBound
<1>4. Cardinality(H) \in Nat
  BY FS_CardinalityType
<1>5. (Cardinality(H) - 1) * MaxSize = Cardinality(H) * MaxSize - MaxSize
  BY <1>4, DictionaryConstants
<1> QED BY <1>1, <1>2, <1>3, <1>5

\* Changing one row changes the total by as much.
LEMMA RowsChange ==
  ASSUME NEW H, IsFiniteSet(H), NEW h \in H,
         NEW f, NEW g, f[h] \in Sizes, g[h] \in Sizes,
         \A i \in H \ {h} : g[i] = f[i]
  PROVE  Cardinality(Rows(H, g)) = Cardinality(Rows(H, f)) - f[h] + g[h]
<1> DEFINE rest == Rows(H \ {h}, f)
<1>1. ASSUME NEW e, e[h] \in Sizes, \A i \in H \ {h} : e[i] = f[i]
      PROVE  Cardinality(Rows(H, e)) = Cardinality(rest) + e[h]
  <2>1. e[h] \in Nat /\ e[h] <= MaxSize
    BY <1>1, DictionaryConstants DEF Sizes
  <2>2. Rows(H, e) = rest \cup ({h} \X (1 .. e[h]))
    <3>1. ASSUME NEW b \in H \X (1 .. MaxSize)
          PROVE  b \in Rows(H, e) <=> b \in rest \cup ({h} \X (1 .. e[h]))
      <4>1. b[1] \in H /\ b[2] \in 1 .. MaxSize /\ b = <<b[1], b[2]>>
        OBVIOUS
      <4>2. b \in {h} \X (1 .. e[h]) <=> b[1] = h /\ b[2] <= e[h]
        BY <4>1, <2>1, DictionaryConstants
      <4> QED BY <1>1, <4>1, <4>2 DEF Rows
    <3>2. {h} \X (1 .. e[h]) \subseteq H \X (1 .. MaxSize)
      BY <2>1, DictionaryConstants
    <3> QED BY <3>1, <3>2 DEF Rows
  <2>3. /\ IsFiniteSet({h} \X (1 .. e[h]))
        /\ Cardinality({h} \X (1 .. e[h])) = e[h]
    BY <2>1, RowCount
  <2>4. IsFiniteSet(rest)
    BY FS_RemoveElement, RowsBound
  <2>5. rest \cap ({h} \X (1 .. e[h])) = {}
    BY DEF Rows
  <2>6. Cardinality(rest \cap ({h} \X (1 .. e[h]))) = 0
    BY <2>5, FS_EmptySet
  <2>7. Cardinality(rest \cup ({h} \X (1 .. e[h])))
            = Cardinality(rest) + Cardinality({h} \X (1 .. e[h]))
                - Cardinality(rest \cap ({h} \X (1 .. e[h])))
    BY <2>3, <2>4, FS_Union
  <2>8. Cardinality(rest) \in Nat
    BY <2>4, FS_CardinalityType
  <2> QED BY <2>1, <2>2, <2>3, <2>6, <2>7, <2>8
<1>2. Cardinality(Rows(H, f)) = Cardinality(rest) + f[h]
  BY <1>1
<1>3. Cardinality(Rows(H, g)) = Cardinality(rest) + g[h]
  BY <1>1
<1>4. Cardinality(rest) \in Nat
  BY FS_RemoveElement, RowsBound
<1> QED BY <1>2, <1>3, <1>4, DictionaryConstants DEF Sizes

-----------------------------------------------------------------------------
\* The length of block k, as len(d.get(k, b"")) has it.
LengthIn(d, k) == IF k \in DOMAIN d THEN d[k] ELSE 0

AllLengths(d) == [k \in Keys |-> LengthIn(d, k)]

\* The bytes of a dictionary are one row for each key.
LEMMA BytesAreRows ==
  ASSUME NEW d
  PROVE  Bytes(d) = Rows(Keys, AllLengths(d))
  BY DictionaryConstants DEF Bytes, Rows, AllLengths, LengthIn

\* Storing block k with n bytes changes the total by n less what k had.
LEMMA StoreBytes ==
  ASSUME NEW d, IsDict(d, Sizes), NEW k \in Keys, NEW n \in Sizes
  PROVE  Cardinality(Bytes(Store(d, k, n)))
            = Cardinality(Bytes(d)) - LengthIn(d, k) + n
<1> DEFINE f == AllLengths(d)
           g == AllLengths(Store(d, k, n))
<1>1. f[k] = LengthIn(d, k) /\ f[k] \in Sizes
  BY DictionaryConstants DEF AllLengths, LengthIn, IsDict, Sizes
<1>2. g[k] = n
  BY DEF AllLengths, LengthIn, Store
<1>3. \A i \in Keys \ {k} : g[i] = f[i]
  BY DEF AllLengths, LengthIn, Store
<1> HIDE DEF f, g
<1>4. Cardinality(Rows(Keys, g)) = Cardinality(Rows(Keys, f)) - f[k] + g[k]
  BY <1>1, <1>2, <1>3, RowsChange, DictionaryConstants
<1> QED BY <1>1, <1>2, <1>4, BytesAreRows DEF f, g

\* Popping block k takes off what it had.
LEMMA DropBytes ==
  ASSUME NEW d, IsDict(d, Sizes), NEW k \in Keys
  PROVE  Cardinality(Bytes(Drop(d, k))) = Cardinality(Bytes(d)) - LengthIn(d, k)
<1> DEFINE f == AllLengths(d)
           g == AllLengths(Drop(d, k))
<1>1. f[k] = LengthIn(d, k) /\ f[k] \in Sizes
  BY DictionaryConstants DEF AllLengths, LengthIn, IsDict, Sizes
<1>2. g[k] = 0 /\ g[k] \in Sizes
  BY DictionaryConstants DEF AllLengths, LengthIn, Drop, Sizes
<1>3. \A i \in Keys \ {k} : g[i] = f[i]
  BY DEF AllLengths, LengthIn, Drop
<1> HIDE DEF f, g
<1>4. Cardinality(Rows(Keys, g)) = Cardinality(Rows(Keys, f)) - f[k] + g[k]
  BY <1>1, <1>2, <1>3, RowsChange, DictionaryConstants
<1>5. Cardinality(Rows(Keys, f)) \in Nat
  BY RowsBound, DictionaryConstants
<1> QED BY <1>1, <1>2, <1>4, <1>5, BytesAreRows, DictionaryConstants
        DEF f, g, Sizes
=============================================================================
