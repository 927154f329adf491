---------------------------- MODULE StockProofs -----------------------------
(***************************************************************************)
(* What holds of the stock of inventory parts for any number of request    *)
(* handlers, parts and lines.                                              *)
(*                                                                         *)
(* Counter sales (StockInv, RefundInv): a request past the lock of the     *)
(* sequence row is the only one there, so what it has read since is what   *)
(* it writes over; refunds are sums over the rows of one sale, which only  *)
(* the holder of that sale's lock adds to.                                 *)
(*                                                                         *)
(* Part lines (PartInv): nothing is locked between what a request reads    *)
(* and what it writes.  The state a request stands on is tied to what it   *)
(* has read only while it is fresh, and a write that is not fresh puts its *)
(* part and its line among the stale ones.                                 *)
(*                                                                         *)
(* Purchase orders and part returns: ReceiptInv, ClaimInv, StatusInv and   *)
(* AccountInv take in turn what was received, which return or receipt      *)
(* holds an order, the status stored with the last receipt, and what is on *)
(* order and on the shelf, summed over orders, lines and returns.          *)
(*                                                                         *)
(* Sums are folds in the models.  SumOn is the same fold with its set of   *)
(* indices made explicit; its facts follow from the least set for which    *)
(* they could fail (LeastOf), which needs no induction rule.               *)
(***************************************************************************)
EXTENDS PosSale, PartStock, Procurement, FiniteSetTheorems, WellFoundedInduction, TLAPS

-----------------------------------------------------------------------------
(* What the folds of the models add up, one element at a time.              *)
Any(s) == CHOOSE x \in s : TRUE

Solves(f, g, E) == g = [s \in E |-> IF s = {} THEN 0 ELSE f[Any(s)] + g[s \ {Any(s)}]]

Partial(f, S) == CHOOSE iter : Solves(f, iter, SUBSET S)

SumOn(f, S) == Partial(f, S)[S]

LEMMA FoldIsSum == ASSUME NEW f PROVE FoldFunction(+, 0, f) = SumOn(f, DOMAIN f)
BY DEF FoldFunction, FoldFunctionOnSet, MapThenFoldSet, SumOn, Partial, Solves, Any

LEMMA FoldOver ==
    ASSUME NEW f, NEW S, DOMAIN f = S
    PROVE  FoldFunction(+, 0, f) = SumOn(f, S)
BY FoldIsSum

(* A set of naturals that is not empty has a least element.                 *)
LEMMA LeastOf ==
    ASSUME NEW T \in SUBSET Nat, T # {}
    PROVE  \E n \in T : \A m \in T : n <= m
<1>1. PICK n \in T : \A m \in T : ~ (<<m, n>> \in OpToRel(<, Nat))
    BY WFMin, NatLessThanWellFounded
<1>2. \A m \in T : ~ (m < n)
    BY <1>1 DEF OpToRel
<1> QED
    BY <1>2

LEMMA AnyOf ==
    ASSUME NEW s, s # {}
    PROVE  Any(s) \in s
BY DEF Any

LEMMA Fewer ==
    ASSUME NEW s, IsFiniteSet(s), NEW x \in s
    PROVE  /\ IsFiniteSet(s \ {x})
           /\ Cardinality(s) \in Nat /\ Cardinality(s \ {x}) = Cardinality(s) - 1
BY FS_CardinalityType, FS_RemoveElement

(* The recursion of the fold has a solution on the subsets of a finite set. *)
LEMMA PartialExists ==
    ASSUME NEW f, NEW S, IsFiniteSet(S)
    PROVE  Solves(f, Partial(f, S), SUBSET S)
<1> DEFINE D(n) == {s \in SUBSET S : Cardinality(s) <= n}
           Bad == {n \in Nat : \A g : ~Solves(f, g, D(n))}
<1>1. Bad = {}
  <2> SUFFICES ASSUME Bad # {} PROVE FALSE
      OBVIOUS
  <2>1. PICK n \in Bad : \A m \in Bad : n <= m
      BY LeastOf
  <2>2. n # 0
    <3>1. \A s \in D(0) : s = {}
        BY FS_Subset, FS_CardinalityType, FS_EmptySet
    <3>2. Solves(f, [s \in D(0) |-> 0], D(0))
        BY <3>1 DEF Solves
    <3> QED
        BY <2>1, <3>2
  <2>3. n - 1 \in Nat /\ n - 1 \notin Bad
      BY <2>1, <2>2
  <2>4. PICK g : Solves(f, g, D(n - 1))
      BY <2>3
  <2> DEFINE h == [s \in D(n) |-> IF s = {} THEN 0 ELSE f[Any(s)] + g[s \ {Any(s)}]]
  <2>5. ASSUME NEW s \in D(n), s # {}
        PROVE  h[s \ {Any(s)}] = g[s \ {Any(s)}]
    <3> DEFINE t == s \ {Any(s)}
    <3>1. t \in D(n - 1) /\ t \in D(n)
        BY <2>1, <2>5, AnyOf, Fewer, FS_Subset
    <3>2. h[t] = IF t = {} THEN 0 ELSE f[Any(t)] + g[t \ {Any(t)}]
        BY <3>1
    <3>3. g[t] = IF t = {} THEN 0 ELSE f[Any(t)] + g[t \ {Any(t)}]
        BY <2>4, <3>1 DEF Solves
    <3> QED
        BY <3>2, <3>3
  <2>6. Solves(f, h, D(n))
    <3>1. h = [s \in D(n) |-> IF s = {} THEN 0 ELSE f[Any(s)] + h[s \ {Any(s)}]]
        BY <2>5
    <3> QED
        BY <3>1 DEF Solves
  <2> QED
      BY <2>1, <2>6
<1>2. Cardinality(S) \in Nat
    BY FS_CardinalityType
<1>3. D(Cardinality(S)) = SUBSET S
    BY FS_Subset
<1>4. \E g : Solves(f, g, SUBSET S)
    BY <1>1, <1>2, <1>3
<1> QED
    BY <1>4 DEF Partial

LEMMA PartialStep ==
    ASSUME NEW f, NEW S, IsFiniteSet(S), NEW s \in SUBSET S
    PROVE  Partial(f, S)[s] = IF s = {} THEN 0 ELSE f[Any(s)] + Partial(f, S)[s \ {Any(s)}]
<1>1. PICK g : g = Partial(f, S)
    OBVIOUS
<1>2. Solves(f, g, SUBSET S)
    BY <1>1, PartialExists
<1>3. g[s] = IF s = {} THEN 0 ELSE f[Any(s)] + g[s \ {Any(s)}]
    BY <1>2 DEF Solves
<1> QED
    BY <1>1, <1>3

(* What is computed for a set does not depend on the set it is part of.     *)
LEMMA PartialAgrees ==
    ASSUME NEW f, NEW A, NEW B, IsFiniteSet(A), IsFiniteSet(B), NEW T \in SUBSET (A \cap B)
    PROVE  Partial(f, A)[T] = Partial(f, B)[T]
<1> DEFINE Bad == {n \in Nat : \E s \in SUBSET (A \cap B) :
                      Cardinality(s) = n /\ Partial(f, A)[s] # Partial(f, B)[s]}
<1>1. Bad = {}
  <2> SUFFICES ASSUME Bad # {} PROVE FALSE
      OBVIOUS
  <2>1. PICK n \in Bad : \A m \in Bad : n <= m
      BY LeastOf
  <2>2. PICK s \in SUBSET (A \cap B) : Cardinality(s) = n /\ Partial(f, A)[s] # Partial(f, B)[s]
      BY <2>1
  <2> DEFINE t == s \ {Any(s)}
  <2>3. /\ Partial(f, A)[s] = IF s = {} THEN 0 ELSE f[Any(s)] + Partial(f, A)[t]
        /\ Partial(f, B)[s] = IF s = {} THEN 0 ELSE f[Any(s)] + Partial(f, B)[t]
      BY PartialStep
  <2>4. s # {}
      BY <2>2, <2>3
  <2>5. IsFiniteSet(s)
      BY FS_Subset
  <2>6. Cardinality(t) = n - 1 /\ n - 1 \in Nat
      BY <2>2, <2>4, <2>5, AnyOf, Fewer, FS_CardinalityType
  <2>7. Partial(f, A)[t] = Partial(f, B)[t]
      BY <2>1, <2>6
  <2> QED
      BY <2>2, <2>3, <2>7
<1>2. IsFiniteSet(T) /\ Cardinality(T) \in Nat
    BY FS_Subset, FS_CardinalityType
<1> QED
    BY <1>1, <1>2

LEMMA SumStep ==
    ASSUME NEW f, NEW S, IsFiniteSet(S)
    PROVE  SumOn(f, S) = IF S = {} THEN 0 ELSE f[Any(S)] + SumOn(f, S \ {Any(S)})
<1> DEFINE t == S \ {Any(S)}
<1>1. Partial(f, S)[S] = IF S = {} THEN 0 ELSE f[Any(S)] + Partial(f, S)[t]
    BY PartialStep
<1>2. IsFiniteSet(t)
    BY FS_Subset
<1>3. Partial(f, S)[t] = Partial(f, t)[t]
    BY <1>2, PartialAgrees
<1> QED
    BY <1>1, <1>3 DEF SumOn

LEMMA SumIsInt ==
    ASSUME NEW f, NEW S, IsFiniteSet(S), \A x \in S : f[x] \in Int
    PROVE  SumOn(f, S) \in Int
<1> DEFINE Bad == {n \in Nat : \E s \in SUBSET S : Cardinality(s) = n /\ SumOn(f, s) \notin Int}
<1>1. Bad = {}
  <2> SUFFICES ASSUME Bad # {} PROVE FALSE
      OBVIOUS
  <2>1. PICK n \in Bad : \A m \in Bad : n <= m
      BY LeastOf
  <2>2. PICK s \in SUBSET S : Cardinality(s) = n /\ SumOn(f, s) \notin Int
      BY <2>1
  <2> DEFINE t == s \ {Any(s)}
  <2>3. IsFiniteSet(s)
      BY FS_Subset
  <2>4. SumOn(f, s) = IF s = {} THEN 0 ELSE f[Any(s)] + SumOn(f, t)
      BY <2>3, SumStep
  <2>5. s # {}
      BY <2>2, <2>4
  <2>6. Any(s) \in S /\ Cardinality(t) = n - 1 /\ n - 1 \in Nat
      BY <2>2, <2>3, <2>5, AnyOf, Fewer, FS_CardinalityType
  <2>7. SumOn(f, t) \in Int
      BY <2>1, <2>6
  <2> QED
      BY <2>2, <2>4, <2>5, <2>6, <2>7
<1>2. Cardinality(S) \in Nat
    BY FS_CardinalityType
<1> QED
    BY <1>1, <1>2

(* Any element can be taken out of a sum.                                   *)
LEMMA SumWithout ==
    ASSUME NEW f, NEW S, IsFiniteSet(S), \A x \in S : f[x] \in Int, NEW e \in S
    PROVE  /\ SumOn(f, S) = f[e] + SumOn(f, S \ {e})
           /\ SumOn(f, S \ {e}) \in Int
<1> DEFINE Splits(s) == \A x \in s : SumOn(f, s) = f[x] + SumOn(f, s \ {x})
           Bad == {n \in Nat : \E s \in SUBSET S : Cardinality(s) = n /\ ~Splits(s)}
<1>1. Bad = {}
  <2> SUFFICES ASSUME Bad # {} PROVE FALSE
      OBVIOUS
  <2>1. PICK n \in Bad : \A m \in Bad : n <= m
      BY LeastOf
  <2>2. PICK s \in SUBSET S : Cardinality(s) = n /\ ~Splits(s)
      BY <2>1
  <2>3. PICK x \in s : SumOn(f, s) # f[x] + SumOn(f, s \ {x})
      BY <2>2
  <2>4. PICK a \in s : a = Any(s)
      BY <2>3, AnyOf
  <2>5. /\ IsFiniteSet(s) /\ IsFiniteSet(s \ {a}) /\ IsFiniteSet(s \ {x})
        /\ IsFiniteSet((s \ {a}) \ {x})
      BY FS_Subset
  <2>6. SumOn(f, s) = f[a] + SumOn(f, s \ {a})
      BY <2>4, <2>5, SumStep
  <2>7. x # a
      BY <2>3, <2>6
  <2>8. /\ Cardinality(s \ {a}) = n - 1 /\ Cardinality(s \ {x}) = n - 1 /\ n - 1 \in Nat
      BY <2>2, <2>5, Fewer, FS_CardinalityType
  <2>9. Splits(s \ {a}) /\ Splits(s \ {x})
    <3>1. n - 1 \notin Bad
        BY <2>1, <2>8
    <3> QED
        BY <2>8, <3>1
  <2>10. /\ SumOn(f, s \ {a}) = f[x] + SumOn(f, (s \ {a}) \ {x})
         /\ SumOn(f, s \ {x}) = f[a] + SumOn(f, (s \ {x}) \ {a})
      BY <2>7, <2>9
  <2>11. (s \ {a}) \ {x} = (s \ {x}) \ {a}
      OBVIOUS
  <2>12. f[a] \in Int /\ f[x] \in Int /\ SumOn(f, (s \ {a}) \ {x}) \in Int
      BY <2>5, SumIsInt
  <2> QED
      BY <2>3, <2>6, <2>10, <2>11, <2>12
<1>2. Cardinality(S) \in Nat
    BY FS_CardinalityType
<1>3. Splits(S)
    BY <1>1, <1>2
<1>4. IsFiniteSet(S \ {e})
    BY FS_Subset
<1> QED
    BY <1>3, <1>4, SumIsInt

(* A sum of sums is the sum of both.                                        *)
LEMMA SumOfSums ==
    ASSUME NEW f, NEW g, NEW h, NEW S, IsFiniteSet(S),
           \A x \in S : f[x] \in Int /\ g[x] \in Int /\ h[x] = f[x] + g[x]
    PROVE  SumOn(h, S) = SumOn(f, S) + SumOn(g, S)
<1> DEFINE Bad == {n \in Nat : \E s \in SUBSET S :
                      Cardinality(s) = n /\ SumOn(h, s) # SumOn(f, s) + SumOn(g, s)}
<1>1. Bad = {}
  <2> SUFFICES ASSUME Bad # {} PROVE FALSE
      OBVIOUS
  <2>1. PICK n \in Bad : \A m \in Bad : n <= m
      BY LeastOf
  <2>2. PICK s \in SUBSET S : Cardinality(s) = n /\ SumOn(h, s) # SumOn(f, s) + SumOn(g, s)
      BY <2>1
  <2> DEFINE t == s \ {Any(s)}
  <2>3. IsFiniteSet(s) /\ IsFiniteSet(t)
      BY FS_Subset
  <2>4. /\ SumOn(f, s) = IF s = {} THEN 0 ELSE f[Any(s)] + SumOn(f, t)
        /\ SumOn(g, s) = IF s = {} THEN 0 ELSE g[Any(s)] + SumOn(g, t)
        /\ SumOn(h, s) = IF s = {} THEN 0 ELSE h[Any(s)] + SumOn(h, t)
      BY <2>3, SumStep
  <2>5. s # {}
      BY <2>2, <2>4
  <2>6. Any(s) \in S /\ Cardinality(t) = n - 1 /\ n - 1 \in Nat
      BY <2>2, <2>3, <2>5, AnyOf, Fewer, FS_CardinalityType
  <2>7. SumOn(h, t) = SumOn(f, t) + SumOn(g, t)
      BY <2>1, <2>6
  <2>8. SumOn(f, t) \in Int /\ SumOn(g, t) \in Int
      BY <2>3, SumIsInt
  <2> QED
      BY <2>2, <2>4, <2>5, <2>6, <2>7, <2>8
<1>2. Cardinality(S) \in Nat
    BY FS_CardinalityType
<1> QED
    BY <1>1, <1>2

LEMMA SumOfZeros ==
    ASSUME NEW f, NEW S, IsFiniteSet(S), \A x \in S : f[x] = 0
    PROVE  SumOn(f, S) = 0
<1>1. PICK sum \in Int : sum = SumOn(f, S)
    BY SumIsInt
<1>2. sum = sum + sum
    BY <1>1, SumOfSums
<1>3. sum = 0
    BY <1>2
<1> QED
    BY <1>1, <1>3

LEMMA SumOfSame ==
    ASSUME NEW f, NEW g, NEW S, IsFiniteSet(S), \A x \in S : f[x] \in Int /\ g[x] = f[x]
    PROVE  SumOn(g, S) = SumOn(f, S)
<1> DEFINE z == [x \in S |-> 0]
<1>1. SumOn(g, S) = SumOn(f, S) + SumOn(z, S)
    BY SumOfSums
<1>2. SumOn(z, S) = 0
    BY SumOfZeros
<1>3. SumOn(f, S) \in Int
    BY SumIsInt
<1> QED
    BY <1>1, <1>2, <1>3

(* A sum in which one element has changed.                                  *)
LEMMA SumChanged ==
    ASSUME NEW f, NEW g, NEW S, IsFiniteSet(S), NEW e \in S,
           \A x \in S : f[x] \in Int /\ g[x] \in Int,
           \A x \in S : x # e => g[x] = f[x]
    PROVE  SumOn(g, S) = SumOn(f, S) + (g[e] - f[e])
<1>1. IsFiniteSet(S \ {e})
    BY FS_Subset
<1>2. /\ SumOn(f, S) = f[e] + SumOn(f, S \ {e}) /\ SumOn(f, S \ {e}) \in Int
      /\ SumOn(g, S) = g[e] + SumOn(g, S \ {e}) /\ SumOn(g, S \ {e}) \in Int
    BY SumWithout
<1>3. SumOn(g, S \ {e}) = SumOn(f, S \ {e})
    BY <1>1, SumOfSame
<1> QED
    BY <1>2, <1>3

LEMMA SumIsNat ==
    ASSUME NEW f, NEW S, IsFiniteSet(S), \A x \in S : f[x] \in Nat
    PROVE  SumOn(f, S) \in Nat
<1> DEFINE Bad == {n \in Nat : \E s \in SUBSET S : Cardinality(s) = n /\ SumOn(f, s) \notin Nat}
<1>1. Bad = {}
  <2> SUFFICES ASSUME Bad # {} PROVE FALSE
      OBVIOUS
  <2>1. PICK n \in Bad : \A m \in Bad : n <= m
      BY LeastOf
  <2>2. PICK s \in SUBSET S : Cardinality(s) = n /\ SumOn(f, s) \notin Nat
      BY <2>1
  <2> DEFINE t == s \ {Any(s)}
  <2>3. IsFiniteSet(s)
      BY FS_Subset
  <2>4. SumOn(f, s) = IF s = {} THEN 0 ELSE f[Any(s)] + SumOn(f, t)
      BY <2>3, SumStep
  <2>5. s # {}
      BY <2>2, <2>4
  <2>6. Any(s) \in S /\ Cardinality(t) = n - 1 /\ n - 1 \in Nat
      BY <2>2, <2>3, <2>5, AnyOf, Fewer, FS_CardinalityType
  <2>7. SumOn(f, t) \in Nat
      BY <2>1, <2>6
  <2> QED
      BY <2>2, <2>4, <2>5, <2>6, <2>7
<1>2. Cardinality(S) \in Nat
    BY FS_CardinalityType
<1> QED
    BY <1>1, <1>2

-----------------------------------------------------------------------------
(* The shape of a request; fields the argument does not look at only have  *)
(* to be there.                                                            *)
RequestShape(r) ==
    r \in [at : {"idle", "checked", "rechecked", "locked"}, kind : {"sale", "return"},
           sale : {r.sale}, lines : PartQuantities, discount : {r.discount},
           restock : BOOLEAN, seen : {r.seen}, fresh : {r.fresh}, amount : {r.amount},
           left : SUBSET Parts, part : Parts \cup {None}, read : Int,
           onHand : [Parts -> Int]]

StockShape ==
    /\ qtyOnHand \in [Parts -> Int]
    /\ sold \in PartQuantities
    /\ restocked \in PartQuantities
    /\ \A w \in Workers : RequestShape(req[w])
    /\ req = [w \in Workers |-> req[w]]

OnlyHolderIsLocked == \A w \in Workers : req[w].at = "locked" <=> holder = w

Change(r, p) == IF r.kind = "sale" THEN -r.lines[p] ELSE r.lines[p]

(* What the holder has read and written agrees with the committed stock.   *)
WorkSound(r) ==
    /\ r.at # "locked" => r.part = None
    /\ r.at = "locked" =>
         /\ r.left \subseteq Touched(r)
         /\ r.part # None => r.part \in r.left /\ r.read = qtyOnHand[r.part]
         /\ \A p \in Touched(r) \ r.left :
               r.onHand[p] = qtyOnHand[p] + Change(r, p) /\ r.onHand[p] >= 0

StockInv ==
    /\ StockShape
    /\ OnlyHolderIsLocked
    /\ \A w \in Workers : WorkSound(req[w])
    /\ NoOversell
    /\ StockConserved

-----------------------------------------------------------------------------
LEMMA IdleSound == RequestShape(NoRequest) /\ NoRequest.at = "idle" /\ NoRequest.part = None
<1>1. Nothing \in PartQuantities
  BY DEF Nothing, PartQuantities
<1>2. \A n : n \in PartQuantities => n \in [Parts -> Int]
  BY DEF PartQuantities
<1> QED
  BY <1>1, <1>2 DEF RequestShape, NoRequest

(* A step that replaces one request and leaves stock alone only has to show *)
(* the new request sound.                                                   *)
LEMMA RequestOnlyStep ==
    ASSUME StockInv, NEW w \in Workers, NEW r,
           req' = [req EXCEPT ![w] = r],
           UNCHANGED <<qtyOnHand, sold, restocked>>,
           RequestShape(r), WorkSound(r),
           \/ holder' = holder /\ (r.at = "locked" <=> req[w].at = "locked")
           \/ holder = None /\ holder' = w /\ r.at = "locked"
           \/ holder = w /\ holder' = None /\ r.at # "locked"
    PROVE  StockInv'
<1> USE StockroomAssumption, PosSaleAssumption
<1>1. req'[w] = r /\ \A v \in Workers \ {w} : req'[v] = req[v]
  BY DEF StockInv, StockShape
<1>2. StockShape'
  BY <1>1 DEF StockInv, StockShape, RequestShape
<1>3. OnlyHolderIsLocked'
  BY <1>1 DEF StockInv, OnlyHolderIsLocked
<1>4. ASSUME NEW v \in Workers PROVE WorkSound(req[v])'
  <2>1. CASE v = w
    BY <1>1, <2>1 DEF WorkSound, Touched, Change
  <2>2. CASE v # w
    BY <1>1, <2>2 DEF StockInv, WorkSound, Touched, Change
  <2> QED BY <2>1, <2>2
<1>5. (NoOversell /\ StockConserved)'
  BY DEF StockInv, NoOversell, StockConserved
<1> QED
  BY <1>2, <1>3, <1>4, <1>5 DEF StockInv

(* A commit that adds to the stock of each touched part what it adds to the *)
(* books keeps both.                                                        *)
LEMMA CommitStep ==
    ASSUME StockInv, NEW w \in Workers,
           ReadyToCommit(w), CommitStock(w), holder' = None, EndRequest(w),
           sold' \in PartQuantities, restocked' \in PartQuantities,
           \A p \in Parts : restocked'[p] - sold'[p] =
               restocked[p] - sold[p]
                 + (IF p \in Touched(req[w]) THEN Change(req[w], p) ELSE 0)
    PROVE  StockInv'
<1> USE StockroomAssumption, PosSaleAssumption
<1> DEFINE r == req[w]
<1>1. /\ RequestShape(r) /\ WorkSound(r) /\ r.at = "locked" /\ r.left = {}
      /\ r.onHand \in [Parts -> Int] /\ r.lines \in [Parts -> Nat]
  BY DEF StockInv, StockShape, ReadyToCommit, RequestShape, PartQuantities
<1>2. \A p \in Touched(r) :
         p \in Parts /\ r.onHand[p] = qtyOnHand[p] + Change(r, p) /\ r.onHand[p] >= 0
  BY <1>1 DEF WorkSound, Touched
<1>3. req'[w] = NoRequest /\ \A v \in Workers \ {w} : req'[v] = req[v]
  BY DEF EndRequest, StockInv, StockShape
<1>4. \A v \in Workers \ {w} : req[v].at # "locked"
  BY <1>1 DEF StockInv, OnlyHolderIsLocked
<1>5. qtyOnHand' \in [Parts -> Int]
  BY <1>1 DEF CommitStock, StockInv, StockShape
<1>6. StockShape'
  <2>1. \A v \in Workers : RequestShape(req'[v])
    BY <1>3, IdleSound DEF StockInv, StockShape
  <2>2. req' = [v \in Workers |-> req'[v]]
    BY DEF EndRequest, StockInv, StockShape
  <2>3. \A v \in Workers : RequestShape(req[v])'
    BY <2>1 DEF RequestShape
  <2> QED BY <1>5, <2>2, <2>3 DEF StockShape
<1>7. OnlyHolderIsLocked'
  BY <1>3, <1>4, IdleSound DEF OnlyHolderIsLocked
<1>8. \A v \in Workers : WorkSound(req[v])'
  BY <1>3, <1>4, IdleSound DEF WorkSound, StockInv
<1>9. NoOversell'
  BY <1>2, <1>5 DEF NoOversell, CommitStock, StockInv
<1>10. StockConserved'
  <2> SUFFICES ASSUME NEW p \in Parts
               PROVE  qtyOnHand'[p] = InitialOnHand[p] - sold'[p] + restocked'[p]
    BY DEF StockConserved
  <2>1. /\ qtyOnHand[p] \in Int /\ sold[p] \in Int /\ restocked[p] \in Int
        /\ InitialOnHand[p] \in Int /\ sold'[p] \in Int /\ restocked'[p] \in Int
        /\ qtyOnHand[p] = InitialOnHand[p] - sold[p] + restocked[p]
    BY DEF StockInv, StockShape, StockConserved, PartQuantities
  <2>2. CASE p \in Touched(r)
    <3>1. qtyOnHand'[p] = qtyOnHand[p] + Change(r, p)
      BY <1>2, <2>2 DEF CommitStock
    <3>2. Change(r, p) \in Int
      BY <1>1 DEF Change
    <3>3. restocked'[p] - sold'[p] = restocked[p] - sold[p] + Change(r, p)
      BY <2>2
    <3> QED BY <2>1, <3>1, <3>2, <3>3
  <2>3. CASE p \notin Touched(r)
    <3>1. qtyOnHand'[p] = qtyOnHand[p]
      BY <2>3 DEF CommitStock
    <3>2. restocked'[p] - sold'[p] = restocked[p] - sold[p] + 0
      BY <2>3
    <3> QED BY <2>1, <3>1, <3>2
  <2> QED BY <2>2, <2>3
<1> QED
  BY <1>6, <1>7, <1>8, <1>9, <1>10 DEF StockInv

-----------------------------------------------------------------------------
LEMMA InitSound == SaleInit => StockInv
<1> SUFFICES ASSUME SaleInit PROVE StockInv
  OBVIOUS
<1> USE StockroomAssumption, PosSaleAssumption
<1>1. \A w \in Workers : req[w] = NoRequest
  BY DEF SaleInit
<1>2. StockShape
  <2>1. qtyOnHand \in [Parts -> Int] /\ sold \in PartQuantities /\ restocked \in PartQuantities
    BY DEF SaleInit, Nothing, PartQuantities
  <2>2. \A w \in Workers : RequestShape(req[w])
    BY <1>1, IdleSound
  <2> QED BY <2>1, <2>2 DEF StockShape, SaleInit
<1>3. OnlyHolderIsLocked
  BY <1>1, IdleSound DEF OnlyHolderIsLocked, SaleInit
<1>4. \A w \in Workers : WorkSound(req[w])
  BY <1>1, IdleSound DEF WorkSound
<1>5. NoOversell /\ StockConserved
  BY DEF SaleInit, NoOversell, StockConserved, Nothing
<1> QED
  BY <1>2, <1>3, <1>4, <1>5 DEF StockInv

(* The checks before the lock replace an unlocked request by another.      *)
LEMMA CheckStep ==
    ASSUME StockInv, NEW w \in Workers,
           \/ CheckSale(w) \/ RecheckSale(w) \/ CheckReturn(w) \/ RecheckReturn(w)
    PROVE  StockInv'
<1> USE StockroomAssumption, PosSaleAssumption
<1>1. UNCHANGED <<qtyOnHand, sold, restocked>> /\ holder' = holder
  BY DEF CheckSale, RecheckSale, CheckReturn, RecheckReturn, Rows
<1>2. req[w].at # "locked" /\ RequestShape(req[w]) /\ WorkSound(req[w])
  BY DEF StockInv, StockShape, CheckSale, RecheckSale, CheckReturn, RecheckReturn
<1>3. \A lines \in Carts : lines \in PartQuantities
  BY DEF Carts, PartQuantities
<1>4. PICK r : /\ req' = [req EXCEPT ![w] = r]
               /\ RequestShape(r) /\ r.at # "locked" /\ r.part = None
  <2>1. CASE CheckSale(w)
    <3>1. PICK s \in Sales, lines \in Carts, d \in Discounts :
             req' = [req EXCEPT ![w] = [NoRequest EXCEPT !.at = "checked", !.sale = s,
                                           !.lines = lines, !.discount = d]]
      BY <2>1 DEF CheckSale
    <3> DEFINE r == [NoRequest EXCEPT !.at = "checked", !.sale = s,
                                 !.lines = lines, !.discount = d]
    <3>2. RequestShape(r) /\ r.at # "locked" /\ r.part = None
      BY <1>3, IdleSound DEF RequestShape, NoRequest
    <3> QED BY <3>1, <3>2
  <2>2. CASE CheckReturn(w)
    <3>1. PICK s \in Sales, lines \in Carts, restock \in BOOLEAN :
             req' = [req EXCEPT ![w] =
                       [NoRequest EXCEPT !.at = "checked", !.kind = "return", !.sale = s,
                          !.lines = lines, !.restock = restock, !.seen = sale[s],
                          !.amount = RefundTotal(sale[s], lines)]]
      BY <2>2 DEF CheckReturn
    <3> DEFINE r == [NoRequest EXCEPT !.at = "checked", !.kind = "return", !.sale = s,
                          !.lines = lines, !.restock = restock, !.seen = sale[s],
                          !.amount = RefundTotal(sale[s], lines)]
    <3>2. RequestShape(r) /\ r.at # "locked" /\ r.part = None
      BY <1>3, IdleSound DEF RequestShape, NoRequest
    <3> QED BY <3>1, <3>2
  <2>3. CASE RecheckSale(w) \/ RecheckReturn(w)
    <3>1. CASE EndRequest(w)
      BY <3>1, IdleSound DEF EndRequest
    <3>2. CASE ~EndRequest(w) /\ RecheckSale(w)
      <4> DEFINE r == [req[w] EXCEPT !.at = "rechecked"]
      <4>1. req' = [req EXCEPT ![w] = r]
        BY <3>2 DEF RecheckSale
      <4>2. RequestShape(r) /\ r.at # "locked" /\ r.part = None
        BY <1>2 DEF RequestShape, WorkSound
      <4> QED BY <4>1, <4>2
    <3>3. CASE ~EndRequest(w) /\ RecheckReturn(w)
      <4> DEFINE row == sale[req[w].sale]
                 r == [req[w] EXCEPT !.at = "rechecked", !.seen = row,
                                     !.fresh = (req[w].seen = row)]
      <4>1. req' = [req EXCEPT ![w] = r]
        BY <3>3 DEF RecheckReturn
      <4>2. RequestShape(r) /\ r.at # "locked" /\ r.part = None
        BY <1>2 DEF RequestShape, WorkSound
      <4> QED BY <4>1, <4>2
    <3> QED BY <2>3, <3>1, <3>2, <3>3
  <2> QED BY <2>1, <2>2, <2>3
<1>5. WorkSound(r)
  BY <1>4 DEF WorkSound
<1> QED
  BY <1>1, <1>2, <1>4, <1>5, RequestOnlyStep

LEMMA LockStep ==
    ASSUME StockInv, NEW w \in Workers, LockSequence(w) PROVE StockInv'
<1> USE StockroomAssumption, PosSaleAssumption
<1> DEFINE r == [req[w] EXCEPT !.at = "locked", !.left = Touched(req[w])]
<1>1. RequestShape(req[w]) /\ WorkSound(req[w]) /\ req[w].at = "rechecked"
  BY DEF StockInv, StockShape, LockSequence
<1>2. req' = [req EXCEPT ![w] = r]
  BY DEF LockSequence
<1>3. RequestShape(r)
  BY <1>1 DEF RequestShape, Touched
<1>4. r.at = "locked" /\ r.part = None /\ r.left = Touched(r)
  BY <1>1 DEF RequestShape, WorkSound, Touched
<1>5. WorkSound(r)
  BY <1>4 DEF WorkSound
<1>6. UNCHANGED <<qtyOnHand, sold, restocked>> /\ holder = None /\ holder' = w
  BY DEF LockSequence, SequenceFree, Rows
<1> QED
  BY <1>2, <1>3, <1>4, <1>5, <1>6, RequestOnlyStep

LEMMA ReadStep ==
    ASSUME StockInv, NEW w \in Workers, ReadStock(w) PROVE StockInv'
<1> USE StockroomAssumption, PosSaleAssumption
<1>1. RequestShape(req[w]) /\ WorkSound(req[w]) /\ req[w].at = "locked"
  BY DEF StockInv, StockShape, ReadStock
<1>2. PICK p \in req[w].left :
         req' = [req EXCEPT ![w].part = p, ![w].read = qtyOnHand[p]]
  BY DEF ReadStock
<1> DEFINE r == [req[w] EXCEPT !.part = p, !.read = qtyOnHand[p]]
<1>3. req' = [req EXCEPT ![w] = r]
  BY <1>2
<1>4. p \in Parts /\ qtyOnHand[p] \in Int
  BY <1>1 DEF RequestShape, StockInv, StockShape
<1>5. RequestShape(r)
  BY <1>1, <1>4 DEF RequestShape
<1>6. WorkSound(r)
  BY <1>1, <1>2 DEF RequestShape, WorkSound, Touched, Change
<1>7. UNCHANGED <<qtyOnHand, sold, restocked>> /\ holder' = holder /\ r.at = "locked"
  BY <1>1 DEF ReadStock, Rows, RequestShape
<1> QED
  BY <1>1, <1>3, <1>5, <1>6, <1>7, RequestOnlyStep

LEMMA WriteStep ==
    ASSUME StockInv, NEW w \in Workers, WritePart(w) PROVE StockInv'
<1> USE StockroomAssumption, PosSaleAssumption
<1>1. RequestShape(req[w]) /\ WorkSound(req[w]) /\ req[w].at = "locked"
  BY DEF StockInv, StockShape, WritePart
<1> DEFINE p == req[w].part
           new == NewOnHand(w)
           r == [req[w] EXCEPT !.onHand[p] = new, !.left = @ \ {p}, !.part = None]
<1>2. req' = [req EXCEPT ![w] = r]
  BY DEF WritePart
<1>3. p \in Parts /\ p \in req[w].left /\ req[w].read = qtyOnHand[p]
  BY <1>1 DEF WritePart, WorkSound, RequestShape
<1>4. qtyOnHand[p] \in Int /\ qtyOnHand[p] >= 0 /\ req[w].lines[p] \in Nat
  BY <1>1, <1>3 DEF StockInv, StockShape, NoOversell, RequestShape, PartQuantities
<1>5. new \in Int /\ new = qtyOnHand[p] + Change(req[w], p) /\ new >= 0
  BY <1>1, <1>3, <1>4 DEF NewOnHand, Change, WritePart, RefusedByStock, RequestShape
<1>6. RequestShape(r)
  BY <1>1, <1>3, <1>5 DEF RequestShape
<1>7. /\ r.at = "locked" /\ r.part = None /\ r.left = req[w].left \ {p}
      /\ Touched(r) = Touched(req[w])
      /\ \A q \in Parts : Change(r, q) = Change(req[w], q)
      /\ \A q \in Parts : r.onHand[q] = IF q = p THEN new ELSE req[w].onHand[q]
  BY <1>1, <1>3 DEF RequestShape, Touched, Change
<1>8. WorkSound(r)
  <2> SUFFICES ASSUME NEW q \in Touched(r) \ r.left
               PROVE  r.onHand[q] = qtyOnHand[q] + Change(r, q) /\ r.onHand[q] >= 0
    BY <1>1, <1>7 DEF WorkSound
  <2>1. q \in Parts /\ q \in Touched(req[w])
    BY <1>7 DEF Touched
  <2>2. CASE q = p
    BY <1>5, <1>7, <2>1, <2>2
  <2>3. CASE q # p
    BY <1>1, <1>7, <2>1, <2>3 DEF WorkSound
  <2> QED BY <2>2, <2>3
<1>9. UNCHANGED <<qtyOnHand, sold, restocked>> /\ holder' = holder
  BY DEF WritePart, Rows
<1> HIDE DEF r
<1> QED
  BY <1>1, <1>2, <1>6, <1>7, <1>8, <1>9, RequestOnlyStep

LEMMA RollBackStep ==
    ASSUME StockInv, NEW w \in Workers, RollBack(w) PROVE StockInv'
<1> USE StockroomAssumption, PosSaleAssumption
<1>1. req[w].at = "locked" /\ holder = w
  BY DEF StockInv, OnlyHolderIsLocked, RollBack
<1>2. UNCHANGED <<qtyOnHand, sold, restocked>> /\ holder' = None
  BY DEF RollBack, Rows
<1>3. req' = [req EXCEPT ![w] = NoRequest]
  BY DEF RollBack, EndRequest
<1>4. RequestShape(NoRequest) /\ WorkSound(NoRequest) /\ NoRequest.at # "locked"
  BY IdleSound DEF WorkSound
<1> QED
  BY <1>1, <1>2, <1>3, <1>4, RequestOnlyStep

LEMMA SaleCommitStep ==
    ASSUME StockInv, NEW w \in Workers, CommitSale(w) PROVE StockInv'
<1> USE StockroomAssumption, PosSaleAssumption
<1> DEFINE r == req[w]
<1>1. /\ RequestShape(r) /\ r.kind = "sale" /\ ReadyToCommit(w) /\ CommitStock(w)
      /\ holder' = None /\ EndRequest(w)
      /\ sold' = [p \in Parts |-> sold[p] + r.lines[p]] /\ restocked' = restocked
  BY DEF CommitSale, StockInv, StockShape
<1>2. r.lines \in [Parts -> Nat] /\ sold \in [Parts -> Nat] /\ restocked \in [Parts -> Nat]
  BY <1>1 DEF StockInv, StockShape, RequestShape, PartQuantities
<1>3. sold' \in PartQuantities /\ restocked' \in PartQuantities
  BY <1>1, <1>2 DEF PartQuantities
<1>4. ASSUME NEW p \in Parts
      PROVE  restocked'[p] - sold'[p] = restocked[p] - sold[p]
                 + (IF p \in Touched(r) THEN Change(r, p) ELSE 0)
  <2>1. sold'[p] = sold[p] + r.lines[p] /\ restocked'[p] = restocked[p]
    BY <1>1
  <2>2. r.lines[p] \in Nat /\ sold[p] \in Nat /\ restocked[p] \in Nat
    BY <1>2
  <2>3. p \notin Touched(r) => r.lines[p] = 0
    BY <1>1, <2>2 DEF Touched
  <2>4. Change(r, p) = -r.lines[p]
    BY <1>1 DEF Change
  <2> QED BY <2>1, <2>2, <2>3, <2>4
<1> QED
  BY <1>1, <1>3, <1>4, CommitStep

LEMMA ReturnCommitStep ==
    ASSUME StockInv, NEW w \in Workers, CommitReturn(w) PROVE StockInv'
<1> USE StockroomAssumption, PosSaleAssumption
<1> DEFINE r == req[w]
<1>1. /\ RequestShape(r) /\ r.kind = "return" /\ ReadyToCommit(w) /\ CommitStock(w)
      /\ holder' = None /\ EndRequest(w) /\ sold' = sold
      /\ restocked' = [p \in Parts |->
                          restocked[p] + (IF r.restock THEN r.lines[p] ELSE 0)]
  BY DEF CommitReturn, StockInv, StockShape
<1>2. r.lines \in [Parts -> Nat] /\ sold \in [Parts -> Nat] /\ restocked \in [Parts -> Nat]
  BY <1>1 DEF StockInv, StockShape, RequestShape, PartQuantities
<1>3. sold' \in PartQuantities /\ restocked' \in PartQuantities
  BY <1>1, <1>2 DEF PartQuantities
<1>4. ASSUME NEW p \in Parts
      PROVE  restocked'[p] - sold'[p] = restocked[p] - sold[p]
                 + (IF p \in Touched(r) THEN Change(r, p) ELSE 0)
  <2>1. /\ restocked'[p] = restocked[p] + (IF r.restock THEN r.lines[p] ELSE 0)
        /\ sold'[p] = sold[p]
    BY <1>1
  <2>2. r.lines[p] \in Nat /\ sold[p] \in Nat /\ restocked[p] \in Nat
    BY <1>2
  <2>3. p \in Touched(r) <=> r.lines[p] > 0 /\ r.restock
    BY <1>1 DEF Touched
  <2>4. Change(r, p) = r.lines[p]
    BY <1>1 DEF Change
  <2> QED BY <2>1, <2>2, <2>3, <2>4
<1> QED
  BY <1>1, <1>3, <1>4, CommitStep

LEMMA StutterStep == StockInv /\ UNCHANGED saleVars => StockInv'
  BY DEF StockInv, StockShape, RequestShape, OnlyHolderIsLocked, WorkSound,
         NoOversell, StockConserved, Touched, Change, saleVars

-----------------------------------------------------------------------------
LEMMA StepStock == StockInv /\ [SaleNext]_saleVars => StockInv'
<1> SUFFICES ASSUME StockInv, [SaleNext]_saleVars PROVE StockInv'
  OBVIOUS
<1>1. ASSUME NEW w \in Workers,
             \/ CheckSale(w) \/ RecheckSale(w) \/ CheckReturn(w) \/ RecheckReturn(w)
      PROVE  StockInv'
  BY <1>1, CheckStep
<1>2. ASSUME NEW w \in Workers, CommitSale(w) PROVE StockInv'
  BY <1>2, SaleCommitStep
<1>3. ASSUME NEW w \in Workers, CommitReturn(w) PROVE StockInv'
  BY <1>3, ReturnCommitStep
<1>4. ASSUME NEW w \in Workers, LockSequence(w) PROVE StockInv'
  BY <1>4, LockStep
<1>5. ASSUME NEW w \in Workers, ReadStock(w) PROVE StockInv'
  BY <1>5, ReadStep
<1>6. ASSUME NEW w \in Workers, WritePart(w) PROVE StockInv'
  BY <1>6, WriteStep
<1>7. ASSUME NEW w \in Workers, RollBack(w) PROVE StockInv'
  BY <1>7, RollBackStep
<1> QED
  BY <1>1, <1>2, <1>3, <1>4, <1>5, <1>6, <1>7, StutterStep DEF SaleNext

LEMMA StockInvariant == SaleSpec => []StockInv
  BY InitSound, StepStock, PTL DEF SaleSpec

(* Counter sales never drive the stock on hand of a part below zero.       *)
THEOREM SalesNeverOversell == SaleSpec => []NoOversell
<1>1. StockInv => NoOversell
  BY DEF StockInv
<1> QED BY <1>1, StockInvariant, PTL

(* The stock on hand is always what the committed sales and returns leave. *)
THEOREM SalesConserveStock == SaleSpec => []StockConserved
<1>1. StockInv => StockConserved
  BY DEF StockInv
<1> QED BY <1>1, StockInvariant, PTL

-----------------------------------------------------------------------------
(* Money.  A share is paid back only as far as there is something left.     *)
LEMMA MoneyTyped ==
    /\ \A q \in PartQuantities : Subtotal(q) \in Nat
    /\ \A n \in Int : WithTax(n) \in Int
    /\ \A row \in SaleRows, q \in PartQuantities :
          /\ RefundTotal(row, q) \in Int
          /\ RefundTotal(row, q) <= AtLeastZero(row.total - row.refundedTotal)
<1>1. ASSUME NEW q \in PartQuantities PROVE Subtotal(q) \in Nat
  <2> DEFINE price == [p \in Parts |-> q[p] * UnitPrice[p]]
  <2>1. \A p \in Parts : price[p] \in Nat
      BY PosSaleAssumption DEF PartQuantities
  <2>2. FoldFunction(+, 0, price) = SumOn(price, Parts)
      BY FoldOver
  <2> HIDE DEF price
  <2>3. SumOn(price, Parts) \in Nat
      BY <2>1, PosSaleAssumption, SumIsNat
  <2> QED
      BY <2>2, <2>3 DEF Subtotal, price
<1>2. \A a \in Int, b \in Nat : b > 0 => Round(a, b) \in Int
  <2> SUFFICES ASSUME NEW a \in Int, NEW b \in Nat, b > 0 PROVE Round(a, b) \in Int
      OBVIOUS
  <2>1. 2 * a + b \in Int /\ 2 * b \in Nat /\ 2 * b > 0
      OBVIOUS
  <2>2. \A m \in Int, n \in Nat : n > 0 => m \div n \in Int
      OBVIOUS
  <2> QED
      BY <2>1, <2>2 DEF Round
<1>3. ASSUME NEW n \in Int PROVE WithTax(n) \in Int
  <2>1. n * TaxRate \in Int
      BY PosSaleAssumption
  <2>2. Round(n * TaxRate, 100) \in Int
      BY <1>2, <2>1
  <2> QED
      BY <2>2 DEF WithTax
<1>4. \A n \in Int : AtLeastZero(n) \in Nat
    BY DEF AtLeastZero
<1>5. ASSUME NEW row \in SaleRows, NEW q \in PartQuantities
      PROVE  /\ RefundTotal(row, q) \in Int
             /\ RefundTotal(row, q) <= AtLeastZero(row.total - row.refundedTotal)
  <2> DEFINE gross == Subtotal(q)
             discount == IF row.subtotal > 0
                           THEN Round(gross * row.discount, row.subtotal) ELSE 0
             share == WithTax(AtLeastZero(gross - discount))
             remaining == AtLeastZero(row.total - row.refundedTotal)
  <2>1. gross \in Nat
      BY <1>1
  <2>2. /\ row.subtotal \in Nat /\ row.discount \in Nat
        /\ row.total \in Int /\ row.refundedTotal \in Int
      BY DEF SaleRows
  <2>3. RefundTotal(row, q) = IF share < remaining THEN share ELSE remaining
      BY DEF RefundTotal
  <2> HIDE DEF gross
  <2>4. gross * row.discount \in Int
      BY <2>1, <2>2
  <2>5. discount \in Int
      BY <1>2, <2>2, <2>4
  <2> HIDE DEF discount
  <2>6. AtLeastZero(gross - discount) \in Int
      BY <1>4, <2>1, <2>5
  <2>7. share \in Int
      BY <1>3, <2>6
  <2>8. remaining \in Int
      BY <1>4, <2>2
  <2> HIDE DEF share, remaining
  <2>9. RefundTotal(row, q) \in Int /\ RefundTotal(row, q) <= remaining
      BY <2>3, <2>7, <2>8
  <2> QED
      BY <2>9 DEF remaining
<1> QED
    BY <1>1, <1>3, <1>5

(* What a request has settled of the money before it locks the sequence.    *)
MoneySound(r) ==
    /\ r.at # "idle" => r.sale \in Sales
    /\ r.at # "idle" /\ r.kind = "sale" =>
         r.discount <= Subtotal(r.lines) /\ WithTax(Subtotal(r.lines) - r.discount) > 0
    /\ r.at # "idle" /\ r.kind = "return" =>
         /\ WithinRemaining(r.seen, r.lines)
         /\ r.at = "checked" \/ r.fresh =>
              r.amount <= AtLeastZero(r.seen.total - r.seen.refundedTotal)

RefundInv ==
    /\ SaleTypeOK
    /\ \A w \in Workers : MoneySound(req[w])
    /\ RefundsWithinSale

LEMMA NothingTyped == /\ Nothing \in PartQuantities /\ Nothing \in [Parts -> Int]
                      /\ \A p \in Parts : Nothing[p] = 0
                      /\ NoSale \in SaleRows /\ NoRequest \in SaleRequests
                      /\ NoRequest.at = "idle" /\ MoneySound(NoRequest)
<1>1. Nothing \in PartQuantities /\ Nothing \in [Parts -> Int] /\ \A p \in Parts : Nothing[p] = 0
    BY DEF Nothing, PartQuantities
<1>2. NoSale \in SaleRows
    BY <1>1 DEF NoSale, SaleRows
<1>3. NoRequest \in SaleRequests
    BY <1>1, <1>2 DEF NoRequest, SaleRequests
<1>4. NoRequest.at = "idle"
    BY DEF NoRequest
<1> QED
    BY <1>1, <1>2, <1>3, <1>4 DEF MoneySound

LEMMA InitRefunds == SaleInit => RefundInv
<1> SUFFICES ASSUME SaleInit PROVE RefundInv
    OBVIOUS
<1>1. InitialOnHand \in [Parts -> Int]
    BY StockroomAssumption
<1>2. SaleTypeOK
    BY <1>1, NothingTyped DEF SaleInit, SaleTypeOK
<1>3. \A w \in Workers : MoneySound(req[w])
    BY NothingTyped DEF SaleInit
<1>4. RefundsWithinSale
  <2>1. \A s \in Sales : sale[s] = NoSale
      BY DEF SaleInit
  <2>2. /\ NoSale.returned = Nothing /\ NoSale.qty = Nothing /\ NoSale.refundedTotal = 0
        /\ NoSale.paidBack = 0 /\ NoSale.total = 0
      BY DEF NoSale
  <2> QED
      BY <2>1, <2>2, NothingTyped DEF RefundsWithinSale
<1> QED
    BY <1>2, <1>3, <1>4 DEF RefundInv

(* A step that leaves the sale rows alone.                                  *)
LEMMA RowsKept ==
    ASSUME RefundInv, StockInv', UNCHANGED <<sale, overlappedSales>>,
           NEW w \in Workers, NEW r \in SaleRequests, req' = [req EXCEPT ![w] = r],
           MoneySound(r), holder' \in {holder, w, None}
    PROVE  RefundInv'
<1>1. SaleTypeOK
    BY DEF RefundInv
<1>2. req' \in [Workers -> SaleRequests]
    BY <1>1 DEF SaleTypeOK
<1>3. qtyOnHand' \in [Parts -> Int] /\ sold' \in PartQuantities /\ restocked' \in PartQuantities
    BY DEF StockInv, StockShape
<1>4. SaleTypeOK'
    BY <1>1, <1>2, <1>3 DEF SaleTypeOK
<1>5. \A v \in Workers : MoneySound(req'[v])
    BY <1>1 DEF RefundInv, SaleTypeOK
<1>6. RefundsWithinSale'
    BY DEF RefundInv, RefundsWithinSale
<1>7. \A v \in Workers : MoneySound(req[v])'
    BY <1>5 DEF MoneySound, WithinRemaining
<1> QED
    BY <1>4, <1>6, <1>7 DEF RefundInv

LEMMA CheckKeepsRefunds ==
    ASSUME RefundInv, StockInv', NEW w \in Workers,
           \/ CheckSale(w) \/ RecheckSale(w) \/ CheckReturn(w) \/ RecheckReturn(w)
    PROVE  RefundInv'
<1>1. SaleTypeOK /\ req[w] \in SaleRequests /\ MoneySound(req[w])
    BY DEF RefundInv, SaleTypeOK
<1>2. UNCHANGED <<sale, overlappedSales, holder>>
    BY DEF CheckSale, RecheckSale, CheckReturn, RecheckReturn, Rows
<1>3. \A lines \in Carts : lines \in PartQuantities
    BY DEF Carts, PartQuantities
<1>4. ASSUME EndRequest(w) PROVE RefundInv'
    BY <1>2, <1>4, NothingTyped, RowsKept DEF EndRequest
<1>5. CASE CheckSale(w)
  <2>1. PICK s \in Sales, lines \in Carts, d \in Discounts :
           /\ d <= Subtotal(lines) /\ WithTax(Subtotal(lines) - d) > 0
           /\ req' = [req EXCEPT ![w] = [NoRequest EXCEPT !.at = "checked", !.sale = s,
                                           !.lines = lines, !.discount = d]]
      BY <1>5 DEF CheckSale
  <2> DEFINE r == [NoRequest EXCEPT !.at = "checked", !.sale = s, !.lines = lines,
                                    !.discount = d]
  <2>2. lines \in PartQuantities /\ d \in Nat
      BY <1>3, PosSaleAssumption
  <2>3. r \in SaleRequests
      BY <2>2, NothingTyped DEF SaleRequests
  <2>4. /\ r.at = "checked" /\ r.kind = "sale" /\ r.sale = s /\ r.lines = lines
        /\ r.discount = d
      BY DEF NoRequest
  <2>5. MoneySound(r)
      BY <2>1, <2>4 DEF MoneySound
  <2> QED
      BY <1>2, <2>1, <2>3, <2>5, RowsKept
<1>6. CASE CheckReturn(w)
  <2>1. PICK s \in Sales, lines \in Carts, restock \in BOOLEAN :
           /\ WithinRemaining(sale[s], lines)
           /\ req' = [req EXCEPT ![w] =
                       [NoRequest EXCEPT !.at = "checked", !.kind = "return", !.sale = s,
                          !.lines = lines, !.restock = restock, !.seen = sale[s],
                          !.amount = RefundTotal(sale[s], lines)]]
      BY <1>6 DEF CheckReturn
  <2> DEFINE r == [NoRequest EXCEPT !.at = "checked", !.kind = "return", !.sale = s,
                          !.lines = lines, !.restock = restock, !.seen = sale[s],
                          !.amount = RefundTotal(sale[s], lines)]
  <2>2. lines \in PartQuantities /\ sale[s] \in SaleRows
      BY <1>1, <1>3 DEF SaleTypeOK
  <2>3. /\ RefundTotal(sale[s], lines) \in Int
        /\ RefundTotal(sale[s], lines) <= AtLeastZero(sale[s].total - sale[s].refundedTotal)
      BY <2>2, MoneyTyped
  <2>4. r \in SaleRequests
      BY <2>2, <2>3, NothingTyped DEF SaleRequests
  <2>5. /\ r.at = "checked" /\ r.kind = "return" /\ r.sale = s /\ r.lines = lines
        /\ r.seen = sale[s] /\ r.amount = RefundTotal(sale[s], lines)
      BY DEF NoRequest
  <2>6. MoneySound(r)
      BY <2>1, <2>3, <2>5 DEF MoneySound
  <2> QED
      BY <1>2, <2>1, <2>4, <2>6, RowsKept
<1>7. CASE RecheckSale(w) /\ ~EndRequest(w)
  <2> DEFINE r == [req[w] EXCEPT !.at = "rechecked"]
  <2>1. req' = [req EXCEPT ![w] = r] /\ req[w].at = "checked"
      BY <1>7 DEF RecheckSale
  <2>2. r \in SaleRequests
      BY <1>1 DEF SaleRequests
  <2>3. /\ r.kind = req[w].kind /\ r.sale = req[w].sale /\ r.lines = req[w].lines
        /\ r.discount = req[w].discount /\ r.seen = req[w].seen /\ r.fresh = req[w].fresh
        /\ r.amount = req[w].amount /\ r.at = "rechecked"
      BY <1>1 DEF SaleRequests
  <2>4. MoneySound(r)
      BY <1>1, <2>1, <2>3 DEF MoneySound
  <2> QED
      BY <1>2, <2>1, <2>2, <2>4, RowsKept
<1>8. CASE RecheckReturn(w) /\ ~EndRequest(w)
  <2> DEFINE row == sale[req[w].sale]
             r == [req[w] EXCEPT !.at = "rechecked", !.seen = row,
                                 !.fresh = (req[w].seen = row)]
  <2>1. /\ req' = [req EXCEPT ![w] = r] /\ req[w].at = "checked" /\ req[w].kind = "return"
        /\ WithinRemaining(row, req[w].lines)
      BY <1>8 DEF RecheckReturn
  <2>2. /\ req[w].sale \in Sales
        /\ req[w].amount <= AtLeastZero(req[w].seen.total - req[w].seen.refundedTotal)
      BY <1>1, <2>1 DEF MoneySound
  <2>3. row \in SaleRows
      BY <1>1, <2>2 DEF SaleTypeOK
  <2>4. r \in SaleRequests
      BY <1>1, <2>3 DEF SaleRequests
  <2>5. /\ r.kind = "return" /\ r.sale = req[w].sale /\ r.lines = req[w].lines
        /\ r.seen = row /\ r.fresh = (req[w].seen = row) /\ r.amount = req[w].amount
        /\ r.at = "rechecked"
      BY <1>1, <2>1 DEF SaleRequests
  <2>6. MoneySound(r)
      BY <1>1, <2>1, <2>2, <2>5 DEF MoneySound
  <2> QED
      BY <1>2, <2>1, <2>4, <2>6, RowsKept
<1> QED
    BY <1>4, <1>5, <1>6, <1>7, <1>8

(* Under the lock a request changes what it has read and written of stock.  *)
LEMMA LockKeepsRefunds ==
    ASSUME RefundInv, StockInv', NEW w \in Workers,
           LockSequence(w) \/ ReadStock(w) \/ WritePart(w) \/ RollBack(w)
    PROVE  RefundInv'
<1>1. SaleTypeOK /\ req[w] \in SaleRequests /\ MoneySound(req[w])
    BY DEF RefundInv, SaleTypeOK
<1>2. UNCHANGED <<sale, overlappedSales>> /\ holder' \in {holder, w, None}
    BY DEF LockSequence, ReadStock, WritePart, RollBack, Rows
<1>3. CASE RollBack(w)
    BY <1>2, <1>3, NothingTyped, RowsKept DEF RollBack, EndRequest
<1>4. CASE LockSequence(w)
  <2> DEFINE r == [req[w] EXCEPT !.at = "locked", !.left = Touched(req[w])]
  <2>1. req' = [req EXCEPT ![w] = r] /\ req[w].at = "rechecked"
      BY <1>4 DEF LockSequence
  <2>2. Touched(req[w]) \subseteq Parts
      BY DEF Touched
  <2>3. r \in SaleRequests
      BY <1>1, <2>2 DEF SaleRequests
  <2>4. /\ r.kind = req[w].kind /\ r.sale = req[w].sale /\ r.lines = req[w].lines
        /\ r.discount = req[w].discount /\ r.seen = req[w].seen /\ r.fresh = req[w].fresh
        /\ r.amount = req[w].amount /\ r.at = "locked"
      BY <1>1 DEF SaleRequests
  <2>5. MoneySound(r)
      BY <1>1, <2>1, <2>4 DEF MoneySound
  <2> QED
      BY <1>2, <2>1, <2>3, <2>5, RowsKept
<1>5. CASE ReadStock(w)
  <2>1. PICK p \in req[w].left : req' = [req EXCEPT ![w].part = p, ![w].read = qtyOnHand[p]]
      BY <1>5 DEF ReadStock
  <2> DEFINE r == [req[w] EXCEPT !.part = p, !.read = qtyOnHand[p]]
  <2>2. req' = [req EXCEPT ![w] = r]
      BY <1>1, <2>1 DEF SaleTypeOK
  <2>3. p \in Parts /\ qtyOnHand[p] \in Int
      BY <1>1 DEF SaleRequests, SaleTypeOK
  <2>4. r \in SaleRequests
      BY <1>1, <2>3 DEF SaleRequests
  <2>5. /\ r.kind = req[w].kind /\ r.sale = req[w].sale /\ r.lines = req[w].lines
        /\ r.discount = req[w].discount /\ r.seen = req[w].seen /\ r.fresh = req[w].fresh
        /\ r.amount = req[w].amount /\ r.at = req[w].at
      BY <1>1 DEF SaleRequests
  <2>6. MoneySound(r)
      BY <1>1, <2>5 DEF MoneySound
  <2> QED
      BY <1>2, <2>2, <2>4, <2>6, RowsKept
<1>6. CASE WritePart(w)
  <2> DEFINE p == req[w].part
             new == NewOnHand(w)
             r == [req[w] EXCEPT !.onHand[p] = new, !.left = @ \ {p}, !.part = None]
  <2>1. req' = [req EXCEPT ![w] = r]
      BY <1>6 DEF WritePart
  <2>2. p \in Parts
      BY <1>1, <1>6 DEF WritePart, SaleRequests
  <2>3. req[w].read \in Int /\ req[w].lines[p] \in Int /\ req[w].onHand \in [Parts -> Int]
      BY <1>1, <2>2 DEF SaleRequests, PartQuantities
  <2>4. new \in Int
      BY <2>3 DEF NewOnHand
  <2> HIDE DEF new
  <2>5. [req[w].onHand EXCEPT ![p] = new] \in [Parts -> Int]
      BY <2>3, <2>4
  <2>6. r \in SaleRequests
      BY <1>1, <2>5 DEF SaleRequests
  <2>7. /\ r.kind = req[w].kind /\ r.sale = req[w].sale /\ r.lines = req[w].lines
        /\ r.discount = req[w].discount /\ r.seen = req[w].seen /\ r.fresh = req[w].fresh
        /\ r.amount = req[w].amount /\ r.at = req[w].at
      BY <1>1 DEF SaleRequests
  <2>8. MoneySound(r)
      BY <1>1, <2>7 DEF MoneySound
  <2> HIDE DEF r
  <2> QED
      BY <1>2, <2>1, <2>6, <2>8, RowsKept
<1> QED
    BY <1>3, <1>4, <1>5, <1>6

(* A commit replaces the row of its sale.                                   *)
LEMMA RowReplaced ==
    ASSUME RefundInv, StockInv', NEW w \in Workers, EndRequest(w), holder' = None,
           NEW s \in Sales, NEW row \in SaleRows, sale' = [sale EXCEPT ![s] = row],
           overlappedSales' \in {overlappedSales, overlappedSales \cup {s}},
           s \notin overlappedSales' =>
              /\ \A p \in Parts : row.returned[p] <= row.qty[p]
              /\ row.refundedTotal = row.paidBack
              /\ row.paidBack <= row.total
    PROVE  RefundInv'
<1>1. SaleTypeOK
    BY DEF RefundInv
<1>2. sale' \in [Sales -> SaleRows] /\ overlappedSales' \subseteq Sales
    BY <1>1 DEF SaleTypeOK
<1>3. req' = [req EXCEPT ![w] = NoRequest] /\ req' \in [Workers -> SaleRequests]
    BY <1>1, NothingTyped DEF EndRequest, SaleTypeOK
<1>4. SaleTypeOK'
    BY <1>2, <1>3 DEF SaleTypeOK, StockInv, StockShape
<1>5. \A v \in Workers : MoneySound(req'[v])
    BY <1>1, <1>3, NothingTyped DEF RefundInv, SaleTypeOK
<1>6. \A v \in Workers : MoneySound(req[v])'
    BY <1>5 DEF MoneySound, WithinRemaining
<1>7. RefundsWithinSale'
  <2> SUFFICES ASSUME NEW t \in Sales, t \notin overlappedSales'
               PROVE  /\ \A p \in Parts : sale'[t].returned[p] <= sale'[t].qty[p]
                      /\ sale'[t].refundedTotal = sale'[t].paidBack
                      /\ sale'[t].paidBack <= sale'[t].total
      BY DEF RefundsWithinSale
  <2>1. t \notin overlappedSales
      OBVIOUS
  <2>2. CASE t = s
      BY <1>1, <2>2 DEF SaleTypeOK
  <2>3. CASE t # s
    <3>1. sale'[t] = sale[t]
        BY <1>1, <2>3 DEF SaleTypeOK
    <3> QED
        BY <2>1, <3>1 DEF RefundInv, RefundsWithinSale
  <2> QED
      BY <2>2, <2>3
<1> QED
    BY <1>4, <1>6, <1>7 DEF RefundInv

LEMMA SaleKeepsRefunds ==
    ASSUME RefundInv, StockInv', NEW w \in Workers, CommitSale(w) PROVE RefundInv'
<1>1. PICK r : r = req[w]
    OBVIOUS
<1>2. SaleTypeOK /\ r \in SaleRequests /\ MoneySound(r)
    BY <1>1 DEF RefundInv, SaleTypeOK
<1> DEFINE total == WithTax(Subtotal(r.lines) - r.discount)
           row == [NoSale EXCEPT !.status = "COMPLETED", !.qty = r.lines,
                     !.subtotal = Subtotal(r.lines), !.discount = r.discount, !.total = total]
<1>3. /\ r.at = "locked" /\ r.kind = "sale" /\ sale' = [sale EXCEPT ![r.sale] = row]
      /\ holder' = None /\ EndRequest(w) /\ overlappedSales' = overlappedSales
    BY <1>1 DEF CommitSale, ReadyToCommit
<1>4. r.sale \in Sales /\ total > 0 /\ r.lines \in PartQuantities /\ r.discount \in Nat
    BY <1>2, <1>3 DEF MoneySound, SaleRequests
<1>5. Subtotal(r.lines) \in Nat /\ total \in Int
  <2>1. Subtotal(r.lines) \in Nat
      BY <1>4, MoneyTyped
  <2>2. Subtotal(r.lines) - r.discount \in Int
      BY <1>4, <2>1
  <2> QED
      BY <2>1, <2>2, MoneyTyped
<1> HIDE DEF total
<1>6. row \in SaleRows
    BY <1>4, <1>5, NothingTyped DEF SaleRows
<1>7. /\ row.returned = Nothing /\ row.qty = r.lines /\ row.refundedTotal = 0
      /\ row.paidBack = 0 /\ row.total = total
    BY DEF NoSale
<1>8. \A p \in Parts : row.returned[p] <= row.qty[p]
    BY <1>4, <1>7, NothingTyped DEF PartQuantities
<1>9. row.refundedTotal = row.paidBack /\ row.paidBack <= row.total
    BY <1>4, <1>5, <1>7
<1>10. PICK s \in Sales : s = r.sale
    BY <1>4
<1> HIDE DEF row
<1>11. sale' = [sale EXCEPT ![s] = row]
    BY <1>3, <1>10
<1> QED
    BY <1>3, <1>6, <1>8, <1>9, <1>11, RowReplaced

LEMMA ReturnKeepsRefunds ==
    ASSUME RefundInv, StockInv', NEW w \in Workers, CommitReturn(w) PROVE RefundInv'
<1>1. PICK r : r = req[w]
    OBVIOUS
<1>2. SaleTypeOK /\ r \in SaleRequests /\ MoneySound(r)
    BY <1>1 DEF RefundInv, SaleTypeOK
<1>3. r.at = "locked" /\ r.kind = "return" /\ r.sale \in Sales
    BY <1>1, <1>2 DEF CommitReturn, ReadyToCommit, MoneySound
<1>4. PICK s \in Sales : s = r.sale
    BY <1>3
<1>5. PICK old \in SaleRows : old = sale[s]
    BY <1>2 DEF SaleTypeOK
<1>6. /\ r.lines \in PartQuantities /\ r.seen \in SaleRows /\ r.amount \in Int
      /\ r.fresh \in BOOLEAN
    BY <1>2 DEF SaleRequests
<1> DEFINE refunded == r.seen.refundedTotal + r.amount
           returned == [p \in Parts |-> old.returned[p] + r.lines[p]]
           row == [old EXCEPT !.returned = returned, !.refundedTotal = refunded,
                     !.status = StatusFor(refunded, r.seen.total),
                     !.paidBack = @ + r.amount]
<1>7. /\ holder' = None /\ EndRequest(w)
      /\ overlappedSales' = IF r.fresh /\ r.seen = sale[s] THEN overlappedSales
                            ELSE overlappedSales \cup {s}
    BY <1>1, <1>4 DEF CommitReturn
<1>8. sale' = [sale EXCEPT
            ![s].returned = [p \in Parts |-> @[p] + r.lines[p]],
            ![s].refundedTotal = refunded,
            ![s].status = StatusFor(refunded, r.seen.total),
            ![s].paidBack = @ + r.amount]
    BY <1>1, <1>4 DEF CommitReturn
<1>9. sale' = [sale EXCEPT ![s] = row]
    BY <1>2, <1>5, <1>8 DEF SaleTypeOK
<1>10. refunded \in Int /\ returned \in PartQuantities
    BY <1>6 DEF SaleRows, PartQuantities
<1>11. StatusFor(refunded, r.seen.total) \in {"REFUNDED", "PARTIALLY_REFUNDED", "COMPLETED"}
    BY DEF StatusFor
<1>12. old.paidBack \in Int /\ old.paidBack + r.amount \in Int
    BY <1>6 DEF SaleRows
<1> HIDE DEF refunded, returned
<1>13. row \in SaleRows
    BY <1>10, <1>11, <1>12 DEF SaleRows
<1>14. /\ row.returned = returned /\ row.qty = old.qty /\ row.refundedTotal = refunded
       /\ row.paidBack = old.paidBack + r.amount /\ row.total = old.total
    BY DEF SaleRows
<1> HIDE DEF row
<1>15. ASSUME s \notin overlappedSales'
       PROVE  /\ \A p \in Parts : row.returned[p] <= row.qty[p]
              /\ row.refundedTotal = row.paidBack
              /\ row.paidBack <= row.total
  <2>1. s \notin overlappedSales /\ r.fresh /\ r.seen = old
      BY <1>5, <1>7, <1>15
  <2>2. /\ \A p \in Parts : old.returned[p] <= old.qty[p]
        /\ old.refundedTotal = old.paidBack /\ old.paidBack <= old.total
      BY <1>5, <2>1 DEF RefundInv, RefundsWithinSale
  <2>3. /\ WithinRemaining(old, r.lines)
        /\ r.amount <= AtLeastZero(old.total - old.refundedTotal)
      BY <1>2, <1>3, <2>1 DEF MoneySound
  <2>4. /\ old.total \in Int /\ old.refundedTotal \in Int
        /\ \A p \in Parts : /\ old.returned[p] \in Nat /\ old.qty[p] \in Nat
                            /\ r.lines[p] \in Nat
      BY <1>6 DEF SaleRows, PartQuantities
  <2>5. \A p \in Parts : returned[p] = old.returned[p] + r.lines[p]
      BY DEF returned
  <2>6. refunded = old.refundedTotal + r.amount
      BY <2>1 DEF refunded
  <2>7. \A p \in Parts : r.lines[p] <= old.qty[p] - old.returned[p]
      BY <2>2, <2>3, <2>4 DEF WithinRemaining, AtLeastZero
  <2>8. \A p \in Parts : returned[p] <= old.qty[p]
      BY <2>4, <2>5, <2>7
  <2>9. r.amount <= old.total - old.refundedTotal
      BY <1>6, <2>2, <2>3, <2>4, <1>12 DEF AtLeastZero
  <2> QED
      BY <1>6, <1>12, <1>14, <2>2, <2>4, <2>6, <2>8, <2>9
<1> QED
    BY <1>7, <1>9, <1>13, <1>15, RowReplaced

LEMMA StepRefunds == StockInv /\ RefundInv /\ [SaleNext]_saleVars => RefundInv'
<1> SUFFICES ASSUME StockInv, RefundInv, [SaleNext]_saleVars PROVE RefundInv'
    OBVIOUS
<1>1. StockInv'
    BY StepStock
<1>2. CASE UNCHANGED saleVars
    BY <1>2 DEF saleVars, RefundInv, SaleTypeOK, MoneySound, WithinRemaining, RefundsWithinSale
<1>3. ASSUME NEW w \in Workers,
             \/ CheckSale(w) \/ RecheckSale(w) \/ CheckReturn(w) \/ RecheckReturn(w)
      PROVE  RefundInv'
    BY <1>1, <1>3, CheckKeepsRefunds
<1>4. ASSUME NEW w \in Workers,
             LockSequence(w) \/ ReadStock(w) \/ WritePart(w) \/ RollBack(w)
      PROVE  RefundInv'
    BY <1>1, <1>4, LockKeepsRefunds
<1>5. ASSUME NEW w \in Workers, CommitSale(w) PROVE RefundInv'
    BY <1>1, <1>5, SaleKeepsRefunds
<1>6. ASSUME NEW w \in Workers, CommitReturn(w) PROVE RefundInv'
    BY <1>1, <1>6, ReturnKeepsRefunds
<1> QED
    BY <1>2, <1>3, <1>4, <1>5, <1>6 DEF SaleNext

LEMMA RefundInvariant == SaleSpec => []RefundInv
    BY InitSound, InitRefunds, StepStock, StepRefunds, PTL DEF SaleSpec

(* Sales, the books and the requests about them keep their types: money    *)
(* stays in whole cents through discounts, tax and shares of a refund.     *)
THEOREM SalesTyped == SaleSpec => []SaleTypeOK
<1>1. RefundInv => SaleTypeOK
  BY DEF RefundInv
<1> QED BY <1>1, RefundInvariant, PTL

(* Unless returns of one sale overlapped, no more comes back of a sale     *)
(* than was sold, no more is paid back than was paid, and the sale row     *)
(* says what was paid back.                                                *)
THEOREM RefundsStayWithinSale == SaleSpec => []RefundsWithinSale
<1>1. RefundInv => RefundsWithinSale
  BY DEF RefundInv
<1> QED BY <1>1, RefundInvariant, PTL
-----------------------------------------------------------------------------
(* Parts and part lines.  A request that is still fresh knows the stock and *)
(* the line it will write; what it has decided holds of them as they are.   *)
Moves == PartKinds \cup OrderKinds

Formed(r) ==
    /\ r.kind \in PartKinds => r.line = None /\ r.part \in Parts
    /\ r.kind \in OrderKinds \cup LineKinds => r.line \in PartLines
    /\ r.kind \in {"adjust", "sale"} => r.allocated = 0
    /\ r.kind \in OrderKinds => r.after.allocated >= 0
    /\ r.kind = "pull" => r.onHand >= 0
    /\ r.kind \in OrderKinds \cup {"install"} => r.after.status # "ABSENT"
    /\ r.at = "read" => r.after.status # "ABSENT" \/ r.kind \in PartKinds
    /\ r.at = "read" /\ r.kind \in Moves => r.part \in Parts

NamesPart(r) ==
    r.kind \in OrderKinds \cup {"delete"} /\ Listed(r.line) => line[r.line].part = r.part

SeesStock(r) ==
    r.fresh = TRUE =>
       /\ r.at = "read" /\ r.kind \in Moves => r.read = stock[r.part]
       /\ r.kind = "count" => stock[r.part].allocated <= r.onHand
       /\ r.kind \in {"mutate"} \cup OrderKinds /\ r.part # None =>
            \/ r.allocated <= r.onHand
            \/ stock[r.part].allocated + r.allocated <= stock[r.part].onHand + r.onHand

SeesLine(r) ==
    r.fresh = TRUE /\ r.line # None =>
       /\ Listed(r.line)
       /\ r.kind \in OrderKinds => r.after.allocated = line[r.line].allocated + r.allocated
       /\ r.kind = "delete" => line[r.line].allocated = 0
       /\ r.kind = "install" => r.after.installed <= line[r.line].pulled
       /\ r.kind = "issue" => r.after.pulled >= line[r.line].pulled
       /\ r.kind = "pull" /\ r.at = "read" => r.after.pulled >= line[r.line].pulled

Fits(r) == r \in StockRequests /\ Formed(r) /\ NamesPart(r) /\ SeesStock(r) /\ SeesLine(r)

AllFit == \A w \in Workers : Fits(req[w])

SoundLines ==
    \A l \in PartLines : line[l].allocated >= 0 /\ (~Listed(l) => line[l] = NoPartLine)

(* ReservationsBalance, as a sum taken one line at a time.                  *)
HeldAs(row, p) == IF row.part = p THEN row.allocated ELSE 0

HeldFor(p) == SumOn([l \in PartLines |-> HeldAs(line[l], p)], PartLines)

Balanced ==
    \A p \in Parts \ stale :
        stock[p].allocated + claimed[p]
          = InitialAllocated[p] + ledger[p].direct + HeldFor(p)

PartInv ==
    /\ StockTypeOK /\ SoundLines /\ AllFit
    /\ LedgerAccountsForStock /\ Balanced

LEMMA BalancedIsBalance == Balanced => ReservationsBalance
<1> SUFFICES ASSUME NEW p PROVE AllocatedTo(p) = HeldFor(p)
    BY DEF Balanced, ReservationsBalance
<1> DEFINE held == [l \in PartLines |-> IF line[l].part = p THEN line[l].allocated ELSE 0]
<1>1. AllocatedTo(p) = SumOn(held, PartLines)
    BY FoldOver DEF AllocatedTo
<1>2. held = [l \in PartLines |-> HeldAs(line[l], p)]
    BY DEF HeldAs
<1> QED
    BY <1>1, <1>2 DEF HeldFor

LEMMA RestingFits == Resting.at = "idle" /\ Fits(Resting) /\ Fits(Resting)'
<1>1. Resting \in StockRequests /\ Resting.at = "idle" /\ Resting.kind = "none" /\ Resting.line = None
    BY DEF Resting, StockRequests, StockRows
<1> QED
    BY <1>1 DEF Fits, Formed, NamesPart, SeesStock, SeesLine, PartKinds, OrderKinds, LineKinds,
                Moves

(* A request that nothing has overtaken fits as before; one whose part or   *)
(* line was written is not fresh any more.                                  *)
LEMMA FitsStill ==
    ASSUME NEW r \in StockRequests, NEW n \in StockRequests, Fits(r),
           \/ n = r
           \/ /\ n.at = r.at /\ n.kind = r.kind /\ n.part = r.part /\ n.line = r.line
              /\ n.onHand = r.onHand /\ n.allocated = r.allocated /\ n.after = r.after
              /\ n.fresh = FALSE,
           n.fresh = TRUE /\ r.part \in Parts => stock'[r.part] = stock[r.part],
           r.line \in PartLines /\ Listed(r.line)'
             => Listed(r.line) /\ line'[r.line].part = line[r.line].part,
           n.fresh = TRUE /\ r.line \in PartLines /\ Listed(r.line)
             => /\ Listed(r.line)'
                /\ line'[r.line].allocated = line[r.line].allocated
                /\ line'[r.line].pulled = line[r.line].pulled
    PROVE  Fits(n)'
<1>1. /\ n.at = r.at /\ n.kind = r.kind /\ n.part = r.part /\ n.line = r.line
      /\ n.onHand = r.onHand /\ n.allocated = r.allocated /\ n.after = r.after
      /\ n.fresh = TRUE => n = r
    OBVIOUS
<1>2. r.part \in Parts \cup {None} /\ r.line \in PartLines \cup {None}
    BY DEF StockRequests
<1>3. Formed(n)
    BY <1>1 DEF Fits, Formed, Moves
<1>4. NamesPart(n)'
  <2>1. CASE n.kind \in OrderKinds \cup {"delete"}
    <3>1. r.line \in PartLines
        BY <1>1, <2>1 DEF Fits, Formed, LineKinds
    <3> QED
        BY <1>1, <2>1, <3>1 DEF Fits, NamesPart
  <2> QED
      BY <2>1 DEF NamesPart
<1>5. SeesStock(n)'
  <2>1. CASE n.fresh = TRUE
    <3>1. n = r
        BY <1>1, <2>1
    <3>2. /\ r.at = "read" /\ r.kind \in Moves => r.part \in Parts
          /\ r.kind = "count" => r.part \in Parts
        BY DEF Fits, Formed, PartKinds
    <3>3. /\ r.at = "read" /\ r.kind \in Moves => r.read = stock[r.part]
          /\ r.kind = "count" => stock[r.part].allocated <= r.onHand
          /\ r.kind \in {"mutate"} \cup OrderKinds /\ r.part # None =>
               \/ r.allocated <= r.onHand
               \/ stock[r.part].allocated + r.allocated <= stock[r.part].onHand + r.onHand
        BY <2>1, <3>1 DEF Fits, SeesStock
    <3>4. r.part \in Parts => stock'[r.part] = stock[r.part]
        BY <2>1
    <3>5. r.at = "read" /\ r.kind \in Moves => r.read = stock'[r.part]
        BY <3>2, <3>3, <3>4
    <3>6. r.kind = "count" => stock'[r.part].allocated <= r.onHand
        BY <3>2, <3>3, <3>4
    <3>7. r.kind \in {"mutate"} \cup OrderKinds /\ r.part # None =>
            \/ r.allocated <= r.onHand
            \/ stock'[r.part].allocated + r.allocated <= stock'[r.part].onHand + r.onHand
        BY <1>2, <3>3, <3>4
    <3> QED
        BY <3>1, <3>5, <3>6, <3>7 DEF SeesStock
  <2> QED
      BY <2>1 DEF SeesStock
<1>6. SeesLine(n)'
  <2>1. CASE n.fresh = TRUE /\ n.line # None
    <3>1. n = r /\ r.line \in PartLines /\ SeesLine(r)
        BY <1>1, <1>2, <2>1 DEF Fits
    <3>2. Listed(r.line) /\ Listed(r.line)'
        BY <2>1, <3>1 DEF SeesLine
    <3>3. /\ line'[r.line].allocated = line[r.line].allocated
          /\ line'[r.line].pulled = line[r.line].pulled
        BY <2>1, <3>1, <3>2
    <3> QED
        BY <2>1, <3>1, <3>2, <3>3 DEF SeesLine
  <2> QED
      BY <2>1 DEF SeesLine
<1> QED
    BY <1>3, <1>4, <1>5, <1>6 DEF Fits, Formed

LEMMA AllFitNext ==
    ASSUME \A v \in Workers : \E n : n = req'[v] /\ Fits(n)'
    PROVE  AllFit'
<1> SUFFICES ASSUME NEW v \in Workers PROVE Fits(req[v])'
    BY DEF AllFit
<1>1. PICK n : n = req'[v] /\ Fits(n)'
    OBVIOUS
<1> QED
    BY <1>1 DEF Fits, Formed, NamesPart, SeesStock, SeesLine, Listed

LEMMA FitsSame ==
    ASSUME NEW r, Fits(r), UNCHANGED <<stock, line>>
    PROVE  Fits(r)'
BY DEF Fits, Formed, NamesPart, SeesStock, SeesLine, Listed

(* What the lines of a part hold together follows the one line written.     *)
LEMMA HeldMoves ==
    ASSUME NEW p, NEW l \in PartLines,
           \A m \in PartLines : line[m].allocated \in Int /\ line'[m].allocated \in Int,
           \A m \in PartLines \ {l} : HeldAs(line'[m], p) = HeldAs(line[m], p)
    PROVE  /\ HeldFor(p) \in Int
           /\ HeldFor(p)' = HeldFor(p) + (HeldAs(line'[l], p) - HeldAs(line[l], p))
<1> DEFINE held == [m \in PartLines |-> HeldAs(line[m], p)]
           after == [m \in PartLines |-> HeldAs(line'[m], p)]
<1>1. HeldFor(p) = SumOn(held, PartLines)
    BY DEF HeldFor
<1>2. HeldFor(p)' = SumOn(after, PartLines)
    BY DEF HeldFor
<1>3. \A m \in PartLines : /\ held[m] = HeldAs(line[m], p) /\ after[m] = HeldAs(line'[m], p)
                            /\ held[m] \in Int /\ after[m] \in Int
    BY DEF HeldAs
<1> HIDE DEF held, after
<1>4. \A m \in PartLines : m # l => after[m] = held[m]
    BY <1>3
<1>5. SumOn(after, PartLines) = SumOn(held, PartLines) + (after[l] - held[l])
    BY <1>3, <1>4, PartStockAssumption, SumChanged
<1>6. SumOn(held, PartLines) \in Int
    BY <1>3, PartStockAssumption, SumIsInt
<1> QED
    BY <1>1, <1>2, <1>3, <1>5, <1>6

LEMMA HeldSame ==
    ASSUME NEW p,
           \A m \in PartLines : line[m].allocated \in Int /\ line'[m].allocated \in Int,
           \A m \in PartLines : HeldAs(line'[m], p) = HeldAs(line[m], p)
    PROVE  HeldFor(p) \in Int /\ HeldFor(p)' = HeldFor(p)
<1> DEFINE held == [m \in PartLines |-> HeldAs(line[m], p)]
           after == [m \in PartLines |-> HeldAs(line'[m], p)]
<1>1. HeldFor(p) = SumOn(held, PartLines)
    BY DEF HeldFor
<1>2. HeldFor(p)' = SumOn(after, PartLines)
    BY DEF HeldFor
<1>3. \A m \in PartLines : held[m] \in Int /\ after[m] = held[m]
    BY DEF HeldAs
<1> HIDE DEF held, after
<1> QED
    BY <1>1, <1>2, <1>3, PartStockAssumption, SumIsInt, SumOfSame

LEMMA HeldIsInt == ASSUME PartInv, NEW p PROVE HeldFor(p) \in Int
<1> DEFINE held == [m \in PartLines |-> HeldAs(line[m], p)]
<1>1. \A m \in PartLines : held[m] \in Int
    BY DEF PartInv, StockTypeOK, LineRows, HeldAs
<1> HIDE DEF held
<1>2. SumOn(held, PartLines) \in Int
    BY <1>1, PartStockAssumption, SumIsInt
<1> QED
    BY <1>2 DEF HeldFor, held

(* A step that only moves one request.                                      *)
LEMMA OnlyRequestMoves ==
    ASSUME PartInv, NEW w \in Workers, NEW r, Fits(r), Begin(w, r)
    PROVE  PartInv'
<1>1. req' = [req EXCEPT ![w] = r]
    BY DEF Begin
<1>2. UNCHANGED <<stock, ledger, line, claimed, stale>>
    BY DEF Begin, StockAndLedger, Notes
<1>3. r \in StockRequests /\ req \in [Workers -> StockRequests]
    BY DEF Fits, PartInv, StockTypeOK
<1>4. StockTypeOK'
  <2>1. req' \in [Workers -> StockRequests]
      BY <1>1, <1>3
  <2> QED
      BY <1>2, <2>1 DEF PartInv, StockTypeOK
<1>5. AllFit'
  <2>1. SUFFICES ASSUME NEW v \in Workers PROVE \E n : n = req'[v] /\ Fits(n)'
      BY AllFitNext
  <2>2. CASE v = w
      BY <1>1, <1>2, <1>3, <2>2, FitsSame
  <2>3. CASE v # w
    <3>1. req'[v] = req[v] /\ Fits(req[v])
        BY <1>1, <1>3, <2>3 DEF PartInv, AllFit
    <3>2. PICK n : n = req[v]
        OBVIOUS
    <3>3. Fits(n)'
        BY <1>2, <3>1, <3>2, FitsSame
    <3> QED
        BY <3>1, <3>2, <3>3
  <2> QED
      BY <2>2, <2>3
<1>6. SoundLines' /\ LedgerAccountsForStock'
    BY <1>2 DEF PartInv, SoundLines, LedgerAccountsForStock, Listed
<1>7. Balanced'
  <2>1. \A m \in PartLines : line[m].allocated \in Int /\ line'[m] = line[m]
      BY <1>2 DEF PartInv, StockTypeOK, LineRows
  <2>2. ASSUME NEW p PROVE HeldFor(p)' = HeldFor(p)
      BY <2>1, HeldSame
  <2> QED
      BY <1>2, <2>2 DEF PartInv, Balanced
<1> QED
    BY <1>4, <1>5, <1>6, <1>7 DEF PartInv

LEMMA InitPart == StockInit => PartInv
<1> SUFFICES ASSUME StockInit PROVE PartInv
    OBVIOUS
<1>1. NoPartLine \in LineRows /\ Resting \in StockRequests
    BY RestingFits DEF NoPartLine, LineRows, Fits
<1>2. StockTypeOK
    BY <1>1, StockroomAssumption, PartStockAssumption DEF StockInit, StockTypeOK, StockRows
<1>3. SoundLines
    BY DEF StockInit, SoundLines, NoPartLine
<1>4. LedgerAccountsForStock
    BY StockroomAssumption, PartStockAssumption DEF StockInit, LedgerAccountsForStock
<1>5. ASSUME NEW p \in Parts PROVE HeldFor(p) = 0
  <2> DEFINE held == [l \in PartLines |-> HeldAs(line[l], p)]
  <2>1. \A l \in PartLines : held[l] = 0
      BY DEF StockInit, NoPartLine, HeldAs
  <2> HIDE DEF held
  <2>2. SumOn(held, PartLines) = 0
      BY <2>1, PartStockAssumption, SumOfZeros
  <2> QED
      BY <2>2 DEF HeldFor, held
<1>6. Balanced
    BY <1>5, PartStockAssumption DEF StockInit, Balanced
<1>7. AllFit
  <2>1. \A w \in Workers : req[w] = Resting
      BY DEF StockInit
  <2> QED
      BY <2>1, RestingFits DEF AllFit
<1> QED
    BY <1>2, <1>3, <1>4, <1>6, <1>7 DEF PartInv

LEMMA OutOfDate ==
    ASSUME NEW r \in StockRequests
    PROVE  \E n \in StockRequests :
              /\ n = [r EXCEPT !.fresh = FALSE]
              /\ n.at = r.at /\ n.kind = r.kind /\ n.part = r.part /\ n.line = r.line
              /\ n.onHand = r.onHand /\ n.allocated = r.allocated /\ n.after = r.after
              /\ n.fresh = FALSE
<1> DEFINE n == [r EXCEPT !.fresh = FALSE]
<1>1. n \in StockRequests
    BY DEF StockRequests
<1>2. /\ n.at = r.at /\ n.kind = r.kind /\ n.part = r.part /\ n.line = r.line
      /\ n.onHand = r.onHand /\ n.allocated = r.allocated /\ n.after = r.after
      /\ n.fresh = FALSE
    BY DEF StockRequests
<1> HIDE DEF n
<1>3. n = [r EXCEPT !.fresh = FALSE]
    BY DEF n
<1> QED
    BY <1>1, <1>2, <1>3

(* The requests after a write of the stock of part p and of line l.         *)
LEMMA CompleteKeeps ==
    ASSUME PartInv, NEW w \in Workers, NEW p, NEW l, Complete(w, p, l),
           \A q \in Parts : q # p => stock'[q] = stock[q],
           \A m \in PartLines : Listed(m)' => Listed(m) /\ line'[m].part = line[m].part,
           \A m \in PartLines : m # l /\ Listed(m) =>
              /\ Listed(m)'
              /\ line'[m].allocated = line[m].allocated /\ line'[m].pulled = line[m].pulled
    PROVE  AllFit' /\ req' \in [Workers -> StockRequests]
<1>1. ASSUME NEW v \in Workers
      PROVE  \E n \in StockRequests : n = req'[v] /\ Fits(n)'
  <2>1. PICK r \in StockRequests : r = req[v] /\ Fits(r)
      BY DEF PartInv, StockTypeOK, AllFit
  <2>2. r.part \in Parts \cup {None} /\ r.line \in PartLines \cup {None}
      BY DEF StockRequests
  <2>3. CASE v = w
    <3>1. req'[v] = Resting
        BY <2>3 DEF Complete
    <3>2. Resting \in StockRequests /\ Fits(Resting)'
        BY RestingFits DEF Fits
    <3> QED
        BY <3>1, <3>2
  <2>4. CASE v # w /\ ((p # None /\ r.part = p) \/ (l # None /\ r.line = l))
    <3>1. PICK n \in StockRequests :
              /\ n = [r EXCEPT !.fresh = FALSE]
              /\ n.at = r.at /\ n.kind = r.kind /\ n.part = r.part /\ n.line = r.line
              /\ n.onHand = r.onHand /\ n.allocated = r.allocated /\ n.after = r.after
              /\ n.fresh = FALSE
        BY OutOfDate
    <3>2. req'[v] = n
        BY <2>1, <2>4, <3>1 DEF Complete
    <3>3. Fits(n)'
        BY <2>1, <3>1, FitsStill
    <3> QED
        BY <3>2, <3>3
  <2>5. CASE v # w /\ ~((p # None /\ r.part = p) \/ (l # None /\ r.line = l))
    <3>1. req'[v] = r
        BY <2>1, <2>5 DEF Complete
    <3>2. /\ r.part \in Parts => r.part # p
          /\ r.line \in PartLines => r.line # l
        BY <2>2, <2>5, StockroomAssumption, PartStockAssumption
    <3>3. Fits(r)'
        BY <2>1, <3>2, FitsStill
    <3> QED
        BY <3>1, <3>3
  <2> QED
      BY <2>3, <2>4, <2>5
<1>2. AllFit'
    BY <1>1, AllFitNext
<1>3. req' \in [Workers -> StockRequests]
    BY <1>1 DEF Complete
<1> QED
    BY <1>2, <1>3

(* The requests when no request is about what a step writes.                *)
LEMMA RequestsKeep ==
    ASSUME PartInv, UNCHANGED <<req, stock>>, NEW l \in PartLines,
           \A m \in PartLines \ {l} : line'[m] = line[m],
           (\A w \in Workers : req[w].line # l)
             \/ (Listed(l) /\ Listed(l)' /\ line'[l].part = line[l].part
                  /\ line'[l].allocated = line[l].allocated
                  /\ line'[l].pulled = line[l].pulled)
    PROVE  AllFit'
<1> SUFFICES ASSUME NEW v \in Workers PROVE \E n : n = req'[v] /\ Fits(n)'
    BY AllFitNext
<1>1. PICK r \in StockRequests : r = req[v] /\ Fits(r)
    BY DEF PartInv, StockTypeOK, AllFit
<1>2. \A m \in PartLines \ {l} : Listed(m)' = Listed(m)
    BY DEF Listed
<1>3. Fits(r)'
  <2>1. CASE r.line # l
      BY <1>1, <1>2, <2>1, FitsStill
  <2>2. CASE r.line = l
    <3>1. /\ Listed(l) /\ Listed(l)' /\ line'[l].part = line[l].part
          /\ line'[l].allocated = line[l].allocated /\ line'[l].pulled = line[l].pulled
        BY <1>1, <2>2
    <3> QED
        BY <1>1, <2>2, <3>1, FitsStill
  <2> QED
      BY <2>1, <2>2
<1> QED
    BY <1>1, <1>3

-----------------------------------------------------------------------------
(* The inventory endpoints of a part ask for what fits.                     *)
LEMMA AskFits ==
    ASSUME PartInv, NEW w \in Workers, NEW kind \in PartKinds, NEW p \in Parts,
           NEW moved \in Int, NEW reserved \in Int, Ask(w, kind, p, moved, reserved),
           kind \in {"adjust", "sale"} => reserved = 0,
           kind = "count" => stock[p].allocated <= moved,
           kind = "mutate" => \/ reserved <= moved
                              \/ stock[p].allocated + reserved <= stock[p].onHand + moved
    PROVE  PartInv'
<1> DEFINE asked == [Resting EXCEPT !.at = "checked", !.kind = kind, !.part = p,
                        !.onHand = moved, !.allocated = reserved]
<1>1. PICK r \in StockRequests :
         /\ r = asked /\ r.at = "checked" /\ r.kind = kind /\ r.part = p /\ r.line = None
         /\ r.onHand = moved /\ r.allocated = reserved
  <2>1. asked \in StockRequests
    <3>1. Resting \in StockRequests
        BY RestingFits DEF Fits
    <3> QED
        BY <3>1 DEF StockRequests
  <2>2. /\ asked.at = "checked" /\ asked.kind = kind /\ asked.part = p /\ asked.line = None
        /\ asked.onHand = moved /\ asked.allocated = reserved
      BY DEF Resting
  <2> HIDE DEF asked
  <2> QED
      BY <2>1, <2>2
<1>2. Formed(r) /\ NamesPart(r) /\ SeesStock(r) /\ SeesLine(r)
    BY <1>1, StockroomAssumption
       DEF Formed, NamesPart, SeesStock, SeesLine, PartKinds, OrderKinds, LineKinds
<1>3. Begin(w, r)
    BY <1>1 DEF Ask
<1> QED
    BY <1>1, <1>2, <1>3, OnlyRequestMoves DEF Fits

LEMMA PartAsks ==
    ASSUME PartInv, NEW w \in Workers,
           \/ AdjustInventory(w) \/ ReceiveInventory(w) \/ AllocateInventory(w)
           \/ DeallocateInventory(w) \/ IssueInventory(w) \/ ReturnInventory(w)
           \/ DamageInventory(w) \/ CycleCountInventory(w) \/ SellPart(w)
    PROVE  PartInv'
<1>1. /\ "adjust" \in PartKinds /\ "mutate" \in PartKinds
      /\ "count" \in PartKinds /\ "sale" \in PartKinds
    BY DEF PartKinds
<1>2. \A q \in Amounts \cup 0..MaxOnHand \cup (-MaxAmount)..MaxAmount : q \in Int
    BY PartStockAssumption DEF Amounts
<1>3. \A q \in Amounts : q > 0
    BY PartStockAssumption DEF Amounts
<1>4. \A p \in Parts : stock[p].onHand \in Int /\ stock[p].allocated \in Int
    BY DEF PartInv, StockTypeOK, StockRows
<1>6. CASE AdjustInventory(w)
  <2>1. PICK p \in Parts, q \in (-MaxAmount)..MaxAmount : Ask(w, "adjust", p, q, 0)
      BY <1>6 DEF AdjustInventory
  <2> QED
      BY <1>1, <1>2, <2>1, AskFits
<1>7. CASE ReceiveInventory(w) \/ ReturnInventory(w)
  <2>1. PICK p \in Parts, q \in Amounts : Ask(w, "mutate", p, q, 0)
      BY <1>7 DEF ReceiveInventory, ReturnInventory
  <2>2. 0 <= q
      BY <1>2, <1>3
  <2> QED
      BY <1>1, <1>2, <2>1, <2>2, AskFits
<1>8. CASE AllocateInventory(w)
  <2>1. PICK p \in Parts, q \in Amounts :
            q <= Available(stock[p]) /\ Ask(w, "mutate", p, 0, q)
      BY <1>8 DEF AllocateInventory
  <2>2. stock[p].allocated + q <= stock[p].onHand + 0
      BY <1>2, <1>4, <2>1 DEF Available
  <2> QED
      BY <1>1, <1>2, <2>1, <2>2, AskFits
<1>9. CASE DeallocateInventory(w)
  <2>1. PICK p \in Parts, q \in Amounts : Ask(w, "mutate", p, 0, -q)
      BY <1>9 DEF DeallocateInventory
  <2>2. -q <= 0
      BY <1>2, <1>3
  <2>3. -q \in Int
      BY <1>2
  <2> QED
      BY <1>1, <2>1, <2>2, <2>3, AskFits
<1>10. CASE IssueInventory(w)
  <2>1. PICK p \in Parts, q \in Amounts : Ask(w, "mutate", p, -q, -q)
      BY <1>10 DEF IssueInventory
  <2>2. -q <= -q
      BY <1>2
  <2>3. -q \in Int
      BY <1>2
  <2> QED
      BY <1>1, <2>1, <2>2, <2>3, AskFits
<1>11. CASE DamageInventory(w)
  <2>1. PICK p \in Parts, q \in Amounts :
            q <= Available(stock[p]) /\ Ask(w, "mutate", p, -q, 0)
      BY <1>11 DEF DamageInventory
  <2>2. stock[p].allocated + 0 <= stock[p].onHand + (-q)
      BY <1>2, <1>4, <2>1 DEF Available
  <2>3. -q \in Int
      BY <1>2
  <2> QED
      BY <1>1, <2>1, <2>2, <2>3, AskFits
<1>12. CASE CycleCountInventory(w)
  <2>1. PICK p \in Parts, q \in 0..MaxOnHand :
            q >= stock[p].allocated /\ Ask(w, "count", p, q, 0)
      BY <1>12 DEF CycleCountInventory
  <2>2. stock[p].allocated <= q
      BY <1>2, <1>4, <2>1
  <2> QED
      BY <1>1, <1>2, <2>1, <2>2, AskFits
<1>13. CASE SellPart(w)
  <2>1. PICK p \in Parts, q \in Amounts : Ask(w, "sale", p, -q, 0)
      BY <1>13 DEF SellPart
  <2>2. -q \in Int
      BY <1>2
  <2> QED
      BY <1>1, <2>1, <2>2, AskFits
<1> QED
    BY <1>6, <1>7, <1>8, <1>9, <1>10, <1>11, <1>12, <1>13

LEMMA ReadPartKeeps ==
    ASSUME PartInv, NEW w \in Workers, ReadPart(w)
    PROVE  PartInv'
<1>1. PICK r \in StockRequests : r = req[w] /\ Fits(r)
    BY DEF PartInv, StockTypeOK, AllFit
<1>2. /\ r.at = "checked" /\ r.part \in Parts /\ r.kind \in PartKinds \cup OrderKinds
      /\ Begin(w, [r EXCEPT !.at = "read", !.read = stock[r.part]])
    BY <1>1 DEF ReadPart, StockRequests
<1>3. stock[r.part] \in StockRows
    BY <1>2 DEF PartInv, StockTypeOK
<1>4. PICK n \in StockRequests :
         /\ n = [r EXCEPT !.at = "read", !.read = stock[r.part]]
         /\ n.at = "read" /\ n.read = stock[r.part] /\ n.fresh = r.fresh
         /\ n.kind = r.kind /\ n.part = r.part /\ n.line = r.line
         /\ n.onHand = r.onHand /\ n.allocated = r.allocated /\ n.after = r.after
  <2> DEFINE read == [r EXCEPT !.at = "read", !.read = stock[r.part]]
  <2>1. read \in StockRequests
      BY <1>3 DEF StockRequests
  <2>2. /\ read.at = "read" /\ read.read = stock[r.part] /\ read.fresh = r.fresh
        /\ read.kind = r.kind /\ read.part = r.part /\ read.line = r.line
        /\ read.onHand = r.onHand /\ read.allocated = r.allocated /\ read.after = r.after
      BY DEF StockRequests
  <2> HIDE DEF read
  <2>3. read = [r EXCEPT !.at = "read", !.read = stock[r.part]]
      BY DEF read
  <2> QED
      BY <2>1, <2>2, <2>3
<1>5. Formed(n)
    BY <1>1, <1>2, <1>4 DEF Fits, Formed
<1>6. NamesPart(n)
    BY <1>1, <1>4 DEF Fits, NamesPart
<1>7. SeesStock(n)
    BY <1>1, <1>4 DEF Fits, SeesStock
<1>8. SeesLine(n)
    BY <1>1, <1>2, <1>4 DEF Fits, SeesLine, PartKinds, OrderKinds
<1> QED
    BY <1>2, <1>4, <1>5, <1>6, <1>7, <1>8, OnlyRequestMoves DEF Fits

-----------------------------------------------------------------------------
(* Part lines ask for what fits.                                            *)
LEMMA AskedFits ==
    ASSUME PartInv, NEW w \in Workers, NEW l \in PartLines, Listed(l),
           NEW r \in StockRequests, Begin(w, r), r.at = "checked", r.line = l,
           r.kind \in OrderKinds \cup LineKinds,
           r.kind \in OrderKinds \cup {"delete"} => r.part = line[l].part,
           r.kind \in OrderKinds => /\ r.after.allocated = line[l].allocated + r.allocated
                                    /\ r.after.allocated >= 0,
           r.kind \in OrderKinds \cup {"install"} => r.after.status # "ABSENT",
           r.kind \in OrderKinds /\ r.part # None =>
             \/ r.allocated <= r.onHand
             \/ stock[r.part].allocated + r.allocated <= stock[r.part].onHand + r.onHand,
           r.kind = "delete" => line[l].allocated = 0,
           r.kind = "install" => r.after.installed <= line[l].pulled,
           r.kind = "issue" => r.after.pulled >= line[l].pulled,
           r.kind = "pull" => r.onHand >= 0
    PROVE  PartInv'
<1>1. /\ r.kind \notin PartKinds /\ r.kind \notin {"adjust", "sale"}
      /\ r.kind # "count" /\ r.kind # "mutate"
    BY DEF PartKinds, OrderKinds, LineKinds
<1>2. Formed(r)
    BY <1>1 DEF Formed
<1>3. NamesPart(r)
    BY DEF NamesPart
<1>4. SeesStock(r)
    BY <1>1 DEF SeesStock
<1>5. SeesLine(r)
    BY DEF SeesLine
<1> QED
    BY <1>2, <1>3, <1>4, <1>5, OnlyRequestMoves DEF Fits

LEMMA KindsOfLines ==
    /\ {"allocate", "deallocate", "issue", "pull", "install", "stage", "toBeOrdered",
        "delete", "cancel"} \subseteq OrderKinds \cup LineKinds
    /\ {"pull", "install", "stage", "toBeOrdered", "delete", "cancel"} \cap OrderKinds = {}
BY DEF OrderKinds, LineKinds

LEMMA TypedResting == Resting \in StockRequests
BY RestingFits DEF Fits

LEMMA LineFacts ==
    ASSUME PartInv, NEW l \in PartLines
    PROVE  /\ line[l].allocated \in Int /\ line[l].allocated >= 0 /\ line[l].pulled \in Int
           /\ line[l].installed \in Int /\ line[l].part \in Parts \cup {None}
           /\ line[l].required \in Int /\ line[l].received \in Int
           /\ line[l].status \in AllLineStatuses \cup {"ABSENT"}
BY DEF PartInv, StockTypeOK, LineRows, SoundLines

LEMMA PartFacts ==
    ASSUME PartInv, NEW p \in Parts
    PROVE  stock[p].onHand \in Int /\ stock[p].allocated \in Int
BY DEF PartInv, StockTypeOK, StockRows

LEMMA AllocateAsks ==
    ASSUME PartInv, NEW w \in Workers, AllocateLine(w)
    PROVE  PartInv'
<1>1. PICK l \in PartLines, q \in Amounts :
         /\ IF line[l].part # None THEN q <= Available(stock[line[l].part])
                                   ELSE q <= line[l].received - line[l].allocated
         /\ AskLine(w, l, [Resting EXCEPT !.kind = "allocate", !.part = line[l].part,
                             !.allocated = q,
                             !.after.allocated = line[l].allocated + q,
                             !.after.status = "ALLOCATED"])
    BY DEF AllocateLine
<1>2. q \in Int /\ q > 0
    BY PartStockAssumption DEF Amounts
<1>3. line[l].part # None => stock[line[l].part].allocated + q <= stock[line[l].part].onHand + 0
    BY <1>1, <1>2, LineFacts, PartFacts DEF Available
<1>4. PICK part \in Parts \cup {None}, allocated \in Int :
         part = line[l].part /\ allocated = line[l].allocated + q
  <2>1. line[l].part \in Parts \cup {None} /\ line[l].allocated \in Int
      BY LineFacts
  <2>2. line[l].allocated + q \in Int
      BY <1>2, <2>1
  <2> QED
      BY <2>1, <2>2
<1>5. PICK r \in StockRequests :
         /\ Begin(w, r) /\ r.at = "checked" /\ r.line = l
         /\ r.kind = "allocate" /\ r.part = part /\ r.onHand = 0 /\ r.allocated = q
         /\ r.after.allocated = allocated /\ r.after.status # "ABSENT"
  <2> DEFINE asked == [[Resting EXCEPT !.kind = "allocate", !.part = part, !.allocated = q,
                          !.after.allocated = allocated, !.after.status = "ALLOCATED"]
                       EXCEPT !.at = "checked", !.line = l]
  <2>1. asked \in StockRequests
      BY <1>2, TypedResting DEF StockRequests, AllLineStatuses, OrderKinds
  <2>2. /\ asked.at = "checked" /\ asked.line = l
        /\ asked.kind = "allocate" /\ asked.part = part /\ asked.onHand = 0
        /\ asked.allocated = q
        /\ asked.after.allocated = allocated /\ asked.after.status # "ABSENT"
      BY DEF Resting
  <2>3. Begin(w, asked)
      BY <1>1, <1>4 DEF AskLine
  <2> HIDE DEF asked
  <2> QED
      BY <2>1, <2>2, <2>3
<1>6. Listed(l)
    BY <1>1 DEF AskLine
<1> QED
    BY <1>2, <1>3, <1>4, <1>5, <1>6, LineFacts, AskedFits, KindsOfLines

LEMMA DeallocateAsks ==
    ASSUME PartInv, NEW w \in Workers, DeallocateLine(w)
    PROVE  PartInv'
<1>1. PICK l \in PartLines, q \in Amounts :
         /\ line[l].part # None /\ q <= line[l].allocated
         /\ AskLine(w, l, [Resting EXCEPT !.kind = "deallocate", !.part = line[l].part,
                             !.allocated = -q,
                             !.after.allocated = line[l].allocated - q,
                             !.after.status = ReleasedStatus(line[l].allocated - q)])
    BY DEF DeallocateLine
<1>2. q \in Int /\ q > 0
    BY PartStockAssumption DEF Amounts
<1>3. PICK part \in Parts, allocated \in Int, back \in Int, status \in {"ALLOCATED", "AVAILABLE"} :
         /\ part = line[l].part /\ allocated = line[l].allocated - q /\ back = -q
         /\ status = ReleasedStatus(line[l].allocated - q)
  <2>1. /\ line[l].part \in Parts /\ line[l].allocated - q \in Int /\ -q \in Int
        /\ ReleasedStatus(line[l].allocated - q) \in {"ALLOCATED", "AVAILABLE"}
      BY <1>1, <1>2, LineFacts DEF ReleasedStatus
  <2> QED
      BY <2>1
<1>4. allocated = line[l].allocated + back /\ allocated >= 0 /\ back <= 0
    BY <1>1, <1>2, <1>3, LineFacts
<1>5. PICK r \in StockRequests :
         /\ Begin(w, r) /\ r.at = "checked" /\ r.line = l
         /\ r.kind = "deallocate" /\ r.part = part /\ r.onHand = 0 /\ r.allocated = back
         /\ r.after.allocated = allocated /\ r.after.status # "ABSENT"
  <2> DEFINE asked == [[Resting EXCEPT !.kind = "deallocate", !.part = part,
                          !.allocated = back, !.after.allocated = allocated,
                          !.after.status = status]
                       EXCEPT !.at = "checked", !.line = l]
  <2>1. asked \in StockRequests
      BY TypedResting DEF StockRequests, AllLineStatuses, OrderKinds
  <2>2. /\ asked.at = "checked" /\ asked.line = l
        /\ asked.kind = "deallocate" /\ asked.part = part /\ asked.onHand = 0
        /\ asked.allocated = back
        /\ asked.after.allocated = allocated /\ asked.after.status # "ABSENT"
      BY DEF Resting
  <2>3. Begin(w, asked)
      BY <1>1, <1>3 DEF AskLine
  <2> HIDE DEF asked
  <2> QED
      BY <2>1, <2>2, <2>3
<1>6. Listed(l)
    BY <1>1 DEF AskLine
<1> QED
    BY <1>3, <1>4, <1>5, <1>6, AskedFits, KindsOfLines

LEMMA IssueAsks ==
    ASSUME PartInv, NEW w \in Workers, IssueLine(w)
    PROVE  PartInv'
<1>1. PICK l \in PartLines, q \in Amounts :
         /\ line[l].part # None /\ q <= line[l].allocated
         /\ AskLine(w, l, [Resting EXCEPT !.kind = "issue", !.part = line[l].part,
                             !.onHand = -q, !.allocated = ReservationOfIssued(q),
                             !.after.allocated = line[l].allocated - q,
                             !.after.pulled = line[l].pulled + q,
                             !.after.status = "ISSUED"])
    BY DEF IssueLine
<1>2. q \in Int /\ q > 0
    BY PartStockAssumption DEF Amounts
<1>3. PICK part \in Parts, allocated \in Int, back \in Int, pulled \in Int :
         /\ part = line[l].part /\ allocated = line[l].allocated - q
         /\ back = -q /\ back = ReservationOfIssued(q) /\ pulled = line[l].pulled + q
  <2>1. /\ line[l].part \in Parts /\ line[l].allocated - q \in Int /\ -q \in Int
        /\ line[l].pulled + q \in Int /\ ReservationOfIssued(q) = -q
      BY <1>1, <1>2, LineFacts DEF ReservationOfIssued
  <2> QED
      BY <2>1
<1>4. /\ allocated = line[l].allocated + back /\ allocated >= 0
      /\ pulled >= line[l].pulled /\ back <= back
    BY <1>1, <1>2, <1>3, LineFacts
<1>5. PICK r \in StockRequests :
         /\ Begin(w, r) /\ r.at = "checked" /\ r.line = l
         /\ r.kind = "issue" /\ r.part = part /\ r.onHand = back /\ r.allocated = back
         /\ r.after.allocated = allocated /\ r.after.status # "ABSENT"
         /\ r.after.pulled = pulled
  <2> DEFINE asked == [[Resting EXCEPT !.kind = "issue", !.part = part,
                          !.onHand = back, !.allocated = back,
                          !.after.allocated = allocated, !.after.pulled = pulled,
                          !.after.status = "ISSUED"]
                       EXCEPT !.at = "checked", !.line = l]
  <2>1. asked \in StockRequests
      BY TypedResting DEF StockRequests, AllLineStatuses, OrderKinds
  <2>2. /\ asked.at = "checked" /\ asked.line = l
        /\ asked.kind = "issue" /\ asked.part = part /\ asked.onHand = back
        /\ asked.allocated = back
      BY DEF Resting
  <2>3. /\ asked.after.allocated = allocated /\ asked.after.status # "ABSENT"
        /\ asked.after.pulled = pulled
      BY TypedResting DEF StockRequests
  <2>4. Begin(w, asked)
      BY <1>1, <1>3 DEF AskLine
  <2> HIDE DEF asked
  <2> QED
      BY <2>1, <2>2, <2>3, <2>4
<1>6. Listed(l)
    BY <1>1 DEF AskLine
<1> QED
    BY <1>3, <1>4, <1>5, <1>6, AskedFits, KindsOfLines

LEMMA PullAsks ==
    ASSUME PartInv, NEW w \in Workers, PullLine(w)
    PROVE  PartInv'
<1>1. PICK l \in PartLines, q \in Amounts :
         AskLine(w, l, [Resting EXCEPT !.kind = "pull", !.part = line[l].part, !.onHand = q])
    BY DEF PullLine
<1>2. q \in Int /\ q > 0
    BY PartStockAssumption DEF Amounts
<1>3. PICK part \in Parts \cup {None} : part = line[l].part
    BY LineFacts
<1>4. PICK r \in StockRequests :
         /\ Begin(w, r) /\ r.at = "checked" /\ r.line = l /\ r.kind = "pull" /\ r.onHand = q
  <2> DEFINE asked == [[Resting EXCEPT !.kind = "pull", !.part = part, !.onHand = q]
                       EXCEPT !.at = "checked", !.line = l]
  <2>1. asked \in StockRequests
      BY <1>2, TypedResting DEF StockRequests, LineKinds
  <2>2. asked.at = "checked" /\ asked.line = l /\ asked.kind = "pull" /\ asked.onHand = q
      BY DEF Resting
  <2>3. Begin(w, asked)
      BY <1>1, <1>3 DEF AskLine
  <2> HIDE DEF asked
  <2> QED
      BY <2>1, <2>2, <2>3
<1>5. Listed(l)
    BY <1>1 DEF AskLine
<1> QED
    BY <1>2, <1>4, <1>5, AskedFits, KindsOfLines

LEMMA InstallAsks ==
    ASSUME PartInv, NEW w \in Workers, InstallLine(w)
    PROVE  PartInv'
<1>1. PICK l \in PartLines, q \in Amounts :
         /\ q <= Installable(line[l])
         /\ AskLine(w, l, [Resting EXCEPT !.kind = "install", !.part = line[l].part,
                             !.after.installed = line[l].installed + q,
                             !.after.status = IF line[l].installed + q >= line[l].required
                                                THEN "INSTALLED" ELSE "ISSUED"])
    BY DEF InstallLine
<1>2. q \in Int /\ q > 0
    BY PartStockAssumption DEF Amounts
<1>3. PICK part \in Parts \cup {None}, installed \in Int, status \in {"INSTALLED", "ISSUED"} :
         /\ part = line[l].part /\ installed = line[l].installed + q
         /\ status = IF line[l].installed + q >= line[l].required THEN "INSTALLED" ELSE "ISSUED"
    BY <1>2, LineFacts
<1>4. installed <= line[l].pulled
    BY <1>1, <1>2, <1>3, LineFacts DEF Installable
<1>5. PICK r \in StockRequests :
         /\ Begin(w, r) /\ r.at = "checked" /\ r.line = l /\ r.kind = "install"
         /\ r.after.installed = installed /\ r.after.status # "ABSENT"
  <2> DEFINE asked == [[Resting EXCEPT !.kind = "install", !.part = part,
                          !.after.installed = installed, !.after.status = status]
                       EXCEPT !.at = "checked", !.line = l]
  <2>1. asked \in StockRequests
      BY TypedResting DEF StockRequests, AllLineStatuses, LineKinds
  <2>2. /\ asked.at = "checked" /\ asked.line = l /\ asked.kind = "install"
        /\ asked.after.installed = installed /\ asked.after.status # "ABSENT"
      BY DEF Resting
  <2>3. Begin(w, asked)
      BY <1>1, <1>3 DEF AskLine
  <2> HIDE DEF asked
  <2> QED
      BY <2>1, <2>2, <2>3
<1>6. Listed(l)
    BY <1>1 DEF AskLine
<1> QED
    BY <1>4, <1>5, <1>6, AskedFits, KindsOfLines

LEMMA DeleteAsks ==
    ASSUME PartInv, NEW w \in Workers, DeleteLine(w)
    PROVE  PartInv'
<1>1. PICK l \in PartLines :
         /\ NothingHeld(line[l])
         /\ AskLine(w, l, [Resting EXCEPT !.kind = "delete", !.part = line[l].part])
    BY DEF DeleteLine
<1>2. line[l].allocated = 0
    BY <1>1, LineFacts DEF NothingHeld
<1>3. PICK part \in Parts \cup {None} : part = line[l].part
    BY LineFacts
<1>4. PICK r \in StockRequests :
         /\ Begin(w, r) /\ r.at = "checked" /\ r.line = l /\ r.kind = "delete" /\ r.part = part
  <2> DEFINE asked == [[Resting EXCEPT !.kind = "delete", !.part = part]
                       EXCEPT !.at = "checked", !.line = l]
  <2>1. asked \in StockRequests
      BY TypedResting DEF StockRequests, LineKinds
  <2>2. asked.at = "checked" /\ asked.line = l /\ asked.kind = "delete" /\ asked.part = part
      BY DEF Resting
  <2>3. Begin(w, asked)
      BY <1>1, <1>3 DEF AskLine
  <2> HIDE DEF asked
  <2> QED
      BY <2>1, <2>2, <2>3
<1>5. Listed(l)
    BY <1>1 DEF AskLine
<1> QED
    BY <1>2, <1>3, <1>4, <1>5, AskedFits, KindsOfLines

LEMMA StatusAsks ==
    ASSUME PartInv, NEW w \in Workers, StageLine(w) \/ MarkToBeOrdered(w) \/ CancelLine(w)
    PROVE  PartInv'
<1>1. PICK l \in PartLines, kind \in {"stage", "toBeOrdered", "cancel"} :
         AskLine(w, l, [Resting EXCEPT !.kind = kind])
    BY DEF StageLine, MarkToBeOrdered, CancelLine
<1>2. PICK r \in StockRequests :
         /\ Begin(w, r) /\ r.at = "checked" /\ r.line = l /\ r.kind = kind
  <2> DEFINE asked == [[Resting EXCEPT !.kind = kind] EXCEPT !.at = "checked", !.line = l]
  <2>1. asked \in StockRequests
      BY TypedResting DEF StockRequests, LineKinds
  <2>2. asked.at = "checked" /\ asked.line = l /\ asked.kind = kind
      BY DEF Resting
  <2>3. Begin(w, asked)
      BY <1>1 DEF AskLine
  <2> HIDE DEF asked
  <2> QED
      BY <2>1, <2>2, <2>3
<1>3. Listed(l)
    BY <1>1 DEF AskLine
<1> QED
    BY <1>2, <1>3, AskedFits, KindsOfLines

LEMMA ReadLineKeeps ==
    ASSUME PartInv, NEW w \in Workers, ReadLine(w)
    PROVE  PartInv'
<1>1. PICK r \in StockRequests : r = req[w] /\ Fits(r)
    BY DEF PartInv, StockTypeOK, AllFit
<1>2. /\ r.at = "checked" /\ r.kind = "pull" /\ Listed(r.line)
      /\ Begin(w, [r EXCEPT !.at = "read", !.after.pulled = line[r.line].pulled + r.onHand,
                     !.after.status = IF line[r.line].pulled + r.onHand >= line[r.line].allocated
                                        THEN "PULLED" ELSE line[r.line].status])
    BY <1>1 DEF ReadLine
<1>3. r.line \in PartLines /\ r.onHand \in Int /\ r.onHand >= 0
    BY <1>1, <1>2 DEF Fits, Formed, LineKinds, StockRequests
<1>4. PICK pulled \in Int, status \in AllLineStatuses :
         /\ pulled = line[r.line].pulled + r.onHand
         /\ status = IF line[r.line].pulled + r.onHand >= line[r.line].allocated
                       THEN "PULLED" ELSE line[r.line].status
    BY <1>2, <1>3, LineFacts DEF Listed, AllLineStatuses
<1>5. PICK n \in StockRequests :
         /\ Begin(w, n) /\ n.at = "read" /\ n.kind = "pull" /\ n.line = r.line
         /\ n.onHand = r.onHand /\ n.fresh = r.fresh
         /\ n.after.pulled = pulled /\ n.after.status = status
  <2> DEFINE read == [r EXCEPT !.at = "read", !.after.pulled = pulled, !.after.status = status]
  <2>1. read \in StockRequests
      BY DEF StockRequests
  <2>2. /\ read.at = "read" /\ read.kind = "pull" /\ read.line = r.line
        /\ read.onHand = r.onHand /\ read.fresh = r.fresh
        /\ read.after.pulled = pulled /\ read.after.status = status
      BY <1>2 DEF StockRequests
  <2>3. Begin(w, read)
      BY <1>2, <1>4
  <2> HIDE DEF read
  <2> QED
      BY <2>1, <2>2, <2>3
<1>6. /\ "pull" \notin PartKinds \cup OrderKinds \cup {"delete", "install", "issue", "count",
                                                     "mutate"}
      /\ "ABSENT" \notin AllLineStatuses
    BY DEF PartKinds, OrderKinds, AllLineStatuses
<1>7. Formed(n) /\ NamesPart(n) /\ SeesStock(n)
    BY <1>3, <1>5, <1>6 DEF Formed, NamesPart, SeesStock, Moves
<1>8. pulled >= line[r.line].pulled
    BY <1>3, <1>4, LineFacts
<1>9. SeesLine(n)
    BY <1>2, <1>3, <1>5, <1>6, <1>8 DEF SeesLine
<1> QED
    BY <1>5, <1>7, <1>9, OnlyRequestMoves DEF Fits

LEMMA LineGoneKeeps ==
    ASSUME PartInv, NEW w \in Workers, LineGone(w)
    PROVE  PartInv'
BY RestingFits, OnlyRequestMoves DEF LineGone

-----------------------------------------------------------------------------
(* The write of a part, and what its ledger row adds.                       *)
LedgerRows == [onHand : Int, direct : Int, orders : Int]

LEMMA StockWritten ==
    ASSUME PartInv, NEW r \in StockRequests, Fits(r), r.at = "read",
           r.kind \in {"adjust", "mutate", "sale"} \cup OrderKinds, MutatePart(r)
    PROVE  /\ r.part \in Parts /\ r.onHand \in Int /\ r.allocated \in Int
           /\ stock' \in [Parts -> StockRows] /\ ledger' \in [Parts -> LedgerRows]
           /\ \A q \in Parts : q # r.part => stock'[q] = stock[q] /\ ledger'[q] = ledger[q]
           /\ ledger'[r.part].onHand = ledger[r.part].onHand + r.onHand
           /\ r.line = None => /\ ledger'[r.part].direct = ledger[r.part].direct + r.allocated
                               /\ ledger'[r.part].orders = ledger[r.part].orders
           /\ r.line # None => /\ ledger'[r.part].direct = ledger[r.part].direct
                               /\ ledger'[r.part].orders = ledger[r.part].orders + r.allocated
           /\ r.fresh = TRUE =>
                /\ stock'[r.part].onHand = stock[r.part].onHand + r.onHand
                /\ stock'[r.part].allocated = stock[r.part].allocated + r.allocated
<1>1. r.kind \in Moves
    BY DEF Moves, PartKinds
<1>2. /\ r.part \in Parts
      /\ r.fresh = TRUE => r.read = stock[r.part]
    BY <1>1 DEF Fits, Formed, SeesStock
<1>3. /\ r.onHand \in Int /\ r.allocated \in Int
      /\ r.read.onHand \in Int /\ r.read.allocated \in Int
    BY DEF StockRequests, StockRows
<1>4. stock \in [Parts -> StockRows] /\ ledger \in [Parts -> LedgerRows]
    BY DEF PartInv, StockTypeOK, LedgerRows
<1>5. PICK row \in StockRows :
         /\ row.onHand = r.read.onHand + r.onHand
         /\ row.allocated = r.read.allocated + r.allocated
         /\ stock' = [stock EXCEPT ![r.part] = row]
  <2> DEFINE row == [onHand |-> r.read.onHand + r.onHand,
                     allocated |-> r.read.allocated + r.allocated]
  <2>1. row \in StockRows
      BY <1>3 DEF StockRows
  <2>2. stock' = [stock EXCEPT ![r.part] = row]
      BY DEF MutatePart
  <2> QED
      BY <2>1, <2>2
<1>6. PICK direct \in Int, orders \in Int :
         /\ direct = IF r.line = None THEN r.allocated ELSE 0
         /\ orders = IF r.line # None THEN r.allocated ELSE 0
    BY <1>3
<1>7. ledger' = [ledger EXCEPT ![r.part].onHand = @ + r.onHand,
                               ![r.part].direct = @ + direct,
                               ![r.part].orders = @ + orders]
    BY <1>6 DEF MutatePart
<1>8. /\ ledger' \in [Parts -> LedgerRows]
      /\ \A q \in Parts : q # r.part => ledger'[q] = ledger[q]
      /\ ledger'[r.part].onHand = ledger[r.part].onHand + r.onHand
      /\ ledger'[r.part].direct = ledger[r.part].direct + direct
      /\ ledger'[r.part].orders = ledger[r.part].orders + orders
    BY <1>2, <1>3, <1>4, <1>6, <1>7 DEF LedgerRows
<1>9. /\ ledger[r.part].direct \in Int /\ ledger[r.part].orders \in Int
    BY <1>2, <1>4 DEF LedgerRows
<1>10. /\ r.line = None => /\ ledger'[r.part].direct = ledger[r.part].direct + r.allocated
                           /\ ledger'[r.part].orders = ledger[r.part].orders
       /\ r.line # None => /\ ledger'[r.part].direct = ledger[r.part].direct
                           /\ ledger'[r.part].orders = ledger[r.part].orders + r.allocated
    BY <1>3, <1>6, <1>8, <1>9
<1>11. /\ stock' \in [Parts -> StockRows]
       /\ \A q \in Parts : q # r.part => stock'[q] = stock[q]
       /\ r.fresh = TRUE =>
                /\ stock'[r.part].onHand = stock[r.part].onHand + r.onHand
                /\ stock'[r.part].allocated = stock[r.part].allocated + r.allocated
    BY <1>2, <1>4, <1>5
<1> QED
    BY <1>2, <1>3, <1>8, <1>10, <1>11

LEMMA Marked ==
    ASSUME PartInv, NEW r \in StockRequests, MarkStale(r)
    PROVE  /\ stale \subseteq stale' /\ stale' \subseteq Parts
           /\ r.part \in Parts /\ r.part \notin stale' => r.fresh = TRUE
BY StockroomAssumption DEF MarkStale, StockRequests, PartInv, StockTypeOK

LEMMA LedgerFollows ==
    ASSUME PartInv, NEW r \in StockRequests, Fits(r), r.at = "read",
           r.kind \in {"adjust", "mutate", "sale"} \cup OrderKinds, MutatePart(r), MarkStale(r)
    PROVE  LedgerAccountsForStock'
<1> SUFFICES ASSUME NEW p \in Parts, p \notin stale'
             PROVE  /\ stock'[p].onHand = InitialOnHand[p] + ledger'[p].onHand
                    /\ stock'[p].allocated =
                         InitialAllocated[p] + ledger'[p].direct + ledger'[p].orders
    BY DEF LedgerAccountsForStock
<1>1. p \notin stale
    BY Marked
<1>2. /\ stock[p].onHand = InitialOnHand[p] + ledger[p].onHand
      /\ stock[p].allocated = InitialAllocated[p] + ledger[p].direct + ledger[p].orders
    BY <1>1 DEF PartInv, LedgerAccountsForStock
<1>3. /\ InitialOnHand[p] \in Int /\ ledger[p].onHand \in Int
      /\ InitialAllocated[p] \in Int
      /\ ledger[p].direct \in Int /\ ledger[p].orders \in Int
    BY StockroomAssumption, PartStockAssumption DEF PartInv, StockTypeOK
<1>4. CASE p # r.part
    BY <1>2, <1>4, StockWritten
<1>5. CASE p = r.part
  <2>1. r.fresh = TRUE
      BY <1>5, Marked
  <2>2. /\ r.onHand \in Int /\ r.allocated \in Int
        /\ stock'[p].onHand = stock[p].onHand + r.onHand
        /\ stock'[p].allocated = stock[p].allocated + r.allocated
        /\ ledger'[p].onHand = ledger[p].onHand + r.onHand
        /\ \/ /\ ledger'[p].direct = ledger[p].direct + r.allocated
              /\ ledger'[p].orders = ledger[p].orders
           \/ /\ ledger'[p].direct = ledger[p].direct
              /\ ledger'[p].orders = ledger[p].orders + r.allocated
      BY <1>5, <2>1, StockWritten
  <2> QED
      BY <1>2, <1>3, <2>2
<1> QED
    BY <1>4, <1>5

LEMMA LinesUntouched ==
    ASSUME PartInv, UNCHANGED line
    PROVE  /\ SoundLines' /\ line' \in [PartLines -> LineRows]
           /\ \A p : HeldFor(p)' = HeldFor(p)
<1>1. \A m \in PartLines : line[m].allocated \in Int /\ line'[m] = line[m]
    BY DEF PartInv, StockTypeOK, LineRows
<1>2. ASSUME NEW p PROVE HeldFor(p)' = HeldFor(p)
    BY <1>1, HeldSame
<1>3. SoundLines'
    BY DEF PartInv, SoundLines, Listed
<1>4. line' \in [PartLines -> LineRows]
    BY DEF PartInv, StockTypeOK
<1> QED
    BY <1>2, <1>3, <1>4

LEMMA MutationKeeps ==
    ASSUME PartInv, NEW w \in Workers, CommitMutation(w)
    PROVE  PartInv'
<1>1. PICK r \in StockRequests : r = req[w] /\ Fits(r)
    BY DEF PartInv, StockTypeOK, AllFit
<1>2. /\ r.at = "read" /\ r.kind \in {"adjust", "mutate", "sale"}
      /\ MutatePart(r) /\ MarkStale(r)
      /\ Complete(w, r.part, None) /\ UNCHANGED <<line, claimed>>
    BY <1>1 DEF CommitMutation
<1>3. r.line = None /\ r.part \in Parts
    BY <1>1, <1>2 DEF Fits, Formed, PartKinds
<1>4. /\ stale \subseteq stale' /\ stale' \subseteq Parts
      /\ r.part \notin stale' => r.fresh = TRUE
    BY <1>2, <1>3, Marked
<1>6. /\ r.onHand \in Int /\ r.allocated \in Int
      /\ stock' \in [Parts -> StockRows] /\ ledger' \in [Parts -> LedgerRows]
      /\ \A q \in Parts : q # r.part => stock'[q] = stock[q] /\ ledger'[q] = ledger[q]
      /\ ledger'[r.part].direct = ledger[r.part].direct + r.allocated
      /\ r.fresh = TRUE =>
            /\ stock'[r.part].onHand = stock[r.part].onHand + r.onHand
            /\ stock'[r.part].allocated = stock[r.part].allocated + r.allocated
    BY <1>1, <1>2, <1>3, StockWritten
<1>7. /\ SoundLines' /\ line' \in [PartLines -> LineRows]
      /\ \A p : HeldFor(p)' = HeldFor(p)
    BY <1>2, LinesUntouched
<1>8. AllFit' /\ req' \in [Workers -> StockRequests]
  <2>1. \A m \in PartLines : Listed(m)' = Listed(m) /\ line'[m] = line[m]
      BY <1>2 DEF Listed
  <2> QED
      BY <1>2, <1>6, <2>1, CompleteKeeps
<1>9. StockTypeOK'
    BY <1>2, <1>4, <1>6, <1>7, <1>8 DEF PartInv, StockTypeOK, LedgerRows
<1>10. LedgerAccountsForStock'
    BY <1>1, <1>2, LedgerFollows
<1>11. Balanced'
  <2> SUFFICES ASSUME NEW p \in Parts, p \notin stale'
               PROVE  stock'[p].allocated + claimed'[p]
                        = InitialAllocated[p] + ledger'[p].direct + HeldFor(p)'
      BY DEF Balanced
  <2>1. stock[p].allocated + claimed[p]
          = InitialAllocated[p] + ledger[p].direct + HeldFor(p)
      BY <1>4 DEF PartInv, Balanced
  <2>2. HeldFor(p)' = HeldFor(p) /\ claimed' = claimed
      BY <1>2, <1>7
  <2>3. CASE p # r.part
      BY <1>6, <2>1, <2>2, <2>3
  <2>4. CASE p = r.part
    <3>1. /\ stock'[p].allocated = stock[p].allocated + r.allocated
          /\ ledger'[p].direct = ledger[p].direct + r.allocated
        BY <1>4, <1>6, <2>4
    <3>2. /\ stock[p].allocated \in Int /\ claimed[p] \in Int /\ ledger[p].direct \in Int
          /\ InitialAllocated[p] \in Int
        BY PartStockAssumption DEF PartInv, StockTypeOK, StockRows
    <3>3. HeldFor(p) \in Int /\ r.allocated \in Int
        BY <1>6, HeldIsInt
    <3> QED
        BY <2>1, <2>2, <3>1, <3>2, <3>3
  <2> QED
      BY <2>3, <2>4
<1> QED
    BY <1>7, <1>8, <1>9, <1>10, <1>11 DEF PartInv

LEMMA CountKeeps ==
    ASSUME PartInv, NEW w \in Workers, CommitCount(w)
    PROVE  PartInv'
<1>1. PICK r \in StockRequests : r = req[w] /\ Fits(r)
    BY DEF PartInv, StockTypeOK, AllFit
<1>2. /\ r.at = "read" /\ r.kind = "count" /\ MarkStale(r) /\ Complete(w, r.part, None)
      /\ UNCHANGED <<line, claimed>>
      /\ stock' = [stock EXCEPT ![r.part].onHand = r.onHand]
      /\ ledger' = [ledger EXCEPT ![r.part].onHand = @ + CountedDifference(r)]
    BY <1>1 DEF CommitCount
<1>3. /\ r.part \in Parts /\ r.line = None /\ r.kind \in Moves
      /\ r.onHand \in Int /\ r.read.onHand \in Int
    BY <1>1, <1>2 DEF Fits, Formed, PartKinds, Moves, StockRequests, StockRows
<1>4. /\ stale \subseteq stale' /\ stale' \subseteq Parts
      /\ r.part \notin stale' => r.fresh = TRUE
    BY <1>2, <1>3, Marked
<1>5. r.fresh = TRUE => r.read = stock[r.part]
    BY <1>1, <1>2, <1>3 DEF Fits, SeesStock
<1>6. stock \in [Parts -> StockRows] /\ ledger \in [Parts -> LedgerRows]
    BY DEF PartInv, StockTypeOK, LedgerRows
<1>7. /\ stock' \in [Parts -> StockRows]
      /\ \A q \in Parts : q # r.part => stock'[q] = stock[q]
      /\ stock'[r.part].onHand = r.onHand
      /\ stock'[r.part].allocated = stock[r.part].allocated
    BY <1>2, <1>3, <1>6 DEF StockRows
<1>8. PICK difference \in Int : difference = r.onHand - r.read.onHand
    BY <1>3
<1>9. ledger' = [ledger EXCEPT ![r.part].onHand = @ + difference]
    BY <1>2, <1>8 DEF CountedDifference
<1>10. /\ ledger' \in [Parts -> LedgerRows]
       /\ \A q \in Parts : q # r.part => ledger'[q] = ledger[q]
       /\ ledger'[r.part].onHand = ledger[r.part].onHand + difference
       /\ ledger'[r.part].direct = ledger[r.part].direct
       /\ ledger'[r.part].orders = ledger[r.part].orders
    BY <1>3, <1>6, <1>8, <1>9 DEF LedgerRows
<1>11. /\ SoundLines' /\ line' \in [PartLines -> LineRows]
       /\ \A p : HeldFor(p)' = HeldFor(p)
    BY <1>2, LinesUntouched
<1>12. AllFit' /\ req' \in [Workers -> StockRequests]
  <2>1. \A m \in PartLines : Listed(m)' = Listed(m) /\ line'[m] = line[m]
      BY <1>2 DEF Listed
  <2> QED
      BY <1>2, <1>7, <2>1, CompleteKeeps
<1>13. StockTypeOK'
    BY <1>2, <1>4, <1>7, <1>10, <1>11, <1>12 DEF PartInv, StockTypeOK, LedgerRows
<1>14. LedgerAccountsForStock'
  <2> SUFFICES ASSUME NEW p \in Parts, p \notin stale'
               PROVE  /\ stock'[p].onHand = InitialOnHand[p] + ledger'[p].onHand
                      /\ stock'[p].allocated =
                           InitialAllocated[p] + ledger'[p].direct + ledger'[p].orders
      BY DEF LedgerAccountsForStock
  <2>1. /\ stock[p].onHand = InitialOnHand[p] + ledger[p].onHand
        /\ stock[p].allocated = InitialAllocated[p] + ledger[p].direct + ledger[p].orders
      BY <1>4 DEF PartInv, LedgerAccountsForStock
  <2>2. CASE p # r.part
      BY <1>7, <1>10, <2>1, <2>2
  <2>3. CASE p = r.part
    <3>1. r.read.onHand = stock[p].onHand
        BY <1>4, <1>5, <2>3
    <3>2. /\ stock[p].onHand \in Int /\ ledger[p].onHand \in Int /\ InitialOnHand[p] \in Int
        BY <1>6, StockroomAssumption DEF StockRows, LedgerRows
    <3> QED
        BY <1>3, <1>7, <1>8, <1>10, <2>1, <2>3, <3>1, <3>2
  <2> QED
      BY <2>2, <2>3
<1>15. Balanced'
  <2>1. \A p \in Parts : /\ stock'[p].allocated = stock[p].allocated
                         /\ ledger'[p].direct = ledger[p].direct
      BY <1>7, <1>10
  <2> QED
      BY <1>2, <1>4, <1>11, <2>1 DEF PartInv, Balanced
<1> QED
    BY <1>11, <1>12, <1>13, <1>14, <1>15 DEF PartInv

-----------------------------------------------------------------------------
(* The write of a line.                                                     *)
LEMMA LineWritten ==
    ASSUME PartInv, NEW l \in PartLines, NEW row \in LineRows, row.status # "ABSENT",
           Listed(l), row.part = line[l].part, row.allocated >= 0,
           line' = [line EXCEPT ![l] = row]
    PROVE  /\ SoundLines' /\ line' \in [PartLines -> LineRows] /\ line'[l] = row
           /\ \A m \in PartLines \ {l} : line'[m] = line[m]
           /\ \A m \in PartLines : Listed(m)' => Listed(m) /\ line'[m].part = line[m].part
           /\ \A m \in PartLines \ {l} : Listed(m) => Listed(m)'
           /\ Listed(l)'
           /\ \A p : row.part # p \/ row.allocated = line[l].allocated
                       => HeldFor(p)' = HeldFor(p)
           /\ HeldFor(row.part)' =
                HeldFor(row.part) + (row.allocated - line[l].allocated)
<1>1. line \in [PartLines -> LineRows]
    BY DEF PartInv, StockTypeOK
<1>2. /\ line' \in [PartLines -> LineRows] /\ line'[l] = row
      /\ \A m \in PartLines \ {l} : line'[m] = line[m]
    BY <1>1
<1>3. \A m \in PartLines : line[m].allocated \in Int /\ line'[m].allocated \in Int
    BY <1>1, <1>2 DEF LineRows
<1>4. Listed(l)' /\ \A m \in PartLines \ {l} : Listed(m)' = Listed(m)
    BY <1>2 DEF Listed
<1>5. SoundLines'
    BY <1>2, <1>4 DEF PartInv, SoundLines, Listed
<1>6. \A m \in PartLines : Listed(m)' => Listed(m) /\ line'[m].part = line[m].part
    BY <1>2, <1>4
<1>7. ASSUME NEW p, row.part # p \/ row.allocated = line[l].allocated
      PROVE  HeldFor(p)' = HeldFor(p)
  <2>1. \A m \in PartLines : HeldAs(line'[m], p) = HeldAs(line[m], p)
      BY <1>2, <1>7 DEF HeldAs
  <2> QED
      BY <1>3, <2>1, HeldSame
<1>8. HeldFor(row.part)' = HeldFor(row.part) + (row.allocated - line[l].allocated)
  <2>1. PICK p : p = row.part
      OBVIOUS
  <2>2. \A m \in PartLines \ {l} : HeldAs(line'[m], p) = HeldAs(line[m], p)
      BY <1>2 DEF HeldAs
  <2>3. HeldAs(line'[l], p) = row.allocated /\ HeldAs(line[l], p) = line[l].allocated
      BY <1>2, <2>1 DEF HeldAs
  <2>4. HeldFor(p)' = HeldFor(p) + (row.allocated - line[l].allocated)
      BY <1>3, <2>2, <2>3, HeldMoves
  <2> QED
      BY <2>1, <2>4
<1> QED
    BY <1>2, <1>4, <1>5, <1>6, <1>7, <1>8

LEMMA LineStockKeeps ==
    ASSUME PartInv, NEW w \in Workers, NEW r \in StockRequests, r = req[w], Fits(r),
           r.at = "read", r.kind \in OrderKinds, r.line \in PartLines, Listed(r.line),
           MutatePart(r), MarkStale(r), Complete(w, r.part, r.line),
           UNCHANGED claimed,
           NEW row \in LineRows, line' = [line EXCEPT ![r.line] = row],
           row.part = line[r.line].part, row.allocated = r.after.allocated,
           row.status = r.after.status
    PROVE  PartInv'
<1>1. /\ r.kind \notin {"adjust", "mutate", "count", "none"} /\ r.kind \in Moves
    BY DEF OrderKinds, Moves
<1>2. /\ r.part \in Parts /\ r.line # None /\ r.after.allocated >= 0
      /\ r.after.status # "ABSENT" /\ line[r.line].part = r.part
    BY <1>1, PartStockAssumption DEF Fits, Formed, NamesPart
<1>3. /\ stale \subseteq stale' /\ stale' \subseteq Parts
      /\ r.part \notin stale' => r.fresh = TRUE
    BY <1>2, Marked
<1>4. /\ r.onHand \in Int /\ r.allocated \in Int
      /\ stock' \in [Parts -> StockRows] /\ ledger' \in [Parts -> LedgerRows]
      /\ \A q \in Parts : q # r.part => stock'[q] = stock[q] /\ ledger'[q] = ledger[q]
      /\ ledger'[r.part].direct = ledger[r.part].direct
      /\ r.fresh = TRUE =>
            /\ stock'[r.part].onHand = stock[r.part].onHand + r.onHand
            /\ stock'[r.part].allocated = stock[r.part].allocated + r.allocated
    BY <1>2, StockWritten
<1>5. /\ r.fresh = TRUE => row.allocated = line[r.line].allocated + r.allocated
    BY <1>2 DEF Fits, SeesLine
<1>6. /\ SoundLines' /\ line' \in [PartLines -> LineRows] /\ line'[r.line] = row
      /\ \A m \in PartLines \ {r.line} : line'[m] = line[m]
      /\ \A m \in PartLines : Listed(m)' => Listed(m) /\ line'[m].part = line[m].part
      /\ \A m \in PartLines \ {r.line} : Listed(m) => Listed(m)'
      /\ \A p : row.part # p => HeldFor(p)' = HeldFor(p)
      /\ HeldFor(row.part)' = HeldFor(row.part) + (row.allocated - line[r.line].allocated)
  <2>1. PICK l \in PartLines : l = r.line
      OBVIOUS
  <2>2. /\ Listed(l) /\ row.status # "ABSENT" /\ row.part = line[l].part
        /\ row.allocated >= 0 /\ line' = [line EXCEPT ![l] = row]
      BY <1>2, <2>1
  <2>3. /\ SoundLines' /\ line' \in [PartLines -> LineRows] /\ line'[l] = row
        /\ \A m \in PartLines \ {l} : line'[m] = line[m]
        /\ \A m \in PartLines : Listed(m)' => Listed(m) /\ line'[m].part = line[m].part
        /\ \A m \in PartLines \ {l} : Listed(m) => Listed(m)'
      BY <2>2, LineWritten
  <2>4. \A p : row.part # p \/ row.allocated = line[l].allocated
                => HeldFor(p)' = HeldFor(p)
      BY <2>2, LineWritten
  <2>5. HeldFor(row.part)' = HeldFor(row.part) + (row.allocated - line[l].allocated)
      BY <2>2, LineWritten
  <2> QED
      BY <2>1, <2>3, <2>4, <2>5
<1>7. AllFit' /\ req' \in [Workers -> StockRequests]
    BY <1>4, <1>6, CompleteKeeps
<1>8. StockTypeOK'
    BY <1>3, <1>4, <1>6, <1>7 DEF PartInv, StockTypeOK, LedgerRows
<1>9. LedgerAccountsForStock'
    BY LedgerFollows
<1>10. Balanced'
  <2> SUFFICES ASSUME NEW p \in Parts, p \notin stale'
               PROVE  stock'[p].allocated + claimed'[p]
                        = InitialAllocated[p] + ledger'[p].direct + HeldFor(p)'
      BY DEF Balanced
  <2>1. stock[p].allocated + claimed[p]
          = InitialAllocated[p] + ledger[p].direct + HeldFor(p)
      BY <1>3 DEF PartInv, Balanced
  <2>2. CASE p # r.part
      BY <1>2, <1>4, <1>6, <2>1, <2>2
  <2>3. CASE p = r.part
    <3>1. /\ stock'[p].allocated = stock[p].allocated + r.allocated
          /\ row.allocated = line[r.line].allocated + r.allocated
          /\ ledger'[p].direct = ledger[p].direct
          /\ HeldFor(p)' = HeldFor(p) + (row.allocated - line[r.line].allocated)
        BY <1>2, <1>3, <1>4, <1>5, <1>6, <2>3
    <3>2. /\ stock[p].allocated \in Int /\ claimed[p] \in Int /\ ledger[p].direct \in Int
          /\ InitialAllocated[p] \in Int
        BY PartStockAssumption DEF PartInv, StockTypeOK, StockRows
    <3>3. HeldFor(p) \in Int /\ line[r.line].allocated \in Int
        BY HeldIsInt, LineFacts
    <3> QED
        BY <1>4, <2>1, <3>1, <3>2, <3>3
  <2> QED
      BY <2>2, <2>3
<1> QED
    BY <1>6, <1>7, <1>8, <1>9, <1>10 DEF PartInv

LEMMA ReleasedRow ==
    ASSUME PartInv, NEW r \in StockRequests, r.line \in PartLines
    PROVE  /\ Released(r) \in LineRows
           /\ Released(r).part = line[r.line].part
           /\ Released(r).allocated = r.after.allocated
           /\ Released(r).status = r.after.status
           /\ Released(r).installed = line[r.line].installed
           /\ Released(r).pulled = line[r.line].pulled
<1>1. line[r.line] \in LineRows
    BY DEF PartInv, StockTypeOK
<1>2. r.after.allocated \in Int /\ r.after.status \in AllLineStatuses \cup {"ABSENT"}
    BY DEF StockRequests
<1> QED
    BY <1>1, <1>2 DEF Released, LineRows

LEMMA LineStockCommits ==
    ASSUME PartInv, NEW w \in Workers,
           CommitAllocate(w) \/ CommitDeallocate(w) \/ CommitIssue(w)
    PROVE  PartInv'
<1>1. PICK r \in StockRequests : r = req[w] /\ Fits(r)
    BY DEF PartInv, StockTypeOK, AllFit
<1>2. /\ r.at = "read" /\ r.kind \in OrderKinds /\ r.line \in PartLines /\ Listed(r.line)
      /\ MutatePart(r) /\ MarkStale(r) /\ Complete(w, r.part, r.line)
      /\ UNCHANGED claimed
    BY <1>1 DEF CommitAllocate, CommitDeallocate, CommitIssue, CommitLineStock, OrderKinds,
                Fits, Formed
<1>3. CASE CommitAllocate(w) \/ CommitDeallocate(w)
  <2>1. line' = [line EXCEPT ![r.line] = Released(r)]
      BY <1>1, <1>3 DEF CommitAllocate, CommitDeallocate, CommitLineStock
  <2>2. PICK row \in LineRows :
           /\ row = Released(r)
           /\ row.part = line[r.line].part /\ row.allocated = r.after.allocated
           /\ row.status = r.after.status
      BY <1>2, ReleasedRow
  <2> QED
      BY <1>1, <1>2, <2>1, <2>2, LineStockKeeps
<1>4. CASE CommitIssue(w)
  <2>1. line' = [line EXCEPT ![r.line] = [Released(r) EXCEPT !.pulled = r.after.pulled]]
      BY <1>1, <1>4 DEF CommitIssue, CommitLineStock
  <2>2. PICK given \in LineRows :
           /\ given = Released(r)
           /\ given.part = line[r.line].part /\ given.allocated = r.after.allocated
           /\ given.status = r.after.status
      BY <1>2, ReleasedRow
  <2>3. r.after.pulled \in Int
      BY DEF StockRequests
  <2>4. PICK row \in LineRows :
           /\ row = [given EXCEPT !.pulled = r.after.pulled]
           /\ row.part = given.part /\ row.allocated = given.allocated
           /\ row.status = given.status
    <3> DEFINE new == [given EXCEPT !.pulled = r.after.pulled]
    <3>1. /\ new \in LineRows /\ new.part = given.part
          /\ new.allocated = given.allocated /\ new.status = given.status
        BY <2>3 DEF LineRows
    <3> QED
        BY <3>1
  <2> QED
      BY <1>1, <1>2, <2>1, <2>2, <2>4, LineStockKeeps
<1> QED
    BY <1>3, <1>4

(* The writes that leave stock alone.                                       *)
LEMMA LineOnlyKeeps ==
    ASSUME PartInv, UNCHANGED <<stock, ledger, claimed, stale>>,
           NEW l \in PartLines, Listed(l),
           NEW row \in LineRows, line' = [line EXCEPT ![l] = row],
           row.status # "ABSENT", row.part = line[l].part, row.allocated >= 0,
           row.allocated = line[l].allocated \/ row.part = None,
           AllFit', req' \in [Workers -> StockRequests]
    PROVE  PartInv'
<1>1. /\ SoundLines' /\ line' \in [PartLines -> LineRows] /\ line'[l] = row
      /\ \A m \in PartLines \ {l} : line'[m] = line[m]
    BY LineWritten
<1>2. \A p : row.part # p \/ row.allocated = line[l].allocated => HeldFor(p)' = HeldFor(p)
    BY LineWritten
<1>3. StockTypeOK'
    BY <1>1 DEF PartInv, StockTypeOK
<1>4. LedgerAccountsForStock'
    BY DEF PartInv, LedgerAccountsForStock
<1>5. \A p \in Parts : HeldFor(p)' = HeldFor(p)
    BY <1>2, StockroomAssumption
<1>6. Balanced'
    BY <1>5 DEF PartInv, Balanced
<1> QED
    BY <1>1, <1>3, <1>4, <1>6 DEF PartInv

LEMMA LineOnlyRequests ==
    ASSUME PartInv, NEW w \in Workers, NEW l \in PartLines, Listed(l),
           UNCHANGED stock,
           NEW row \in LineRows, line' = [line EXCEPT ![l] = row],
           row.status # "ABSENT", row.part = line[l].part, row.allocated >= 0,
           \/ Complete(w, None, l)
           \/ /\ Complete(w, None, None)
              /\ row.allocated = line[l].allocated /\ row.pulled = line[l].pulled
    PROVE  AllFit' /\ req' \in [Workers -> StockRequests]
<1>1. /\ line'[l] = row
      /\ \A m \in PartLines \ {l} : line'[m] = line[m]
      /\ \A m \in PartLines : Listed(m)' => Listed(m) /\ line'[m].part = line[m].part
      /\ \A m \in PartLines \ {l} : Listed(m) => Listed(m)'
      /\ Listed(l)'
    BY LineWritten
<1>2. CASE Complete(w, None, l)
    BY <1>1, <1>2, CompleteKeeps
<1>3. CASE /\ Complete(w, None, None)
           /\ row.allocated = line[l].allocated /\ row.pulled = line[l].pulled
  <2>1. \A m \in PartLines : m # None /\ Listed(m) =>
              /\ Listed(m)'
              /\ line'[m].allocated = line[m].allocated /\ line'[m].pulled = line[m].pulled
      BY <1>1, <1>3
  <2> QED
      BY <1>1, <1>3, <2>1, CompleteKeeps
<1> QED
    BY <1>2, <1>3

LEMMA SpecialOrderKeeps ==
    ASSUME PartInv, NEW w \in Workers, CommitSpecialOrder(w)
    PROVE  PartInv'
<1>1. PICK r \in StockRequests : r = req[w] /\ Fits(r)
    BY DEF PartInv, StockTypeOK, AllFit
<1>2. /\ r.kind = "allocate" /\ r.part = None /\ Listed(r.line)
      /\ line' = [line EXCEPT ![r.line] = Released(r)]
      /\ Complete(w, None, r.line)
      /\ UNCHANGED <<stock, ledger, claimed, stale>>
    BY <1>1 DEF CommitSpecialOrder, StockAndLedger, Notes
<1>3. PICK l \in PartLines : l = r.line
    BY <1>1, <1>2 DEF Fits, Formed, OrderKinds
<1>4. PICK row \in LineRows :
         /\ row = Released(r)
         /\ row.part = line[l].part /\ row.allocated = r.after.allocated
         /\ row.status = r.after.status /\ row.installed = line[l].installed
         /\ row.pulled = line[l].pulled
    BY <1>3, ReleasedRow
<1>5. /\ row.part = None /\ row.allocated >= 0 /\ row.status # "ABSENT"
    BY <1>1, <1>2, <1>3, <1>4 DEF Fits, Formed, NamesPart, OrderKinds
<1>7. line' = [line EXCEPT ![l] = row] /\ Listed(l) /\ Complete(w, None, l)
    BY <1>2, <1>3, <1>4
<1>8. AllFit' /\ req' \in [Workers -> StockRequests]
    BY <1>2, <1>4, <1>5, <1>7, LineOnlyRequests
<1> QED
    BY <1>2, <1>4, <1>5, <1>7, <1>8, LineOnlyKeeps

LEMMA PullKeeps ==
    ASSUME PartInv, NEW w \in Workers, CommitPull(w)
    PROVE  PartInv'
<1>1. PICK r \in StockRequests : r = req[w] /\ Fits(r)
    BY DEF PartInv, StockTypeOK, AllFit
<1>2. /\ r.at = "read" /\ r.kind = "pull" /\ Listed(r.line)
      /\ line' = [line EXCEPT ![r.line].pulled = r.after.pulled,
                              ![r.line].status = r.after.status]
      /\ Complete(w, None, r.line)
      /\ UNCHANGED <<stock, ledger, claimed, stale>>
    BY <1>1 DEF CommitPull, StockAndLedger, Notes
<1>3. /\ r.line \in PartLines /\ r.after.status # "ABSENT"
      /\ r.after.status \in AllLineStatuses \cup {"ABSENT"} /\ r.after.pulled \in Int
    BY <1>1, <1>2 DEF Fits, Formed, LineKinds, PartKinds, StockRequests
<1>4. PICK l \in PartLines : l = r.line
    BY <1>3
<1>5. PICK row \in LineRows :
         /\ line' = [line EXCEPT ![l] = row]
         /\ row.part = line[l].part /\ row.allocated = line[l].allocated
         /\ row.installed = line[l].installed
         /\ row.pulled = r.after.pulled /\ row.status = r.after.status
  <2> DEFINE row == [line[l] EXCEPT !.pulled = r.after.pulled, !.status = r.after.status]
  <2>1. line \in [PartLines -> LineRows]
      BY DEF PartInv, StockTypeOK
  <2>2. line[l] \in LineRows
      BY <2>1
  <2>3. /\ row \in LineRows
        /\ row.part = line[l].part /\ row.allocated = line[l].allocated
        /\ row.installed = line[l].installed
        /\ row.pulled = r.after.pulled /\ row.status = r.after.status
      BY <1>3, <2>2 DEF LineRows
  <2>4. line' = [line EXCEPT ![l] = row]
      BY <1>2, <1>4, <2>1
  <2> QED
      BY <2>3, <2>4
<1>7. row.allocated >= 0 /\ Listed(l) /\ Complete(w, None, l)
    BY <1>2, <1>4, <1>5, LineFacts
<1>8. AllFit' /\ req' \in [Workers -> StockRequests]
    BY <1>2, <1>3, <1>5, <1>7, LineOnlyRequests
<1> QED
    BY <1>2, <1>3, <1>5, <1>7, <1>8, LineOnlyKeeps

LEMMA InstallKeeps ==
    ASSUME PartInv, NEW w \in Workers, CommitInstall(w)
    PROVE  PartInv'
<1>1. PICK r \in StockRequests : r = req[w] /\ Fits(r)
    BY DEF PartInv, StockTypeOK, AllFit
<1>2. /\ r.kind = "install" /\ Listed(r.line)
      /\ line' = [line EXCEPT ![r.line].installed = r.after.installed,
                              ![r.line].status = r.after.status]
      /\ Complete(w, None, r.line)
      /\ UNCHANGED <<stock, ledger, claimed, stale>>
    BY <1>1 DEF CommitInstall, StockAndLedger, Notes
<1>3. /\ r.line \in PartLines /\ r.after.status # "ABSENT"
      /\ r.after.status \in AllLineStatuses \cup {"ABSENT"} /\ r.after.installed \in Int
    BY <1>1, <1>2 DEF Fits, Formed, LineKinds, PartKinds, StockRequests
<1>4. PICK l \in PartLines : l = r.line
    BY <1>3
<1>5. PICK row \in LineRows :
         /\ line' = [line EXCEPT ![l] = row]
         /\ row.part = line[l].part /\ row.allocated = line[l].allocated
         /\ row.pulled = line[l].pulled
         /\ row.installed = r.after.installed /\ row.status = r.after.status
  <2> DEFINE row == [line[l] EXCEPT !.installed = r.after.installed, !.status = r.after.status]
  <2>1. line \in [PartLines -> LineRows]
      BY DEF PartInv, StockTypeOK
  <2>2. line[l] \in LineRows
      BY <2>1
  <2>3. /\ row \in LineRows
        /\ row.part = line[l].part /\ row.allocated = line[l].allocated
        /\ row.pulled = line[l].pulled
        /\ row.installed = r.after.installed /\ row.status = r.after.status
      BY <1>3, <2>2 DEF LineRows
  <2>4. line' = [line EXCEPT ![l] = row]
      BY <1>2, <1>4, <2>1
  <2> QED
      BY <2>3, <2>4
<1>7. row.allocated >= 0 /\ Listed(l) /\ Complete(w, None, l)
    BY <1>2, <1>4, <1>5, LineFacts
<1>8. AllFit' /\ req' \in [Workers -> StockRequests]
    BY <1>2, <1>3, <1>5, <1>7, LineOnlyRequests
<1> QED
    BY <1>2, <1>3, <1>5, <1>7, <1>8, LineOnlyKeeps

(* A write of the status alone.                                             *)
LEMMA StatusKeeps ==
    ASSUME PartInv, NEW w \in Workers, NEW kind \in LineKinds,
           NEW newStatus \in AllLineStatuses, CommitStatus(w, kind, newStatus)
    PROVE  PartInv'
<1>1. PICK r \in StockRequests : r = req[w] /\ Fits(r)
    BY DEF PartInv, StockTypeOK, AllFit
<1>2. /\ r.kind = kind /\ Listed(r.line)
      /\ line' = [line EXCEPT ![r.line].status = newStatus]
      /\ Complete(w, None, None)
      /\ UNCHANGED <<stock, ledger, claimed, stale>>
    BY <1>1 DEF CommitStatus, StockAndLedger, Notes
<1>3. PICK l \in PartLines : l = r.line
    BY <1>1, <1>2 DEF Fits, Formed
<1>4. newStatus # "ABSENT"
    BY DEF AllLineStatuses
<1>5. PICK row \in LineRows :
         /\ line' = [line EXCEPT ![l] = row]
         /\ row.part = line[l].part /\ row.allocated = line[l].allocated
         /\ row.pulled = line[l].pulled
         /\ row.installed = line[l].installed /\ row.status = newStatus
  <2> DEFINE row == [line[l] EXCEPT !.status = newStatus]
  <2>1. line \in [PartLines -> LineRows]
      BY DEF PartInv, StockTypeOK
  <2>2. line[l] \in LineRows
      BY <2>1
  <2>3. /\ row \in LineRows
        /\ row.part = line[l].part /\ row.allocated = line[l].allocated
        /\ row.pulled = line[l].pulled
        /\ row.installed = line[l].installed /\ row.status = newStatus
      BY <2>2 DEF LineRows
  <2>4. line' = [line EXCEPT ![l] = row]
      BY <1>2, <1>3, <2>1
  <2> QED
      BY <2>3, <2>4
<1>7. row.allocated >= 0 /\ Listed(l)
    BY <1>2, <1>3, <1>5, LineFacts
<1>8. AllFit' /\ req' \in [Workers -> StockRequests]
    BY <1>2, <1>4, <1>5, <1>7, LineOnlyRequests
<1> QED
    BY <1>2, <1>4, <1>5, <1>7, <1>8, LineOnlyKeeps

LEMMA StatusCommits ==
    ASSUME PartInv, NEW w \in Workers,
           CommitStage(w) \/ CommitToBeOrdered(w) \/ CommitCancelLine(w)
    PROVE  PartInv'
<1>1. {"stage", "toBeOrdered", "cancel"} \subseteq LineKinds
      /\ {"STAGED", "TO_BE_ORDERED", "CANCELLED"} \subseteq AllLineStatuses
    BY DEF LineKinds, AllLineStatuses
<1>2. CASE CommitStage(w) \/ CommitToBeOrdered(w)
    BY <1>1, <1>2, StatusKeeps DEF CommitStage, CommitToBeOrdered
<1>3. CASE CommitCancelLine(w)
  <2>1. PICK l \in PartLines : l = req[w].line /\ Listed(l)
      BY <1>3 DEF CommitCancelLine, CommitStatus, PartInv, StockTypeOK, StockRequests
  <2>2. PICK newStatus \in AllLineStatuses :
            newStatus = IF Cancellable(req[w].line) THEN "CANCELLED"
                        ELSE line[req[w].line].status
      BY <1>1, <2>1, LineFacts DEF Listed
  <2>3. CommitStatus(w, "cancel", newStatus)
      BY <1>3, <2>2 DEF CommitCancelLine
  <2> QED
      BY <1>1, <2>3, StatusKeeps
<1> QED
    BY <1>2, <1>3

LEMMA DeleteKeeps ==
    ASSUME PartInv, NEW w \in Workers, CommitDelete(w)
    PROVE  PartInv'
<1>1. PICK r \in StockRequests : r = req[w] /\ Fits(r)
    BY DEF PartInv, StockTypeOK, AllFit
<1>2. /\ r.kind = "delete" /\ Listed(r.line)
      /\ line' = [line EXCEPT ![r.line] = NoPartLine]
      /\ MarkStale(r) /\ Complete(w, None, r.line)
      /\ UNCHANGED <<stock, ledger, claimed>>
    BY <1>1 DEF CommitDelete, StockAndLedger
<1>3. PICK l \in PartLines : l = r.line
    BY <1>1, <1>2 DEF Fits, Formed, LineKinds
<1>4. /\ line[l].part = r.part /\ r.part \in Parts \cup {None}
      /\ r.fresh = TRUE => line[l].allocated = 0
    BY <1>1, <1>2, <1>3, PartStockAssumption DEF Fits, NamesPart, SeesLine, StockRequests
<1>5. /\ stale \subseteq stale' /\ stale' \subseteq Parts
      /\ r.part \in Parts /\ r.part \notin stale' => r.fresh = TRUE
    BY <1>2, Marked
<1>6. line \in [PartLines -> LineRows] /\ NoPartLine \in LineRows
    BY DEF PartInv, StockTypeOK, NoPartLine, LineRows
<1>7. /\ line' \in [PartLines -> LineRows] /\ line'[l] = NoPartLine
      /\ \A m \in PartLines \ {l} : line'[m] = line[m]
    BY <1>2, <1>3, <1>6
<1>8. /\ NoPartLine.status = "ABSENT" /\ NoPartLine.part = None /\ NoPartLine.allocated = 0
      /\ NoPartLine.installed = 0 /\ NoPartLine.pulled = 0
    BY DEF NoPartLine
<1>9. ~Listed(l)' /\ \A m \in PartLines \ {l} : Listed(m)' = Listed(m)
    BY <1>7, <1>8 DEF Listed
<1>10. SoundLines'
    BY <1>7, <1>8, <1>9 DEF PartInv, SoundLines
<1>11. AllFit' /\ req' \in [Workers -> StockRequests]
  <2>1. \A m \in PartLines : Listed(m)' => Listed(m) /\ line'[m].part = line[m].part
      BY <1>7, <1>9
  <2>2. \A m \in PartLines : m # l /\ Listed(m) =>
              /\ Listed(m)'
              /\ line'[m].allocated = line[m].allocated /\ line'[m].pulled = line[m].pulled
      BY <1>7, <1>9
  <2> QED
      BY <1>2, <1>3, <2>1, <2>2, CompleteKeeps
<1>12. StockTypeOK'
    BY <1>2, <1>5, <1>7, <1>11 DEF PartInv, StockTypeOK
<1>13. LedgerAccountsForStock'
    BY <1>2, <1>5 DEF PartInv, LedgerAccountsForStock
<1>14. Balanced'
  <2> SUFFICES ASSUME NEW p \in Parts, p \notin stale' PROVE HeldFor(p)' = HeldFor(p)
      BY <1>2, <1>5 DEF PartInv, Balanced
  <2>1. HeldAs(line'[l], p) = HeldAs(line[l], p)
    <3>1. HeldAs(line'[l], p) = 0
        BY <1>7, <1>8 DEF HeldAs
    <3>2. HeldAs(line[l], p) = 0
        BY <1>4, <1>5 DEF HeldAs
    <3> QED
        BY <3>1, <3>2
  <2>2. \A m \in PartLines : HeldAs(line'[m], p) = HeldAs(line[m], p)
      BY <1>7, <2>1
  <2>3. \A m \in PartLines : line[m].allocated \in Int /\ line'[m].allocated \in Int
      BY <1>6, <1>7 DEF LineRows
  <2> QED
      BY <2>2, <2>3, HeldSame
<1> QED
    BY <1>10, <1>11, <1>12, <1>13, <1>14 DEF PartInv

LEMMA AddKeeps ==
    ASSUME PartInv, NEW l \in PartLines, AddLine(l)
    PROVE  PartInv'
<1>1. /\ ~Listed(l) /\ \A w \in Workers : req[w].line # l
      /\ UNCHANGED <<stock, ledger, stale, req>>
    BY DEF AddLine, StockAndLedger
<1>2. PICK row \in NewLines :
         /\ line' = [line EXCEPT ![l] = row]
         /\ claimed' = IF row.part = None THEN claimed
                       ELSE [claimed EXCEPT ![row.part] = @ + row.allocated]
    BY DEF AddLine
<1>3. /\ row \in [status : AllLineStatuses, part : Parts \cup {None}, required : Nat,
                  allocated : Nat, received : Nat, pulled : Nat, installed : Nat]
      /\ "ABSENT" \notin AllLineStatuses
    BY PartStockAssumption DEF AllLineStatuses
<1>4. PICK part \in Parts \cup {None}, allocated \in Nat :
         /\ part = row.part /\ allocated = row.allocated
         /\ row \in LineRows /\ row.status # "ABSENT"
    BY <1>3 DEF LineRows
<1>5. /\ line[l] = NoPartLine /\ NoPartLine.part = None /\ NoPartLine.allocated = 0
    BY <1>1 DEF PartInv, SoundLines, NoPartLine
<1>6. line \in [PartLines -> LineRows]
    BY DEF PartInv, StockTypeOK
<1>7. /\ line' \in [PartLines -> LineRows] /\ line'[l] = row
      /\ \A m \in PartLines \ {l} : line'[m] = line[m]
    BY <1>2, <1>4, <1>6
<1>8. /\ claimed' \in [Parts -> Nat]
      /\ \A p \in Parts : claimed'[p] = claimed[p] + (IF p = part THEN allocated ELSE 0)
  <2>1. claimed \in [Parts -> Nat]
      BY DEF PartInv, StockTypeOK
  <2>2. CASE part = None
    <3>1. \A p \in Parts : p # part /\ claimed[p] + 0 = claimed[p]
        BY <2>1, <2>2, StockroomAssumption
    <3> QED
        BY <1>2, <1>4, <2>1, <2>2, <3>1
  <2>3. CASE part # None
    <3>1. /\ part \in Parts /\ claimed' = [claimed EXCEPT ![part] = @ + allocated]
          /\ \A p \in Parts : claimed[p] + 0 = claimed[p]
        BY <1>2, <1>4, <2>1, <2>3
    <3> QED
        BY <2>1, <3>1
  <2> QED
      BY <2>2, <2>3
<1>9. SoundLines'
  <2>1. Listed(l)' /\ \A m \in PartLines \ {l} : Listed(m)' = Listed(m)
      BY <1>4, <1>7 DEF Listed
  <2> QED
      BY <1>4, <1>7, <2>1 DEF PartInv, SoundLines
<1>10. AllFit'
    BY <1>1, <1>7, RequestsKeep
<1>11. StockTypeOK'
    BY <1>1, <1>7, <1>8 DEF PartInv, StockTypeOK
<1>12. LedgerAccountsForStock'
    BY <1>1 DEF PartInv, LedgerAccountsForStock
<1>13. Balanced'
  <2> SUFFICES ASSUME NEW p \in Parts, p \notin stale'
               PROVE  stock'[p].allocated + claimed'[p]
                        = InitialAllocated[p] + ledger'[p].direct + HeldFor(p)'
      BY DEF Balanced
  <2>1. \A m \in PartLines : line[m].allocated \in Int /\ line'[m].allocated \in Int
      BY <1>6, <1>7 DEF LineRows
  <2>2. \A m \in PartLines \ {l} : HeldAs(line'[m], p) = HeldAs(line[m], p)
      BY <1>7
  <2>3. PICK more \in Int : more = IF p = part THEN allocated ELSE 0
      OBVIOUS
  <2>4. HeldAs(line'[l], p) = more /\ HeldAs(line[l], p) = 0
      BY <1>4, <1>5, <1>7, <2>3 DEF HeldAs
  <2>5. HeldFor(p)' = HeldFor(p) + (more - 0)
      BY <2>1, <2>2, <2>4, HeldMoves
  <2>6. /\ stock[p].allocated \in Int /\ claimed[p] \in Int /\ ledger[p].direct \in Int
        /\ HeldFor(p) \in Int /\ InitialAllocated[p] \in Int
      BY HeldIsInt, PartStockAssumption DEF PartInv, StockTypeOK, StockRows
  <2>7. stock[p].allocated + claimed[p]
          = InitialAllocated[p] + ledger[p].direct + HeldFor(p)
      BY <1>1 DEF PartInv, Balanced
  <2>8. claimed'[p] = claimed[p] + more
      BY <1>8, <2>3
  <2> QED
      BY <1>1, <2>3, <2>5, <2>6, <2>7, <2>8
<1> QED
    BY <1>9, <1>10, <1>11, <1>12, <1>13 DEF PartInv

LEMMA PatchKeeps ==
    ASSUME PartInv, NEW l \in PartLines, PatchLine(l)
    PROVE  PartInv'
<1>1. /\ Listed(l) /\ UNCHANGED <<stock, ledger, claimed, stale, req>>
    BY DEF PatchLine, StockAndLedger, Notes
<1>2. PICK required \in Nat : line' = [line EXCEPT ![l].required = required]
  <2>1. PICK required \in Amounts : line' = [line EXCEPT ![l].required = required]
      BY DEF PatchLine
  <2>2. required \in Nat
      BY PartStockAssumption DEF Amounts
  <2> QED
      BY <2>1, <2>2
<1>3. PICK row \in LineRows :
         /\ line' = [line EXCEPT ![l] = row]
         /\ row.status = line[l].status /\ row.part = line[l].part
         /\ row.allocated = line[l].allocated
         /\ row.pulled = line[l].pulled /\ row.installed = line[l].installed
  <2> DEFINE row == [line[l] EXCEPT !.required = required]
  <2>1. line \in [PartLines -> LineRows]
      BY DEF PartInv, StockTypeOK
  <2>2. line[l] \in LineRows
      BY <2>1
  <2>3. /\ row \in LineRows
        /\ row.status = line[l].status /\ row.part = line[l].part
        /\ row.allocated = line[l].allocated
        /\ row.pulled = line[l].pulled /\ row.installed = line[l].installed
      BY <2>2 DEF LineRows
  <2>4. line' = [line EXCEPT ![l] = row]
      BY <1>2, <2>1
  <2> QED
      BY <2>3, <2>4
<1>4. row.status # "ABSENT" /\ row.allocated >= 0
    BY <1>1, <1>3, LineFacts DEF Listed
<1>5. AllFit'
  <2>1. /\ line'[l] = row /\ \A m \in PartLines \ {l} : line'[m] = line[m]
        /\ Listed(l)'
      BY <1>1, <1>3, <1>4, LineWritten
  <2> QED
      BY <1>1, <1>3, <2>1, RequestsKeep
<1>6. req' \in [Workers -> StockRequests]
    BY <1>1 DEF PartInv, StockTypeOK
<1> QED
    BY <1>1, <1>3, <1>4, <1>5, <1>6, LineOnlyKeeps

LEMMA RollBackKeeps ==
    ASSUME PartInv, NEW w \in Workers, RollBackSale(w)
    PROVE  PartInv'
BY RestingFits, OnlyRequestMoves DEF RollBackSale

LEMMA PartStutter == ASSUME PartInv, UNCHANGED stockVars PROVE PartInv'
<1>1. UNCHANGED <<stock, ledger, line, claimed, stale, req>>
    BY DEF stockVars
<1>2. StockTypeOK' /\ LedgerAccountsForStock'
    BY <1>1 DEF PartInv, StockTypeOK, LedgerAccountsForStock
<1>3. /\ SoundLines' /\ \A p : HeldFor(p)' = HeldFor(p)
    BY <1>1, LinesUntouched
<1>4. Balanced'
    BY <1>1, <1>3 DEF PartInv, Balanced
<1>5. AllFit'
  <2> SUFFICES ASSUME NEW v \in Workers PROVE \E n : n = req'[v] /\ Fits(n)'
      BY AllFitNext
  <2>1. PICK r : r = req[v] /\ Fits(r)
      BY DEF PartInv, AllFit
  <2> QED
      BY <1>1, <2>1, FitsSame
<1> QED
    BY <1>2, <1>3, <1>4, <1>5 DEF PartInv

LEMMA StepPart == PartInv /\ [StockNext]_stockVars => PartInv'
<1> SUFFICES ASSUME PartInv, [StockNext]_stockVars PROVE PartInv'
    OBVIOUS
<1>1. ASSUME NEW w \in Workers, PartRequest(w) PROVE PartInv'
    BY <1>1, PartAsks, ReadPartKeeps, MutationKeeps, CountKeeps, RollBackKeeps DEF PartRequest
<1>2. ASSUME NEW w \in Workers, LineRequest(w) PROVE PartInv'
    BY <1>2, AllocateAsks, DeallocateAsks, IssueAsks, PullAsks, InstallAsks, StatusAsks,
       DeleteAsks, ReadLineKeeps, LineStockCommits, SpecialOrderKeeps, PullKeeps,
       InstallKeeps, StatusCommits, DeleteKeeps, LineGoneKeeps DEF LineRequest
<1>3. ASSUME NEW l \in PartLines, AddLine(l) \/ PatchLine(l) PROVE PartInv'
    BY <1>3, AddKeeps, PatchKeeps
<1>4. CASE UNCHANGED stockVars
    BY <1>4, PartStutter
<1> QED
    BY <1>1, <1>2, <1>3, <1>4 DEF StockNext

LEMMA PartInvariant == StockSpec => []PartInv
BY InitPart, StepPart, PTL DEF StockSpec

(* Every reachable state of parts, ledger, part lines and their requests    *)
(* is one the model describes.                                              *)
THEOREM PartsTyped == StockSpec => []StockTypeOK
<1>1. PartInv => StockTypeOK
    BY DEF PartInv
<1> QED
    BY <1>1, PartInvariant, PTL

(* Unless a request wrote over a part it had not read, the inventory ledger *)
(* explains what is on hand and what is reserved                            *)
(* (applyInventoryMutationWithTransaction).                                 *)
THEOREM LedgerAlwaysAccounts == StockSpec => []LedgerAccountsForStock
<1>1. PartInv => LedgerAccountsForStock
    BY DEF PartInv
<1> QED
    BY <1>1, PartInvariant, PTL

(* No sequence of allocating, issuing, cancelling and deleting leaks a      *)
(* reservation of a part whose writers had read it.                         *)
THEOREM ReservationsAlwaysBalance == StockSpec => []ReservationsBalance
<1>1. PartInv => ReservationsBalance
    BY BalancedIsBalance DEF PartInv
<1> QED
    BY <1>1, PartInvariant, PTL

-----------------------------------------------------------------------------
(* What one step may do to reserved stock and to what is installed.         *)
ReservedTaken ==
    \A p \in Parts :
       Shortage(stock'[p]) > 0 /\ Shortage(stock'[p]) > Shortage(stock[p])
         => \E w \in Workers :
               /\ Ends(w) /\ req[w].part = p
               /\ \/ ~req[w].fresh
                  \/ req[w].kind \in {"sale", "adjust"} /\ req[w].onHand < 0

Overinstalled ==
    \A l \in PartLines : Listed(l) /\ Overtops(l)
      => \E w \in Workers : Ends(w) /\ req[w].line = l /\ ~req[w].fresh

LEMMA SameStock == ASSUME PartInv, UNCHANGED stock PROVE ReservedTaken
<1>1. \A p \in Parts : Shortage(stock[p]) \in Int
    BY PartFacts DEF Shortage
<1> QED
    BY <1>1 DEF ReservedTaken

LEMMA SameLines ==
    ASSUME PartInv,
           \A l \in PartLines : Listed(l) => /\ line'[l].installed = line[l].installed
                                             /\ line'[l].pulled = line[l].pulled
    PROVE  Overinstalled
<1>1. \A l \in PartLines : line[l].installed \in Int /\ line[l].pulled \in Int
    BY LineFacts
<1> QED
    BY <1>1 DEF Overinstalled, Overtops

LEMMA BeginLeaves == ASSUME NEW w, NEW r, Begin(w, r) PROVE UNCHANGED <<stock, line>>
BY DEF Begin, StockAndLedger

LEMMA PartAsksLeave ==
    ASSUME NEW w \in Workers,
           \/ AdjustInventory(w) \/ ReceiveInventory(w) \/ AllocateInventory(w)
           \/ DeallocateInventory(w) \/ IssueInventory(w) \/ ReturnInventory(w)
           \/ DamageInventory(w) \/ CycleCountInventory(w) \/ SellPart(w)
           \/ ReadPart(w) \/ RollBackSale(w)
    PROVE  UNCHANGED <<stock, line>>
<1>1. CASE \/ AdjustInventory(w) \/ ReceiveInventory(w) \/ AllocateInventory(w)
           \/ DeallocateInventory(w) \/ IssueInventory(w)
    BY <1>1, BeginLeaves
       DEF AdjustInventory, ReceiveInventory, AllocateInventory, DeallocateInventory,
           IssueInventory, Ask
<1>2. CASE \/ ReturnInventory(w) \/ DamageInventory(w) \/ CycleCountInventory(w)
           \/ SellPart(w)
    BY <1>2, BeginLeaves
       DEF ReturnInventory, DamageInventory, CycleCountInventory, SellPart, Ask
<1>3. CASE ReadPart(w) \/ RollBackSale(w)
    BY <1>3, BeginLeaves DEF ReadPart, RollBackSale
<1> QED
    BY <1>1, <1>2, <1>3

LEMMA LineAsksLeave ==
    ASSUME NEW w \in Workers,
           \/ AllocateLine(w) \/ DeallocateLine(w) \/ IssueLine(w) \/ PullLine(w)
           \/ InstallLine(w) \/ StageLine(w) \/ MarkToBeOrdered(w) \/ CancelLine(w)
           \/ DeleteLine(w) \/ ReadLine(w) \/ LineGone(w)
    PROVE  UNCHANGED <<stock, line>>
<1>1. CASE AllocateLine(w) \/ DeallocateLine(w) \/ IssueLine(w) \/ PullLine(w)
    BY <1>1, BeginLeaves DEF AllocateLine, DeallocateLine, IssueLine, PullLine, AskLine
<1>2. CASE \/ InstallLine(w) \/ StageLine(w) \/ MarkToBeOrdered(w) \/ CancelLine(w)
           \/ DeleteLine(w)
    BY <1>2, BeginLeaves
       DEF InstallLine, StageLine, MarkToBeOrdered, CancelLine, DeleteLine, AskLine
<1>3. CASE ReadLine(w) \/ LineGone(w)
    BY <1>3, BeginLeaves DEF ReadLine, LineGone
<1> QED
    BY <1>1, <1>2, <1>3

LEMMA CompleteEnds ==
    ASSUME NEW w \in Workers, NEW p, NEW l, Complete(w, p, l), req[w].at # "idle"
    PROVE  Ends(w)
<1>1. req'[w] = Resting
    BY DEF Complete
<1> QED
    BY <1>1, RestingFits DEF Ends

(* A fresh request adds to the shortage only what its kind allows.          *)
LEMMA MutationTakes ==
    ASSUME PartInv, NEW w \in Workers, NEW r \in StockRequests, r = req[w], Fits(r),
           r.at = "read", r.kind \in {"adjust", "mutate", "sale"} \cup OrderKinds,
           MutatePart(r), Ends(w)
    PROVE  ReservedTaken
<1> SUFFICES ASSUME NEW p \in Parts, Shortage(stock'[p]) > 0,
                    Shortage(stock'[p]) > Shortage(stock[p]),
                    p = r.part => r.fresh = TRUE
             PROVE  p = r.part /\ r.kind \in {"sale", "adjust"} /\ r.onHand < 0
    BY DEF ReservedTaken, StockRequests
<1>1. stock[p].onHand \in Int /\ stock[p].allocated \in Int
    BY PartFacts
<1>2. Shortage(stock[p]) \in Int
    BY <1>1 DEF Shortage
<1>3. p = r.part
  <2>1. p # r.part => stock'[p] = stock[p]
      BY StockWritten
  <2> QED
      BY <1>2, <2>1
<1>4. /\ r.onHand \in Int /\ r.allocated \in Int
      /\ stock'[p].onHand = stock[p].onHand + r.onHand
      /\ stock'[p].allocated = stock[p].allocated + r.allocated
    BY <1>3, StockWritten
<1>5. ~(r.allocated <= r.onHand)
    BY <1>1, <1>4 DEF Shortage
<1>6. ~(stock[p].allocated + r.allocated <= stock[p].onHand + r.onHand)
    BY <1>1, <1>4 DEF Shortage
<1>7. r.kind \notin {"mutate"} \cup OrderKinds
    BY <1>3, <1>5, <1>6, StockroomAssumption DEF Fits, SeesStock
<1>8. r.allocated = 0
    BY <1>7 DEF Fits, Formed
<1> QED
    BY <1>3, <1>4, <1>5, <1>7, <1>8

LEMMA CountTakes ==
    ASSUME PartInv, NEW w \in Workers, CommitCount(w)
    PROVE  ReservedTaken
<1>1. PICK r \in StockRequests : r = req[w] /\ Fits(r)
    BY DEF PartInv, StockTypeOK, AllFit
<1>2. /\ r.at = "read" /\ r.kind = "count" /\ Complete(w, r.part, None)
      /\ stock' = [stock EXCEPT ![r.part].onHand = r.onHand]
    BY <1>1 DEF CommitCount
<1>3. r.part \in Parts /\ r.onHand \in Int
    BY <1>1, <1>2 DEF Fits, Formed, PartKinds, StockRequests
<1>4. Ends(w)
    BY <1>1, <1>2, CompleteEnds
<1>5. stock \in [Parts -> StockRows]
    BY DEF PartInv, StockTypeOK
<1> SUFFICES ASSUME NEW p \in Parts, Shortage(stock'[p]) > 0,
                    Shortage(stock'[p]) > Shortage(stock[p])
             PROVE  p = r.part /\ ~r.fresh
    BY <1>1, <1>4 DEF ReservedTaken
<1>6. Shortage(stock[p]) \in Int
    BY PartFacts DEF Shortage
<1>7. p = r.part
    BY <1>2, <1>5, <1>6
<1>8. stock'[p].onHand = r.onHand /\ stock'[p].allocated = stock[p].allocated
    BY <1>2, <1>5, <1>7 DEF StockRows
<1>9. ~(stock[p].allocated <= r.onHand)
    BY <1>3, <1>8, PartFacts DEF Shortage
<1> QED
    BY <1>1, <1>2, <1>7, <1>9 DEF Fits, SeesStock

LEMMA WritersTake ==
    ASSUME PartInv, NEW w \in Workers,
           CommitMutation(w) \/ CommitAllocate(w) \/ CommitDeallocate(w) \/ CommitIssue(w)
    PROVE  ReservedTaken
<1>1. PICK r \in StockRequests : r = req[w] /\ Fits(r)
    BY DEF PartInv, StockTypeOK, AllFit
<1>2. /\ r.at = "read" /\ r.kind \in {"adjust", "mutate", "sale"} \cup OrderKinds
      /\ MutatePart(r) /\ \E p, l : Complete(w, p, l)
    BY <1>1 DEF CommitMutation, CommitAllocate, CommitDeallocate, CommitIssue,
                CommitLineStock, OrderKinds
<1>3. Ends(w)
    BY <1>1, <1>2, CompleteEnds
<1> QED
    BY <1>1, <1>2, <1>3, MutationTakes

LEMMA StepTakes == PartInv /\ [StockNext]_stockVars => [ReservedTaken]_stockVars
<1> SUFFICES ASSUME PartInv, StockNext PROVE ReservedTaken
    OBVIOUS
<1>1. ASSUME NEW w \in Workers, PartRequest(w) PROVE ReservedTaken
    BY <1>1, PartAsksLeave, SameStock, CountTakes, WritersTake DEF PartRequest
<1>2. ASSUME NEW w \in Workers, LineRequest(w) PROVE ReservedTaken
  <2>1. CASE \/ CommitSpecialOrder(w) \/ CommitPull(w) \/ CommitInstall(w)
             \/ CommitStage(w) \/ CommitToBeOrdered(w) \/ CommitCancelLine(w)
             \/ CommitDelete(w)
    <3>1. UNCHANGED stock
        BY <2>1 DEF CommitSpecialOrder, CommitPull, CommitInstall, CommitStage,
                    CommitToBeOrdered, CommitCancelLine, CommitDelete, CommitStatus,
                    StockAndLedger
    <3> QED
        BY <3>1, SameStock
  <2>2. CASE CommitAllocate(w) \/ CommitDeallocate(w) \/ CommitIssue(w)
      BY <2>2, WritersTake
  <2>3. CASE \/ AllocateLine(w) \/ DeallocateLine(w) \/ IssueLine(w) \/ PullLine(w)
             \/ InstallLine(w) \/ StageLine(w) \/ MarkToBeOrdered(w) \/ CancelLine(w)
             \/ DeleteLine(w) \/ ReadLine(w) \/ LineGone(w)
      BY <2>3, LineAsksLeave, SameStock
  <2> QED
      BY <1>2, <2>1, <2>2, <2>3 DEF LineRequest
<1>3. ASSUME NEW l \in PartLines, AddLine(l) \/ PatchLine(l) PROVE ReservedTaken
    BY <1>3, SameStock DEF AddLine, PatchLine, StockAndLedger
<1> QED
    BY <1>1, <1>2, <1>3 DEF StockNext

(* Reserved stock is taken, or more is reserved than there is, by nobody    *)
(* but counter sales, adjustments downwards and requests that had been      *)
(* overtaken (the checks of the inventory and part line services).          *)
THEOREM OnlySalesAndAdjustmentsTake == StockSpec => OnlySalesAndAdjustmentsTakeReserved
<1>1. PartInv /\ [StockNext]_stockVars => [ReservedTaken]_stockVars
    BY StepTakes
<1>2. StockSpec => [][ReservedTaken]_stockVars
    BY <1>1, PartInvariant, PTL DEF StockSpec
<1> QED
    BY <1>2 DEF OnlySalesAndAdjustmentsTakeReserved, ReservedTaken

-----------------------------------------------------------------------------
LEMMA WrittenLine ==
    ASSUME PartInv, NEW m \in PartLines, NEW row, line' = [line EXCEPT ![m] = row]
    PROVE  line'[m] = row /\ \A l \in PartLines : l # m => line'[l] = line[l]
BY DEF PartInv, StockTypeOK

(* A write of one line that does not lower what was pulled or issued, and   *)
(* installs no more than that, when its request is fresh.                   *)
LEMMA FreshWriteFits ==
    ASSUME PartInv, NEW w \in Workers, NEW r \in StockRequests, r = req[w],
           r.line \in PartLines, Ends(w),
           \A l \in PartLines : l # r.line => line'[l] = line[l],
           r.fresh = TRUE =>
              \/ /\ line'[r.line].installed = line[r.line].installed
                 /\ line'[r.line].pulled >= line[r.line].pulled
              \/ line'[r.line].installed <= line'[r.line].pulled
                    /\ line'[r.line].installed \in Int /\ line'[r.line].pulled \in Int,
           line'[r.line].pulled \in Int
    PROVE  Overinstalled
<1> SUFFICES ASSUME NEW l \in PartLines, Listed(l), Overtops(l)
             PROVE  l = r.line /\ ~r.fresh
    BY DEF Overinstalled
<1>1. /\ line[l].installed \in Int /\ line[l].pulled \in Int
    BY LineFacts
<1>2. l = r.line
    BY <1>1 DEF Overtops
<1>3. CASE r.fresh = TRUE
    BY <1>1, <1>2, <1>3 DEF Overtops
<1> QED
    BY <1>2, <1>3 DEF StockRequests

LEMMA IssueFits ==
    ASSUME PartInv, NEW w \in Workers, CommitIssue(w)
    PROVE  Overinstalled
<1>1. PICK r \in StockRequests : r = req[w] /\ Fits(r)
    BY DEF PartInv, StockTypeOK, AllFit
<1>2. /\ r.at = "read" /\ r.kind = "issue" /\ Complete(w, r.part, r.line)
      /\ line' = [line EXCEPT ![r.line] = [Released(r) EXCEPT !.pulled = r.after.pulled]]
    BY <1>1 DEF CommitIssue, CommitLineStock
<1>3. r.line \in PartLines /\ r.after.pulled \in Int
    BY <1>1, <1>2 DEF Fits, Formed, OrderKinds, StockRequests
<1>4. Ends(w)
    BY <1>1, <1>2, CompleteEnds
<1>5. PICK row \in LineRows : row = Released(r) /\ row.installed = line[r.line].installed
    BY <1>3, ReleasedRow
<1>6. PICK new : new = [row EXCEPT !.pulled = r.after.pulled]
    OBVIOUS
<1>7. new.installed = line[r.line].installed /\ new.pulled = r.after.pulled
    BY <1>5, <1>6 DEF LineRows
<1>8. line'[r.line] = new /\ \A l \in PartLines : l # r.line => line'[l] = line[l]
    BY <1>2, <1>3, <1>5, <1>6, WrittenLine
<1>9. r.fresh = TRUE => r.after.pulled >= line[r.line].pulled
    BY <1>1, <1>2, <1>3, PartStockAssumption DEF Fits, SeesLine
<1> QED
    BY <1>1, <1>3, <1>4, <1>7, <1>8, <1>9, FreshWriteFits

LEMMA PullFits ==
    ASSUME PartInv, NEW w \in Workers, CommitPull(w)
    PROVE  Overinstalled
<1>1. PICK r \in StockRequests : r = req[w] /\ Fits(r)
    BY DEF PartInv, StockTypeOK, AllFit
<1>2. /\ r.at = "read" /\ r.kind = "pull" /\ Complete(w, None, r.line)
      /\ line' = [line EXCEPT ![r.line].pulled = r.after.pulled,
                              ![r.line].status = r.after.status]
    BY <1>1 DEF CommitPull
<1>3. r.line \in PartLines /\ r.after.pulled \in Int
    BY <1>1, <1>2 DEF Fits, Formed, LineKinds, StockRequests
<1>4. Ends(w)
    BY <1>1, <1>2, CompleteEnds
<1>5. line \in [PartLines -> LineRows]
    BY DEF PartInv, StockTypeOK
<1>6. /\ line'[r.line].installed = line[r.line].installed
      /\ line'[r.line].pulled = r.after.pulled
      /\ \A l \in PartLines : l # r.line => line'[l] = line[l]
    BY <1>2, <1>3, <1>5 DEF LineRows
<1>7. r.fresh = TRUE => r.after.pulled >= line[r.line].pulled
    BY <1>1, <1>2, <1>3, PartStockAssumption DEF Fits, SeesLine
<1> QED
    BY <1>1, <1>3, <1>4, <1>6, <1>7, FreshWriteFits

LEMMA InstallFits ==
    ASSUME PartInv, NEW w \in Workers, CommitInstall(w)
    PROVE  Overinstalled
<1>1. PICK r \in StockRequests : r = req[w] /\ Fits(r)
    BY DEF PartInv, StockTypeOK, AllFit
<1>2. /\ r.at = "checked" /\ r.kind = "install" /\ Complete(w, None, r.line)
      /\ line' = [line EXCEPT ![r.line].installed = r.after.installed,
                              ![r.line].status = r.after.status]
    BY <1>1 DEF CommitInstall
<1>3. r.line \in PartLines /\ r.after.installed \in Int
    BY <1>1, <1>2 DEF Fits, Formed, LineKinds, StockRequests
<1>4. Ends(w)
    BY <1>1, <1>2, CompleteEnds
<1>5. line \in [PartLines -> LineRows]
    BY DEF PartInv, StockTypeOK
<1>6. /\ line'[r.line].installed = r.after.installed
      /\ line'[r.line].pulled = line[r.line].pulled /\ line[r.line].pulled \in Int
      /\ \A l \in PartLines : l # r.line => line'[l] = line[l]
    BY <1>2, <1>3, <1>5 DEF LineRows
<1>7. r.fresh = TRUE => r.after.installed <= line[r.line].pulled
    BY <1>1, <1>2, <1>3, PartStockAssumption DEF Fits, SeesLine
<1> QED
    BY <1>1, <1>3, <1>4, <1>6, <1>7, FreshWriteFits

(* The writes of a line that leave both quantities alone, or set both to 0. *)
LEMMA ReleaseFits ==
    ASSUME PartInv, NEW w \in Workers,
           CommitAllocate(w) \/ CommitDeallocate(w) \/ CommitSpecialOrder(w)
    PROVE  Overinstalled
<1>1. PICK r \in StockRequests : r = req[w] /\ Fits(r)
    BY DEF PartInv, StockTypeOK, AllFit
<1>2. r.kind \in OrderKinds /\ line' = [line EXCEPT ![r.line] = Released(r)]
    BY <1>1 DEF CommitAllocate, CommitDeallocate, CommitSpecialOrder, CommitLineStock,
                OrderKinds
<1>3. r.line \in PartLines
    BY <1>1, <1>2 DEF Fits, Formed
<1>4. PICK row : /\ row = Released(r) /\ row.installed = line[r.line].installed
                 /\ row.pulled = line[r.line].pulled
    BY <1>3, ReleasedRow
<1>5. line'[r.line] = row /\ \A l \in PartLines : l # r.line => line'[l] = line[l]
    BY <1>2, <1>3, <1>4, WrittenLine
<1>6. \A l \in PartLines : /\ line'[l].installed = line[l].installed
                           /\ line'[l].pulled = line[l].pulled
    BY <1>4, <1>5
<1> QED
    BY <1>6, SameLines

LEMMA StatusFits ==
    ASSUME PartInv, NEW w \in Workers,
           CommitStage(w) \/ CommitToBeOrdered(w) \/ CommitCancelLine(w)
    PROVE  Overinstalled
<1>1. \E newStatus : line' = [line EXCEPT ![req[w].line].status = newStatus]
    BY DEF CommitStage, CommitToBeOrdered, CommitCancelLine, CommitStatus
<1>2. line \in [PartLines -> LineRows]
    BY DEF PartInv, StockTypeOK
<1>3. \A l \in PartLines : /\ line'[l].installed = line[l].installed
                           /\ line'[l].pulled = line[l].pulled
    BY <1>1, <1>2 DEF LineRows
<1> QED
    BY <1>3, SameLines

LEMMA DeleteFits ==
    ASSUME PartInv, NEW w \in Workers, CommitDelete(w)
    PROVE  Overinstalled
<1>1. line' = [line EXCEPT ![req[w].line] = NoPartLine]
    BY DEF CommitDelete
<1>2. line \in [PartLines -> LineRows]
    BY DEF PartInv, StockTypeOK
<1>3. \A l \in PartLines : line'[l] = line[l] \/ line'[l] = NoPartLine
    BY <1>1, <1>2
<1>4. \A l \in PartLines : line[l].installed \in Int /\ line[l].pulled \in Int
    BY LineFacts
<1>5. NoPartLine.installed = 0 /\ NoPartLine.pulled = 0
    BY DEF NoPartLine
<1> QED
    BY <1>3, <1>4, <1>5 DEF Overinstalled, Overtops

LEMMA EditFits ==
    ASSUME PartInv, NEW l \in PartLines, AddLine(l) \/ PatchLine(l)
    PROVE  Overinstalled
<1>1. line \in [PartLines -> LineRows]
    BY DEF PartInv, StockTypeOK
<1>2. CASE AddLine(l)
  <2>1. ~Listed(l) /\ \E row : line' = [line EXCEPT ![l] = row]
      BY <1>2 DEF AddLine
  <2>2. \A m \in PartLines : Listed(m) => line'[m] = line[m]
      BY <1>1, <2>1
  <2> QED
      BY <2>2, SameLines
<1>3. CASE PatchLine(l)
  <2>1. \E required : line' = [line EXCEPT ![l].required = required]
      BY <1>3 DEF PatchLine
  <2>2. \A m \in PartLines : /\ line'[m].installed = line[m].installed
                             /\ line'[m].pulled = line[m].pulled
      BY <1>1, <2>1 DEF LineRows
  <2> QED
      BY <2>2, SameLines
<1> QED
    BY <1>2, <1>3

LEMMA StepInstalls == PartInv /\ [StockNext]_stockVars => [Overinstalled]_stockVars
<1> SUFFICES ASSUME PartInv, StockNext PROVE Overinstalled
    OBVIOUS
<1>1. ASSUME UNCHANGED line PROVE Overinstalled
    BY <1>1, SameLines
<1>2. ASSUME NEW w \in Workers, PartRequest(w) PROVE Overinstalled
  <2>1. UNCHANGED line
      BY <1>2, PartAsksLeave DEF PartRequest, CommitMutation, CommitCount
  <2> QED
      BY <1>1, <2>1
<1>3. ASSUME NEW w \in Workers, LineRequest(w) PROVE Overinstalled
  <2>1. CASE \/ AllocateLine(w) \/ DeallocateLine(w) \/ IssueLine(w) \/ PullLine(w)
             \/ InstallLine(w) \/ StageLine(w) \/ MarkToBeOrdered(w) \/ CancelLine(w)
             \/ DeleteLine(w) \/ ReadLine(w) \/ LineGone(w)
      BY <1>1, <2>1, LineAsksLeave
  <2>2. CASE CommitAllocate(w) \/ CommitDeallocate(w) \/ CommitSpecialOrder(w)
      BY <2>2, ReleaseFits
  <2>3. CASE CommitStage(w) \/ CommitToBeOrdered(w) \/ CommitCancelLine(w)
      BY <2>3, StatusFits
  <2>4. CASE CommitIssue(w) \/ CommitPull(w) \/ CommitInstall(w) \/ CommitDelete(w)
      BY <2>4, IssueFits, PullFits, InstallFits, DeleteFits
  <2> QED
      BY <1>3, <2>1, <2>2, <2>3, <2>4 DEF LineRequest
<1>4. ASSUME NEW l \in PartLines, AddLine(l) \/ PatchLine(l) PROVE Overinstalled
    BY <1>4, EditFits
<1> QED
    BY <1>2, <1>3, <1>4 DEF StockNext

(* No request leaves more of a line installed than was pulled or issued for *)
(* it, but one that had been overtaken (installRepairOrderPart,             *)
(* pullRepairOrderPart and issueRepairOrderPart).                           *)
THEOREM InstallsStayWithinPulled == StockSpec => InstalledWithinPulled
<1>1. PartInv /\ [StockNext]_stockVars => [Overinstalled]_stockVars
    BY StepInstalls
<1>2. StockSpec => [][Overinstalled]_stockVars
    BY <1>1, PartInvariant, PTL DEF StockSpec
<1> QED
    BY <1>2 DEF InstalledWithinPulled, Overinstalled

-----------------------------------------------------------------------------

(* The shape of a request; of what it has read of the shelf and of linked   *)
(* lines, which are sums, the arguments say nothing.                        *)
OrderShape(r) ==
    \/ r \in [at : {"editing"}, order : Orders, lines : LineInputs]
    \/ r \in [at : {"receiving"}, order : Orders, units : [Slots -> Nat]]
    \/ r \in [at : {"ordering", "cancelling"}, order : Orders, seen : POs]
    \/ r \in [at : {"read", "counted"}, kind : {"order", "receive", "cancel"}, order : Orders,
              seen : POs, units : [Slots -> Nat], shelf : {r.shelf}, links : {r.links},
              all : BOOLEAN, rows : {r.rows}]

ReturnShape(r) ==
    \/ r \in [at : {"amending"}, ret : Returns, edit : EditInputs]
    \/ r \in [at : {"shipping", "closingVendor", "archiving"}, ret : Returns]
    \/ r \in [at : {"crediting"}, ret : Returns, credit : {"PENDING", "RECEIVED"}]
    \/ r \in [at : {"closing"}, ret : Returns, qty : 1 .. MaxReturned]
    \/ r \in [at : {"claimed"}, ret : Returns, qty : 1 .. MaxReturned, shelf : {r.shelf},
              rows : {{r.ret}}]

Shaped(r) == r = Idle \/ OrderShape(r) \/ ReturnShape(r)

Shapes ==
    /\ po \in [Orders -> POs]
    /\ receipts \in [Orders -> [Slots -> Nat]]
    /\ RetTypeOK
    /\ overlapped \in BOOLEAN
    /\ req = [w \in Workers |-> req[w]]
    /\ \A w \in Workers : Shaped(req[w])

OrderAt == {"editing", "receiving", "ordering", "cancelling", "read", "counted"}
ReturnAt == {"amending", "shipping", "closingVendor", "archiving", "crediting", "closing",
             "claimed"}

LEMMA ShapeOfOrderRequest ==
    ASSUME NEW r, Shaped(r), r.at \in OrderAt
    PROVE  /\ r # Idle /\ r.order \in Orders
           /\ r.at = "editing" => r.lines \in LineInputs
           /\ r.at \in {"receiving", "read", "counted"} => r.units \in [Slots -> Nat]
           /\ r.at \in {"ordering", "cancelling", "read", "counted"} => r.seen \in POs
           /\ r.at \in {"read", "counted"} =>
                 /\ r.kind \in {"order", "receive", "cancel"}
                 /\ r.all \in BOOLEAN
                 /\ r \in [at : {"read", "counted"}, kind : {"order", "receive", "cancel"},
                           order : Orders, seen : POs, units : [Slots -> Nat],
                           shelf : {r.shelf}, links : {r.links}, all : BOOLEAN,
                           rows : {r.rows}]
<1> USE DEF OrderAt
<1>1. r # Idle
    BY DEF Idle
<1>2. ~ReturnShape(r)
    BY DEF ReturnShape
<1>3. OrderShape(r)
    BY <1>1, <1>2 DEF Shaped
<1> QED
    BY <1>1, <1>3 DEF OrderShape

LEMMA ShapeOfReturnRequest ==
    ASSUME NEW r, Shaped(r), r.at \in ReturnAt
    PROVE  /\ r # Idle /\ r.ret \in Returns
           /\ r.at = "amending" => r.edit \in EditInputs
           /\ r.at = "crediting" => r.credit \in {"PENDING", "RECEIVED"}
           /\ r.at \in {"closing", "claimed"} => r.qty \in 1 .. MaxReturned
           /\ r.at = "claimed" => r.rows = {r.ret}
<1> USE DEF ReturnAt
<1>1. r # Idle
    BY DEF Idle
<1>2. ~OrderShape(r)
    BY DEF OrderShape
<1>3. ReturnShape(r)
    BY <1>1, <1>2 DEF Shaped
<1> QED
    BY <1>1, <1>3 DEF ReturnShape

LEMMA InitShapes == Init => Shapes
<1> SUFFICES ASSUME Init PROVE Shapes
    OBVIOUS
<1>1. NoOrder \in POs
    BY PurchaseOrderAssumption DEF NoOrder, NoLine, POs, Lines
<1>2. NoReturn \in ReturnRows
    BY PartReturnAssumption DEF NoReturn, ReturnRows, ReturnTypes
<1> QED
    BY <1>1, <1>2 DEF Init, ShelfInit, POInit, RetInit, Shapes, RetTypeOK, Shaped

(* A request begins or moves, or ends.                                      *)
LEMMA RequestMoves ==
    ASSUME Shapes, NEW w \in Workers, NEW r, Shaped(r), req' = [req EXCEPT ![w] = r]
    PROVE  /\ req' = [v \in Workers |-> req'[v]]
           /\ \A v \in Workers : Shaped(req'[v])
           /\ req'[w] = r
           /\ \A v \in Workers : v # w => req'[v] = req[v]
BY DEF Shapes

LEMMA IdleShaped == Shaped(Idle)
BY DEF Shaped

(* What the steps of an order do to orders and requests.                    *)
LEMMA HaveReadMoves ==
    ASSUME Shapes, NEW w \in Workers, NEW kind \in {"order", "receive", "cancel"},
           NEW seen \in POs, NEW qty \in [Slots -> Nat], req[w].at \in OrderAt,
           HaveRead(w, kind, seen, qty)
    PROVE  /\ req' = [v \in Workers |-> req'[v]]
           /\ \A v \in Workers : Shaped(req'[v])
           /\ \A v \in Workers : v # w => req'[v] = req[v]
           /\ req'[w].at = "read" /\ req'[w].kind = kind /\ req'[w].order = req[w].order
           /\ req'[w].seen = seen /\ req'[w].units = qty
           /\ req'[w].shelf = ReadShelf /\ req'[w].links = link
<1> DEFINE r == [at |-> "read", kind |-> kind, order |-> req[w].order, seen |-> seen,
                 units |-> qty, shelf |-> ReadShelf, links |-> link,
                 all |-> FALSE, rows |-> {}]
<1>1. req[w].order \in Orders
    BY ShapeOfOrderRequest DEF Shapes
<1>2. r \in [at : {"read", "counted"}, kind : {"order", "receive", "cancel"}, order : Orders,
             seen : POs, units : [Slots -> Nat], shelf : {r.shelf}, links : {r.links},
             all : BOOLEAN, rows : {r.rows}]
    BY <1>1
<1>3. Shaped(r)
    BY <1>2 DEF Shaped, OrderShape
<1>4. req' = [req EXCEPT ![w] = r]
    BY DEF HaveRead
<1>5. /\ r.at = "read" /\ r.kind = kind /\ r.order = req[w].order
      /\ r.seen = seen /\ r.units = qty
      /\ r.shelf = ReadShelf /\ r.links = link
    OBVIOUS
<1> HIDE DEF r
<1> QED
    BY <1>3, <1>4, <1>5, RequestMoves
LEMMA FinishMoves ==
    ASSUME Shapes, NEW w \in Workers, Finish(w)
    PROVE  /\ req' = [v \in Workers |-> req'[v]]
           /\ \A v \in Workers : Shaped(req'[v])
           /\ req'[w] = Idle
           /\ \A v \in Workers : v # w => req'[v] = req[v]
BY IdleShaped, RequestMoves DEF Finish

(* Counting keeps the request and adds what it has counted.                 *)
LEMMA CountedMoves ==
    ASSUME Shapes, NEW w \in Workers, CountReceived(w)
    PROVE  /\ req' = [v \in Workers |-> req'[v]]
           /\ \A v \in Workers : Shaped(req'[v])
           /\ \A v \in Workers : v # w => req'[v] = req[v]
           /\ req[w].at = "read" /\ req[w].kind = "receive"
           /\ req'[w].at = "counted" /\ req'[w].kind = "receive"
           /\ req'[w].order = req[w].order /\ req'[w].seen = req[w].seen
           /\ req'[w].units = req[w].units
           /\ req'[w].shelf = req[w].shelf /\ req'[w].links = req[w].links
           /\ req'[w].all <=> \A s \in Slots :
                 (IF s \in TouchedSlots(req[w]) THEN Received(req[w], s)
                  ELSE po[req[w].order].lines[s].received) >= po[req[w].order].lines[s].ordered
<1> DEFINE c == req[w]
           all == \A s \in Slots :
                 (IF s \in TouchedSlots(req[w]) THEN Received(req[w], s)
                  ELSE po[req[w].order].lines[s].received) >= po[req[w].order].lines[s].ordered
           r == [c EXCEPT !.at = "counted", !.rows = RowsOf(c), !.all = all]
<1>1. c.at = "read" /\ c.kind = "receive" /\ req' = [req EXCEPT ![w] = r]
    BY DEF CountReceived
<1>2. c \in [at : {"read", "counted"}, kind : {"order", "receive", "cancel"}, order : Orders,
             seen : POs, units : [Slots -> Nat], shelf : {c.shelf}, links : {c.links},
             all : BOOLEAN, rows : {c.rows}]
    BY <1>1, ShapeOfOrderRequest DEF Shapes, OrderAt
<1>3. all \in BOOLEAN
    OBVIOUS
<1> HIDE DEF all, c
<1>4. /\ r \in [at : {"read", "counted"}, kind : {"order", "receive", "cancel"}, order : Orders,
                seen : POs, units : [Slots -> Nat], shelf : {r.shelf}, links : {r.links},
                all : BOOLEAN, rows : {r.rows}]
      /\ r.at = "counted" /\ r.kind = "receive" /\ r.order = c.order /\ r.seen = c.seen
      /\ r.units = c.units /\ r.all = all /\ r.shelf = c.shelf /\ r.links = c.links
    BY <1>1, <1>2, <1>3
<1>5. Shaped(r)
    BY <1>4 DEF Shaped, OrderShape
<1> HIDE DEF r
<1>6. /\ req' = [v \in Workers |-> req'[v]]
      /\ \A v \in Workers : Shaped(req'[v])
      /\ req'[w] = r
      /\ \A v \in Workers : v # w => req'[v] = req[v]
    BY <1>1, <1>5, RequestMoves
<1> QED
    BY <1>1, <1>4, <1>6 DEF all, c

LEMMA NoteIsBoolean ==
    ASSUME NEW fresh, overlapped \in BOOLEAN, Note(fresh)
    PROVE  overlapped' \in BOOLEAN
BY DEF Note

(* What a commit stores of an order is an order.                            *)
LEMMA StatusStored ==
    ASSUME NEW rows \in [Orders -> POs], NEW o \in Orders, NEW st \in POStatuses
    PROVE  [rows EXCEPT ![o].status = st] \in [Orders -> POs]
BY DEF POs

LEMMA LinesStored ==
    ASSUME NEW rows \in [Orders -> POs], NEW o \in Orders, NEW lines \in [Slots -> Lines]
    PROVE  [rows EXCEPT ![o].lines = lines] \in [Orders -> POs]
BY DEF POs

LEMMA PurchaseOrderShapes ==
    ASSUME Shapes, PurchaseOrderStep PROVE Shapes'
<1> USE DEF OrderAt
<1>0. RetTypeOK'
    BY DEF PurchaseOrderStep, Shapes, RetTypeOK, retVars
<1>1. ASSUME NEW o \in Orders, NEW lines \in LineInputs, CreateDraft(o, lines)
      PROVE  Shapes'
  <2>1. lines \in [Slots -> Lines]
      BY PurchaseOrderAssumption
  <2>2. [status |-> "DRAFT", lines |-> lines] \in POs
      BY <2>1 DEF POs, POStatuses
  <2> QED
      BY <1>0, <1>1, <2>2 DEF CreateDraft, Shapes
<1>2. ASSUME NEW w \in Workers, NEW r, req' = [req EXCEPT ![w] = r], OrderShape(r),
             UNCHANGED <<overlapped, po, receipts>>
      PROVE  Shapes'
    BY <1>0, <1>2, RequestMoves DEF Shapes, Shaped
<1>3. ASSUME NEW w \in Workers, NEW o \in Orders, CheckOrder(w, o) \/ CheckCancel(w, o)
      PROVE  Shapes'
  <2> DEFINE r == [at |-> IF CheckOrder(w, o) THEN "ordering" ELSE "cancelling", order |-> o,
                   seen |-> po[o]]
  <2>1. req' = [req EXCEPT ![w] = r] /\ UNCHANGED <<overlapped, po, receipts>>
    <3>1. CASE CheckOrder(w, o)
        BY <3>1 DEF CheckOrder, poVars
    <3>2. CASE ~CheckOrder(w, o)
        BY <1>3, <3>2 DEF CheckCancel, poVars
    <3> QED
        BY <3>1, <3>2
  <2>2. OrderShape(r)
      BY DEF OrderShape, Shapes
  <2> HIDE DEF r
  <2> QED
      BY <1>2, <2>1, <2>2
<1>4. ASSUME NEW w \in Workers, NEW o \in Orders, NEW lines \in LineInputs,
             CheckEdit(w, o, lines)
      PROVE  Shapes'
  <2>1. OrderShape([at |-> "editing", order |-> o, lines |-> lines])
      BY DEF OrderShape
  <2> QED
      BY <1>2, <1>4, <2>1 DEF CheckEdit, poVars
<1>5. ASSUME NEW w \in Workers, NEW o \in Orders, NEW qty \in Deliveries,
             CheckReceive(w, o, qty)
      PROVE  Shapes'
  <2>1. OrderShape([at |-> "receiving", order |-> o, units |-> qty])
      BY PurchaseOrderAssumption DEF OrderShape, Deliveries
  <2> QED
      BY <1>2, <1>5, <2>1 DEF CheckReceive, poVars
<1>6. ASSUME NEW w \in Workers, CommitEdit(w)
      PROVE  Shapes'
  <2>1. req[w].order \in Orders /\ req[w].lines \in [Slots -> Lines]
      BY <1>6, ShapeOfOrderRequest, PurchaseOrderAssumption DEF CommitEdit, Shapes
  <2>2. po' \in [Orders -> POs]
      BY <1>6, <2>1, LinesStored DEF CommitEdit, Shapes
  <2> QED
      BY <1>0, <1>6, <2>2, FinishMoves DEF CommitEdit, Shapes
<1>7. ASSUME NEW w \in Workers, ReadForOrder(w)
      PROVE  Shapes'
  <2>1. req[w].seen \in POs
      BY <1>7, ShapeOfOrderRequest DEF ReadForOrder, Shapes
  <2>2. [s \in Slots |-> req[w].seen.lines[s].ordered] \in [Slots -> Nat]
      BY <2>1, PurchaseOrderAssumption DEF POs, Lines
  <2> QED
      BY <1>0, <1>7, <2>1, <2>2, HaveReadMoves DEF ReadForOrder, Shapes, poVars
<1>8. ASSUME NEW w \in Workers, CommitOrder(w)
      PROVE  Shapes'
  <2>1. req[w].order \in Orders
      BY <1>8, ShapeOfOrderRequest DEF CommitOrder, Shapes
  <2>2. po' \in [Orders -> POs]
      BY <1>8, <2>1, StatusStored DEF CommitOrder, Shapes, POStatuses
  <2>3. overlapped' \in BOOLEAN /\ Finish(w) /\ receipts' = receipts
      BY <1>8 DEF CommitOrder, Note
  <2> QED
      BY <1>0, <2>2, <2>3, FinishMoves DEF Shapes
<1>9. ASSUME NEW w \in Workers, ReadForReceive(w)
      PROVE  Shapes'
  <2>1. req[w].order \in Orders /\ req[w].units \in [Slots -> Nat]
      BY <1>9, ShapeOfOrderRequest DEF ReadForReceive, Shapes
  <2>2. po[req[w].order] \in POs
      BY <2>1 DEF Shapes
  <2>3. CASE Finish(w)
      BY <1>0, <1>9, <2>3, FinishMoves DEF ReadForReceive, Shapes, poVars
  <2>4. CASE HaveRead(w, "receive", po[req[w].order], req[w].units)
      BY <1>0, <1>9, <2>1, <2>2, <2>4, HaveReadMoves DEF ReadForReceive, Shapes, poVars
  <2> QED
      BY <1>9, <2>3, <2>4 DEF ReadForReceive
<1>10. ASSUME NEW w \in Workers, CountReceived(w)
       PROVE  Shapes'
  <2>1. UNCHANGED <<overlapped, po, receipts>>
      BY <1>10 DEF CountReceived, poVars
  <2> QED
      BY <1>0, <1>10, <2>1, CountedMoves DEF Shapes
<1>11. ASSUME NEW w \in Workers, CommitReceive(w)
       PROVE  Shapes'
  <2>1. PICK r : r = req[w]
      OBVIOUS
  <2>2. /\ r.order \in Orders /\ r.units \in [Slots -> Nat] /\ r.seen \in POs
      BY <1>11, <2>1, ShapeOfOrderRequest DEF CommitReceive, Shapes
  <2>3. /\ po' = [po EXCEPT ![r.order].status = ReceiptStatus(r.all),
                            ![r.order].lines = [s \in Slots |->
                  IF s \in TouchedSlots(r) THEN [@[s] EXCEPT !.received = Received(r, s)]
                                           ELSE @[s]]]
        /\ receipts' = [receipts EXCEPT ![r.order] = [s \in Slots |-> @[s] + r.units[s]]]
        /\ overlapped' \in BOOLEAN
        /\ Finish(w)
      BY <1>11, <2>1 DEF CommitReceive, Note
  <2>4. \A s \in Slots : Received(r, s) \in Nat
      BY <2>2 DEF Received, POs, Lines
  <2>5. po[r.order] \in POs
      BY <2>2 DEF Shapes
  <2>6. ASSUME NEW s \in Slots
        PROVE  [po[r.order].lines[s] EXCEPT !.received = Received(r, s)] \in Lines
      BY <2>4, <2>5 DEF POs, Lines
  <2>7. [s \in Slots |-> IF s \in TouchedSlots(r)
                           THEN [po[r.order].lines[s] EXCEPT !.received = Received(r, s)]
                           ELSE po[r.order].lines[s]] \in [Slots -> Lines]
      BY <2>5, <2>6 DEF POs
  <2>8. ReceiptStatus(r.all) \in POStatuses
      BY DEF ReceiptStatus, POStatuses
  <2>9. po' \in [Orders -> POs]
      BY <2>2, <2>3, <2>7, <2>8 DEF POs, Shapes
  <2>10. receipts' \in [Orders -> [Slots -> Nat]]
      BY <2>2, <2>3 DEF Shapes
  <2> QED
      BY <1>0, <2>3, <2>9, <2>10, FinishMoves DEF Shapes
<1>12. ASSUME NEW w \in Workers, ReadForCancel(w)
       PROVE  Shapes'
  <2>1. req[w].seen \in POs
      BY <1>12, ShapeOfOrderRequest DEF ReadForCancel, Shapes
  <2>2. Outstanding(req[w].seen.lines) \in [Slots -> Nat]
      BY <2>1, PurchaseOrderAssumption DEF POs, Lines, Outstanding, Remaining
  <2> QED
      BY <1>0, <1>12, <2>1, <2>2, HaveReadMoves DEF ReadForCancel, Shapes, poVars
<1>13. ASSUME NEW w \in Workers, CommitCancel(w)
       PROVE  Shapes'
  <2>1. req[w].order \in Orders
      BY <1>13, ShapeOfOrderRequest DEF CommitCancel, Shapes
  <2>2. po' \in [Orders -> POs]
      BY <1>13, <2>1, StatusStored DEF CommitCancel, Shapes, POStatuses
  <2>3. overlapped' \in BOOLEAN /\ Finish(w) /\ receipts' = receipts
      BY <1>13 DEF CommitCancel, Note
  <2> QED
      BY <1>0, <2>2, <2>3, FinishMoves DEF Shapes
<1> QED
    BY <1>1, <1>3, <1>4, <1>5, <1>6, <1>7, <1>8, <1>9, <1>10, <1>11, <1>12, <1>13
    DEF PurchaseOrderStep

(* What a write that compares nothing does.                                 *)
LEMMA WriteMoves ==
    ASSUME Shapes, NEW w \in Workers, NEW at \in ReturnAt, NEW checked, NEW row \in ReturnRows,
           WriteReturn(w, at, checked, row)
    PROVE  /\ req' = [v \in Workers |-> req'[v]]
           /\ \A v \in Workers : Shaped(req'[v])
           /\ req'[w] = Idle
           /\ \A v \in Workers : v # w => req'[v] = req[v]
           /\ req[w].at = at /\ req[w].ret \in Returns
           /\ RowsFree({req[w].ret})
           /\ ret' = [ret EXCEPT ![req[w].ret] = row]
           /\ ret' \in [Returns -> ReturnRows]
           /\ restocks' = restocks
           /\ overlapped' \in BOOLEAN /\ (~overlapped' => ~overlapped)
<1>1. /\ Finish(w) /\ req[w].at = at /\ RowsFree({req[w].ret})
      /\ ret' = [ret EXCEPT ![req[w].ret] = row] /\ restocks' = restocks
      /\ overlapped' \in BOOLEAN /\ (~overlapped' => ~overlapped)
    BY DEF WriteReturn, Note
<1>2. req[w].ret \in Returns
    BY <1>1, ShapeOfReturnRequest DEF Shapes
<1>3. ret' \in [Returns -> ReturnRows]
    BY <1>1, <1>2 DEF Shapes, RetTypeOK
<1> QED
    BY <1>1, <1>2, <1>3, FinishMoves

LEMMA CheckMoves ==
    ASSUME Shapes, NEW w \in Workers, NEW r, NEW status, NEW record, Check(w, r, status, record),
           ReturnShape(record)
    PROVE  /\ req' = [v \in Workers |-> req'[v]]
           /\ \A v \in Workers : Shaped(req'[v])
           /\ req'[w] = record
           /\ \A v \in Workers : v # w => req'[v] = req[v]
           /\ ret[r].status = status
           /\ UNCHANGED <<ret, restocks, overlapped>>
<1>1. /\ req' = [req EXCEPT ![w] = record] /\ ret[r].status = status
      /\ UNCHANGED <<ret, restocks, overlapped>>
    BY DEF Check, retVars
<1> QED
    BY <1>1, RequestMoves DEF Shaped

(* The rows that the handlers store.                                        *)
LEMMA RowsStored ==
    ASSUME NEW row \in ReturnRows
    PROVE  /\ \A edit \in EditInputs : Edited(row, edit) \in ReturnRows
           /\ \A edit \in EditInputs : /\ Edited(row, edit).status = row.status
                                       /\ Edited(row, edit).part = row.part
           /\ [row EXCEPT !.status = "SHIPPED"] \in ReturnRows
           /\ [row EXCEPT !.status = "SHIPPED"].status = "SHIPPED"
           /\ [row EXCEPT !.status = "SHIPPED"].part = row.part
           /\ [row EXCEPT !.status = "CLOSED"] \in ReturnRows
           /\ [row EXCEPT !.status = "CLOSED"].status = "CLOSED"
           /\ [row EXCEPT !.status = "CLOSED"].part = row.part
           /\ [row EXCEPT !.active = FALSE] \in ReturnRows
           /\ [row EXCEPT !.active = FALSE].status = row.status
           /\ [row EXCEPT !.active = FALSE].part = row.part
<1>1. ASSUME NEW edit \in EditInputs
      PROVE  /\ Edited(row, edit) \in ReturnRows
             /\ Edited(row, edit).status = row.status /\ Edited(row, edit).part = row.part
  <2>1. edit \in Edits
      BY PartReturnAssumption
  <2> DEFINE type == IF edit.type = Keep THEN row.type ELSE edit.type
             vendor == IF edit.keepVendor THEN row.vendor ELSE edit.vendor
             qty == IF edit.qty = 0 THEN row.qty ELSE edit.qty
  <2>2. type \in ReturnTypes
      BY <2>1 DEF Edits, ReturnRows, ReturnTypes, Keep
  <2>3. vendor \in BOOLEAN
      BY <2>1 DEF Edits, ReturnRows
  <2>4. qty \in 1 .. MaxReturned
      BY <2>1, PartReturnAssumption DEF Edits, ReturnRows
  <2>5. Edited(row, edit) = [row EXCEPT !.type = type, !.vendor = vendor, !.qty = qty]
      BY DEF Edited
  <2> HIDE DEF type, vendor, qty
  <2> QED
      BY <2>2, <2>3, <2>4, <2>5 DEF ReturnRows
<1>2. /\ [row EXCEPT !.status = "SHIPPED"] \in ReturnRows
      /\ [row EXCEPT !.status = "SHIPPED"].status = "SHIPPED"
      /\ [row EXCEPT !.status = "SHIPPED"].part = row.part
      /\ [row EXCEPT !.status = "CLOSED"] \in ReturnRows
      /\ [row EXCEPT !.status = "CLOSED"].status = "CLOSED"
      /\ [row EXCEPT !.status = "CLOSED"].part = row.part
      /\ [row EXCEPT !.active = FALSE] \in ReturnRows
      /\ [row EXCEPT !.active = FALSE].status = row.status
      /\ [row EXCEPT !.active = FALSE].part = row.part
    BY DEF ReturnRows
<1> QED
    BY <1>1, <1>2

LEMMA PartReturnShapes ==
    ASSUME Shapes, PartReturnStep PROVE Shapes'
<1> USE DEF ReturnAt
<1>0. /\ po' \in [Orders -> POs] /\ receipts' \in [Orders -> [Slots -> Nat]]
    BY DEF PartReturnStep, Shapes, poVars
<1>1. ASSUME NEW r \in Returns, NEW type \in ReturnTypes, NEW vendor \in BOOLEAN,
             NEW p \in Parts, NEW q \in 1 .. MaxReturned, CreateReturn(r, type, vendor, p, q)
      PROVE  Shapes'
  <2>1. [NoReturn EXCEPT !.status = "PENDING", !.type = type, !.vendor = vendor, !.part = p,
                         !.qty = q] \in ReturnRows
      BY DEF NoReturn, ReturnRows
  <2> QED
      BY <1>0, <1>1, <2>1 DEF CreateReturn, Shapes, RetTypeOK
<1>2. ASSUME NEW w \in Workers, NEW r \in Returns, NEW status, NEW record,
             Check(w, r, status, record), ReturnShape(record)
      PROVE  Shapes'
  <2>1. /\ req' = [v \in Workers |-> req'[v]]
        /\ \A v \in Workers : Shaped(req'[v])
        /\ UNCHANGED <<ret, restocks, overlapped>>
      BY <1>2, CheckMoves
  <2> QED
      BY <1>0, <2>1 DEF Shapes, RetTypeOK
<1>3. ASSUME NEW w \in Workers, NEW r \in Returns, NEW edit \in EditInputs,
             CheckUpdate(w, r, edit)
      PROVE  Shapes'
  <2>1. ReturnShape([at |-> "amending", ret |-> r, edit |-> edit])
      BY DEF ReturnShape
  <2> QED
      BY <1>2, <1>3, <2>1 DEF CheckUpdate
<1>4. ASSUME NEW w \in Workers, NEW r \in Returns, NEW credit \in {"PENDING", "RECEIVED"},
             CheckCredit(w, r, credit)
      PROVE  Shapes'
  <2>1. ReturnShape([at |-> "crediting", ret |-> r, credit |-> credit])
      BY DEF ReturnShape
  <2> QED
      BY <1>2, <1>4, <2>1 DEF CheckCredit
<1>5. ASSUME NEW w \in Workers, NEW r \in Returns,
             CheckShip(w, r) \/ CheckCloseVendor(w, r) \/ CheckArchive(w, r)
      PROVE  Shapes'
  <2>1. /\ ReturnShape([at |-> "shipping", ret |-> r])
        /\ ReturnShape([at |-> "closingVendor", ret |-> r])
        /\ ReturnShape([at |-> "archiving", ret |-> r])
      BY DEF ReturnShape
  <2> QED
      BY <1>2, <1>5, <2>1 DEF CheckShip, CheckCloseVendor, CheckArchive
<1>6. ASSUME NEW w \in Workers, NEW r \in Returns, CheckClose(w, r)
      PROVE  Shapes'
  <2>1. ret[r].qty \in 1 .. MaxReturned
      BY DEF Shapes, RetTypeOK, ReturnRows
  <2>2. ReturnShape([at |-> "closing", ret |-> r, qty |-> ret[r].qty])
      BY <2>1 DEF ReturnShape
  <2> QED
      BY <1>2, <1>6, <2>2 DEF CheckClose
<1>7. ASSUME NEW w \in Workers, NEW at \in ReturnAt, NEW checked, NEW row \in ReturnRows,
             WriteReturn(w, at, checked, row)
      PROVE  Shapes'
    BY <1>0, <1>7, WriteMoves DEF Shapes, RetTypeOK
<1>8. ASSUME NEW w \in Workers, UpdateReturn(w)
      PROVE  Shapes'
  <2>1. ret[req[w].ret] \in ReturnRows /\ req[w].edit \in EditInputs
      BY <1>8, ShapeOfReturnRequest DEF UpdateReturn, WriteReturn, Shapes, RetTypeOK
  <2> QED
      BY <1>7, <1>8, <2>1, RowsStored DEF UpdateReturn
<1>9. ASSUME NEW w \in Workers, ShipReturn(w)
      PROVE  Shapes'
  <2>1. ret[req[w].ret] \in ReturnRows
      BY <1>9, ShapeOfReturnRequest DEF ShipReturn, WriteReturn, Shapes, RetTypeOK
  <2> QED
      BY <1>7, <1>9, <2>1, RowsStored DEF ShipReturn
<1>10. ASSUME NEW w \in Workers, CloseVendor(w)
       PROVE  Shapes'
  <2>1. ret[req[w].ret] \in ReturnRows
      BY <1>10, ShapeOfReturnRequest DEF CloseVendor, WriteReturn, Shapes, RetTypeOK
  <2> QED
      BY <1>7, <1>10, <2>1, RowsStored DEF CloseVendor
<1>11. ASSUME NEW w \in Workers, Archive(w)
       PROVE  Shapes'
  <2>1. ret[req[w].ret] \in ReturnRows
      BY <1>11, ShapeOfReturnRequest DEF Archive, WriteReturn, Shapes, RetTypeOK
  <2> QED
      BY <1>7, <1>11, <2>1, RowsStored DEF Archive
<1>12. ASSUME NEW w \in Workers, RecordCredit(w)
       PROVE  Shapes'
  <2>1. PICK r \in Returns : r = req[w].ret
      BY <1>12, ShapeOfReturnRequest DEF RecordCredit, Shapes
  <2>2. PICK credit \in {"PENDING", "RECEIVED"} : credit = req[w].credit
      BY <1>12, ShapeOfReturnRequest DEF RecordCredit, Shapes
  <2>3. ret' = IF ret[r].status = "SHIPPED"
                 THEN [ret EXCEPT ![r].credit = credit,
                                  ![r].status = IF credit = "RECEIVED" THEN "CREDITED" ELSE @]
                 ELSE ret
      BY <1>12, <2>1, <2>2 DEF RecordCredit
  <2> DEFINE row == [ret[r] EXCEPT !.credit = credit,
                                   !.status = IF credit = "RECEIVED" THEN "CREDITED" ELSE @]
  <2>5. ret[r] \in ReturnRows /\ ret \in [Returns -> ReturnRows]
      BY DEF Shapes, RetTypeOK
  <2>6. row \in ReturnRows
      BY <2>5 DEF ReturnRows
  <2>7. ret' = [ret EXCEPT ![r] = row] \/ ret' = ret
      BY <2>3, <2>5
  <2> HIDE DEF row
  <2>4. ret' \in [Returns -> ReturnRows]
      BY <2>5, <2>6, <2>7
  <2> QED
      BY <1>0, <1>12, <2>4, FinishMoves DEF RecordCredit, Shapes, RetTypeOK
<1>13. ASSUME NEW w \in Workers, ClaimClose(w)
       PROVE  Shapes'
  <2>1. PICK r \in Returns : r = req[w].ret
      BY <1>13, ShapeOfReturnRequest DEF ClaimClose, Shapes
  <2> DEFINE c == [at |-> "claimed", ret |-> r, qty |-> req[w].qty, shelf |-> ReadShelf,
                   rows |-> {r}]
  <2>2. req[w].qty \in 1 .. MaxReturned
      BY <1>13, ShapeOfReturnRequest DEF ClaimClose, Shapes
  <2>3. Shaped(c)
      BY <2>2 DEF Shaped, ReturnShape
  <2>4. req' = [req EXCEPT ![w] = c] \/ Finish(w)
      BY <1>13, <2>1 DEF ClaimClose
  <2> HIDE DEF c
  <2>5. req' = [v \in Workers |-> req'[v]] /\ \A v \in Workers : Shaped(req'[v])
      BY <2>3, <2>4, RequestMoves, FinishMoves
  <2> QED
      BY <1>0, <1>13, <2>5 DEF ClaimClose, Shapes, RetTypeOK, retVars
<1>14. ASSUME NEW w \in Workers, CommitClose(w)
       PROVE  Shapes'
  <2>1. PICK c : c = req[w]
      OBVIOUS
  <2>2. c.ret \in Returns /\ c.qty \in Nat
      BY <1>14, <2>1, ShapeOfReturnRequest, PartReturnAssumption DEF CommitClose, Shapes
  <2>3. /\ ret' = [ret EXCEPT ![c.ret].status = "CLOSED"]
        /\ restocks' = [restocks EXCEPT ![c.ret].times = @ + 1, ![c.ret].qty = @ + c.qty]
        /\ overlapped' \in BOOLEAN
        /\ Finish(w)
      BY <1>14, <2>1 DEF CommitClose, Note
  <2>6. ret[c.ret] \in ReturnRows /\ ret \in [Returns -> ReturnRows]
      BY <2>2 DEF Shapes, RetTypeOK
  <2>4. ret' \in [Returns -> ReturnRows]
      BY <2>3, <2>6, RowsStored
  <2>5. restocks' \in [Returns -> [times : Nat, qty : Nat]]
      BY <2>2, <2>3 DEF Shapes, RetTypeOK
  <2> QED
      BY <1>0, <2>3, <2>4, <2>5, FinishMoves DEF Shapes, RetTypeOK
<1> QED
    BY <1>1, <1>3, <1>4, <1>5, <1>6, <1>8, <1>9, <1>10, <1>11, <1>12, <1>13, <1>14
    DEF PartReturnStep

LEMMA StepShapes == Shapes /\ [Next]_vars => Shapes'
<1>1. Shapes /\ UNCHANGED vars => Shapes'
    BY DEF vars, poVars, retVars, Shapes, RetTypeOK
<1> QED
    BY <1>1, PurchaseOrderShapes, PartReturnShapes DEF Next

LEMMA AlwaysShaped == Spec => []Shapes
BY InitShapes, StepShapes, PTL DEF Spec

-----------------------------------------------------------------------------
(* What a step does to orders: it enters the lines of a draft, writes a     *)
(* status, or stores a receipt.                                             *)
Drafted(o, lines) ==
    /\ po[o].status \in {"ABSENT", "DRAFT"}
    /\ po' = [po EXCEPT ![o] = [status |-> "DRAFT", lines |-> lines]]

LEMMA EditMoves ==
    ASSUME Shapes, NEW w \in Workers, CommitEdit(w)
    PROVE  po' = po \/ \E o \in Orders, lines \in LineInputs : Drafted(o, lines)
<1>1. PICK o \in Orders : o = req[w].order
    BY ShapeOfOrderRequest DEF CommitEdit, Shapes, OrderAt
<1>2. PICK lines \in LineInputs : lines = req[w].lines
    BY ShapeOfOrderRequest DEF CommitEdit, Shapes, OrderAt
<1>3. po' = IF po[o].status = "DRAFT" THEN [po EXCEPT ![o].lines = lines] ELSE po
    BY <1>1, <1>2 DEF CommitEdit
<1>4. po[o] \in POs /\ po \in [Orders -> POs]
    BY DEF Shapes
<1>5. CASE po[o].status = "DRAFT"
  <2>1. [po[o] EXCEPT !.lines = lines] = [status |-> "DRAFT", lines |-> lines]
      BY <1>4, <1>5 DEF POs
  <2>2. po' = [po EXCEPT ![o] = [po[o] EXCEPT !.lines = lines]]
      BY <1>3, <1>5
  <2> QED
      BY <1>5, <2>1, <2>2 DEF Drafted
<1> QED
    BY <1>3, <1>5

LEMMA OrderMoves ==
    ASSUME Shapes, [Next]_vars
    PROVE  \/ po' = po
           \/ \E o \in Orders, lines \in LineInputs : Drafted(o, lines)
           \/ \E o \in Orders, st \in {"ORDERED", "CANCELLED"} :
                 po' = [po EXCEPT ![o].status = st]
           \/ \E w \in Workers : CommitReceive(w)
<1> DEFINE Goal == \/ po' = po
                   \/ \E o \in Orders, lines \in LineInputs : Drafted(o, lines)
                   \/ \E o \in Orders, st \in {"ORDERED", "CANCELLED"} :
                         po' = [po EXCEPT ![o].status = st]
                   \/ \E w \in Workers : CommitReceive(w)
<1> SUFFICES Goal
    OBVIOUS
<1>1. CASE UNCHANGED vars \/ PartReturnStep
    BY <1>1 DEF vars, poVars, PartReturnStep
<1>2. ASSUME NEW o \in Orders, NEW lines \in LineInputs, CreateDraft(o, lines)
      PROVE  Goal
    BY <1>2 DEF CreateDraft, Drafted
<1>3. ASSUME NEW w \in Workers, CommitEdit(w)
      PROVE  Goal
    BY <1>3, EditMoves
<1>4. ASSUME NEW w \in Workers, CommitOrder(w)
      PROVE  Goal
  <2>1. PICK o \in Orders : o = req[w].order
      BY <1>4, ShapeOfOrderRequest DEF CommitOrder, Shapes, OrderAt
  <2>2. po' = [po EXCEPT ![o].status = "ORDERED"]
      BY <1>4, <2>1 DEF CommitOrder
  <2> QED
      BY <2>2
<1>5. ASSUME NEW w \in Workers, CommitCancel(w)
      PROVE  Goal
  <2>1. PICK o \in Orders : o = req[w].order
      BY <1>5, ShapeOfOrderRequest DEF CommitCancel, Shapes, OrderAt
  <2>2. po' = [po EXCEPT ![o].status = "CANCELLED"]
      BY <1>5, <2>1 DEF CommitCancel
  <2> QED
      BY <2>2
<1>6. CASE PurchaseOrderStep
  <2>1. ASSUME NEW w \in Workers,
               \/ \E o \in Orders : CheckOrder(w, o) \/ CheckCancel(w, o)
               \/ \E o \in Orders, lines \in LineInputs : CheckEdit(w, o, lines)
               \/ \E o \in Orders, qty \in Deliveries : CheckReceive(w, o, qty)
               \/ ReadForOrder(w) \/ ReadForReceive(w) \/ CountReceived(w) \/ ReadForCancel(w)
        PROVE  po' = po
      BY <2>1 DEF CheckOrder, CheckCancel, CheckEdit, CheckReceive, ReadForOrder,
                  ReadForReceive, CountReceived, ReadForCancel, poVars
  <2> QED
      BY <1>2, <1>3, <1>4, <1>5, <1>6, <2>1 DEF PurchaseOrderStep
<1> QED
    BY <1>1, <1>6 DEF Next

(* What a receipt stores.                                                   *)
LEMMA ReceiptStored ==
    ASSUME Shapes, NEW w \in Workers, CommitReceive(w)
    PROVE  LET r == req[w]
           IN /\ r.order \in Orders /\ r.seen \in POs /\ r.units \in [Slots -> Nat]
              /\ r.at = "counted"
              /\ \A o \in Orders : o # r.order => po'[o] = po[o] /\ receipts'[o] = receipts[o]
              /\ po'[r.order].status = ReceiptStatus(r.all)
              /\ \A s \in Slots :
                    /\ po'[r.order].lines[s].part = po[r.order].lines[s].part
                    /\ po'[r.order].lines[s].link = po[r.order].lines[s].link
                    /\ po'[r.order].lines[s].ordered = po[r.order].lines[s].ordered
                    /\ po'[r.order].lines[s].received =
                         IF r.units[s] > 0 THEN r.seen.lines[s].received + r.units[s]
                         ELSE po[r.order].lines[s].received
                    /\ receipts'[r.order][s] = receipts[r.order][s] + r.units[s]
              /\ req'[w] = Idle
              /\ \A v \in Workers : v # w => req'[v] = req[v]
              /\ ~overlapped' => /\ ~overlapped /\ r.seen = po[r.order]
                                 /\ po[r.order].status \in Open
<1> DEFINE Holds(q) ==
                /\ q.order \in Orders /\ q.seen \in POs /\ q.units \in [Slots -> Nat]
                /\ q.at = "counted"
                /\ \A o \in Orders : o # q.order => po'[o] = po[o] /\ receipts'[o] = receipts[o]
                /\ po'[q.order].status = ReceiptStatus(q.all)
                /\ \A s \in Slots :
                      /\ po'[q.order].lines[s].part = po[q.order].lines[s].part
                      /\ po'[q.order].lines[s].link = po[q.order].lines[s].link
                      /\ po'[q.order].lines[s].ordered = po[q.order].lines[s].ordered
                      /\ po'[q.order].lines[s].received =
                           IF q.units[s] > 0 THEN q.seen.lines[s].received + q.units[s]
                           ELSE po[q.order].lines[s].received
                      /\ receipts'[q.order][s] = receipts[q.order][s] + q.units[s]
                /\ req'[w] = Idle
                /\ \A v \in Workers : v # w => req'[v] = req[v]
                /\ ~overlapped' => /\ ~overlapped /\ q.seen = po[q.order]
                                   /\ po[q.order].status \in Open
<1>1. PICK r : r = req[w]
    OBVIOUS
<1>2. /\ r.order \in Orders /\ r.units \in [Slots -> Nat] /\ r.seen \in POs
      /\ r.at = "counted"
    BY <1>1, ShapeOfOrderRequest DEF CommitReceive, Shapes, OrderAt
<1>3. PICK o \in Orders : o = r.order
    BY <1>2
<1>4. /\ po' = [po EXCEPT ![o].status = ReceiptStatus(r.all),
                          ![o].lines = [s \in Slots |->
                  IF s \in TouchedSlots(r) THEN [@[s] EXCEPT !.received = Received(r, s)]
                                           ELSE @[s]]]
      /\ receipts' = [receipts EXCEPT ![o] = [s \in Slots |-> @[s] + r.units[s]]]
      /\ Finish(w)
      /\ ~overlapped' => ~overlapped /\ r.seen = po[r.order] /\ po[r.order].status \in Open
    BY <1>1, <1>3 DEF CommitReceive, Note, FreshRows
<1> DEFINE stored == [s \in Slots |-> IF s \in TouchedSlots(r)
                         THEN [po[o].lines[s] EXCEPT !.received = Received(r, s)]
                         ELSE po[o].lines[s]]
<1>5. po \in [Orders -> POs] /\ receipts \in [Orders -> [Slots -> Nat]] /\ po[o] \in POs
    BY DEF Shapes
<1>6. /\ po' = [po EXCEPT ![o] = [po[o] EXCEPT !.status = ReceiptStatus(r.all),
                                               !.lines = stored]]
    BY <1>4
<1>7. ASSUME NEW s \in Slots
      PROVE  /\ stored[s].part = po[o].lines[s].part
             /\ stored[s].link = po[o].lines[s].link
             /\ stored[s].ordered = po[o].lines[s].ordered
             /\ stored[s].received =
                  IF r.units[s] > 0 THEN r.seen.lines[s].received + r.units[s]
                  ELSE po[o].lines[s].received
  <2>1. po[o].lines[s] \in Lines
      BY <1>5 DEF POs
  <2>2. s \in TouchedSlots(r) <=> r.units[s] > 0
      BY DEF TouchedSlots
  <2> QED
      BY <2>1, <2>2 DEF Received, Lines
<1>8. ASSUME NEW s \in Slots
      PROVE  receipts'[o][s] = receipts[o][s] + r.units[s]
    BY <1>4, <1>5
<1> HIDE DEF stored
<1>9. po'[o].status = ReceiptStatus(r.all) /\ po'[o].lines = stored
  <2>1. [po[o] EXCEPT !.status = ReceiptStatus(r.all), !.lines = stored].status
            = ReceiptStatus(r.all)
      BY <1>5 DEF POs
  <2>2. [po[o] EXCEPT !.status = ReceiptStatus(r.all), !.lines = stored].lines = stored
      BY <1>5 DEF POs
  <2> QED
      BY <1>5, <1>6, <2>1, <2>2
<1>10. \A p \in Orders : p # o => po'[p] = po[p] /\ receipts'[p] = receipts[p]
    BY <1>4, <1>5, <1>6
<1>11. /\ req'[w] = Idle /\ \A v \in Workers : v # w => req'[v] = req[v]
    BY <1>4, FinishMoves
<1>12. /\ po'[r.order].status = ReceiptStatus(r.all)
       /\ \A s \in Slots :
             /\ po'[r.order].lines[s].part = po[r.order].lines[s].part
             /\ po'[r.order].lines[s].link = po[r.order].lines[s].link
             /\ po'[r.order].lines[s].ordered = po[r.order].lines[s].ordered
             /\ po'[r.order].lines[s].received =
                  IF r.units[s] > 0 THEN r.seen.lines[s].received + r.units[s]
                  ELSE po[r.order].lines[s].received
             /\ receipts'[r.order][s] = receipts[r.order][s] + r.units[s]
    BY <1>3, <1>7, <1>8, <1>9
<1>13. \A p \in Orders : p # r.order => po'[p] = po[p] /\ receipts'[p] = receipts[p]
    BY <1>3, <1>10
<1>14. Holds(r)
    BY <1>2, <1>4, <1>11, <1>12, <1>13
<1>15. Holds(req[w])
    BY <1>1, <1>14
<1> QED
    BY <1>15

(* An order that has been ordered once is never a draft again, and what its *)
(* lines order does not change.                                             *)
Settled(o) == po[o].status \notin {"ABSENT", "DRAFT"}

LEMMA OrderedKept ==
    ASSUME Shapes, [Next]_vars, NEW o \in Orders, Settled(o)
    PROVE  Settled(o)' /\ \A s \in Slots : po'[o].lines[s].ordered = po[o].lines[s].ordered
<1>1. po \in [Orders -> POs]
    BY DEF Shapes
<1>2. CASE po' = po
    BY <1>2 DEF Settled
<1>3. CASE \E q \in Orders, lines \in LineInputs : Drafted(q, lines)
    BY <1>1, <1>3 DEF Drafted, Settled
<1>4. CASE \E q \in Orders, st \in {"ORDERED", "CANCELLED"} : po' = [po EXCEPT ![q].status = st]
    BY <1>1, <1>4 DEF Settled, POs
<1>5. ASSUME NEW w \in Workers, CommitReceive(w)
      PROVE  Settled(o)' /\ \A s \in Slots : po'[o].lines[s].ordered = po[o].lines[s].ordered
  <2>1. ReceiptStatus(req[w].all) \notin {"ABSENT", "DRAFT"}
      BY DEF ReceiptStatus
  <2> QED
      BY <1>5, <2>1, ReceiptStored DEF Settled
<1> QED
    BY <1>2, <1>3, <1>4, <1>5, OrderMoves

(* What a step does to a request that is about to write an order.           *)
Writing == {"receiving", "ordering", "cancelling", "read", "counted"}

LEMMA WriterMoves ==
    ASSUME Shapes, [Next]_vars, NEW v \in Workers
    PROVE  \/ req'[v] = req[v]
           \/ req'[v].at \notin Writing
           \/ \E o \in Orders : CheckOrder(v, o) \/ CheckCancel(v, o)
           \/ \E o \in Orders, qty \in Deliveries : CheckReceive(v, o, qty)
           \/ ReadForOrder(v) \/ ReadForReceive(v) \/ CountReceived(v) \/ ReadForCancel(v)
<1> USE DEF ReturnAt
<1> DEFINE Goal == \/ req'[v] = req[v]
                   \/ req'[v].at \notin Writing
                   \/ \E o \in Orders : CheckOrder(v, o) \/ CheckCancel(v, o)
                   \/ \E o \in Orders, qty \in Deliveries : CheckReceive(v, o, qty)
                   \/ ReadForOrder(v) \/ ReadForReceive(v) \/ CountReceived(v)
                   \/ ReadForCancel(v)
<1> SUFFICES Goal
    OBVIOUS
<1>0. Idle.at \notin Writing
    BY DEF Idle, Writing
<1>1. CASE UNCHANGED vars
    BY <1>1 DEF vars
<1>2. ASSUME NEW w \in Workers, NEW r, req' = [req EXCEPT ![w] = r], w = v => r.at \notin Writing
      PROVE  Goal
    BY <1>2 DEF Shapes
<1>3. ASSUME NEW w \in Workers, Finish(w)
      PROVE  Goal
    BY <1>0, <1>2, <1>3 DEF Finish
<1>4. ASSUME NEW w \in Workers, w # v,
             \/ \E o \in Orders : CheckOrder(w, o) \/ CheckCancel(w, o)
             \/ \E o \in Orders, qty \in Deliveries : CheckReceive(w, o, qty)
             \/ ReadForOrder(w) \/ ReadForReceive(w) \/ CountReceived(w) \/ ReadForCancel(w)
      PROVE  Goal
  <2>1. PICK r : req' = [req EXCEPT ![w] = r]
      BY <1>4 DEF CheckOrder, CheckCancel, CheckReceive, ReadForOrder, ReadForReceive,
                  CountReceived, ReadForCancel, HaveRead, Finish
  <2> QED
      BY <1>2, <1>4, <2>1
<1>5. CASE PurchaseOrderStep
  <2>1. ASSUME NEW o \in Orders, NEW lines \in LineInputs, CreateDraft(o, lines)
        PROVE  Goal
      BY <2>1 DEF CreateDraft
  <2>2. ASSUME NEW w \in Workers, NEW o \in Orders, NEW lines \in LineInputs,
               CheckEdit(w, o, lines)
        PROVE  Goal
    <3> DEFINE r == [at |-> "editing", order |-> o, lines |-> lines]
    <3>1. req' = [req EXCEPT ![w] = r] /\ r.at \notin Writing
        BY <2>2 DEF CheckEdit, Writing
    <3> HIDE DEF r
    <3> QED
        BY <1>2, <3>1
  <2>3. ASSUME NEW w \in Workers,
               CommitEdit(w) \/ CommitOrder(w) \/ CommitReceive(w) \/ CommitCancel(w)
        PROVE  Goal
      BY <1>3, <2>3 DEF CommitEdit, CommitOrder, CommitReceive, CommitCancel
  <2> QED
      BY <1>4, <1>5, <2>1, <2>2, <2>3 DEF PurchaseOrderStep
<1>6. CASE PartReturnStep
  <2>1. ASSUME NEW r \in Returns, NEW type, NEW vendor, NEW p, NEW q,
               CreateReturn(r, type, vendor, p, q)
        PROVE  Goal
      BY <2>1 DEF CreateReturn
  <2>2. ASSUME NEW w \in Workers, NEW r, NEW status, NEW record,
               Check(w, r, status, record), record.at \notin Writing
        PROVE  Goal
      BY <1>2, <2>2 DEF Check
  <2>3. ASSUME NEW w \in Workers, NEW r \in Returns,
               \/ \E edit \in EditInputs : CheckUpdate(w, r, edit)
               \/ \E credit \in {"PENDING", "RECEIVED"} : CheckCredit(w, r, credit)
               \/ CheckShip(w, r) \/ CheckCloseVendor(w, r) \/ CheckClose(w, r)
               \/ CheckArchive(w, r)
        PROVE  Goal
    <3>1. ASSUME NEW edit \in EditInputs, CheckUpdate(w, r, edit)
          PROVE  Goal
        BY <2>2, <3>1 DEF CheckUpdate, Writing
    <3>2. ASSUME NEW credit \in {"PENDING", "RECEIVED"}, CheckCredit(w, r, credit)
          PROVE  Goal
        BY <2>2, <3>2 DEF CheckCredit, Writing
    <3>3. CASE CheckShip(w, r)
        BY <2>2, <3>3 DEF CheckShip, Writing
    <3>4. CASE CheckCloseVendor(w, r)
        BY <2>2, <3>4 DEF CheckCloseVendor, Writing
    <3>5. CASE CheckClose(w, r)
        BY <2>2, <3>5 DEF CheckClose, Writing
    <3>6. CASE CheckArchive(w, r)
        BY <2>2, <3>6 DEF CheckArchive, Writing
    <3> QED
        BY <2>3, <3>1, <3>2, <3>3, <3>4, <3>5, <3>6
  <2>4. ASSUME NEW w \in Workers,
               \/ UpdateReturn(w) \/ ShipReturn(w) \/ RecordCredit(w) \/ CloseVendor(w)
               \/ CommitClose(w) \/ Archive(w)
        PROVE  Goal
    <3>1. Finish(w)
        BY <2>4 DEF UpdateReturn, ShipReturn, RecordCredit, CloseVendor, CommitClose, Archive,
                    WriteReturn
    <3> QED
        BY <1>3, <3>1
  <2>5. ASSUME NEW w \in Workers, ClaimClose(w)
        PROVE  Goal
    <3> DEFINE c == [at |-> "claimed", ret |-> req[w].ret, qty |-> req[w].qty,
                     shelf |-> ReadShelf, rows |-> {req[w].ret}]
    <3>1. c.at \notin Writing
        BY DEF Writing
    <3>2. req' = [req EXCEPT ![w] = c] \/ Finish(w)
        BY <2>5 DEF ClaimClose
    <3> HIDE DEF c
    <3> QED
        BY <1>2, <1>3, <3>1, <3>2
  <2> QED
      BY <1>6, <2>1, <2>3, <2>4, <2>5 DEF PartReturnStep
<1> QED
    BY <1>1, <1>5, <1>6 DEF Next

-----------------------------------------------------------------------------
(* A receipt counts with the lines that its order has: what they order does *)
(* not change any more, and what the receipt adds to what it has read of    *)
(* each stays within that.                                                  *)
ReceiptSound(r) ==
    /\ r.at = "receiving" => Settled(r.order)
    /\ r.at = "counted" => r.kind = "receive"
    /\ r.at \in {"read", "counted"} /\ r.kind = "receive" =>
         /\ Settled(r.order)
         /\ \A s \in Slots :
               /\ r.seen.lines[s].ordered = po[r.order].lines[s].ordered
               /\ r.seen.lines[s].received + r.units[s] <= r.seen.lines[s].ordered

ReceiptInv ==
    /\ Shapes
    /\ ReceivedWithinOrdered
    /\ \A w \in Workers : ReceiptSound(req[w])

LEMMA InitReceipts == Init => ReceiptInv
<1> SUFFICES ASSUME Init PROVE ReceiptInv
    OBVIOUS
<1>1. ReceivedWithinOrdered
    BY DEF ReceivedWithinOrdered, Init, POInit, NoOrder, NoLine
<1>2. \A w \in Workers : ReceiptSound(req[w])
    BY DEF ReceiptSound, Init, ShelfInit, Idle
<1> QED
    BY <1>1, <1>2, InitShapes DEF ReceiptInv

LEMMA StoredWithinOrdered ==
    ASSUME ReceiptInv, [Next]_vars PROVE ReceivedWithinOrdered'
<1> SUFFICES ASSUME NEW o \in Orders, NEW s \in Slots
             PROVE  po'[o].lines[s].received <= po'[o].lines[s].ordered
    BY DEF ReceivedWithinOrdered
<1>1. /\ Shapes /\ po \in [Orders -> POs]
      /\ po[o].lines[s].received <= po[o].lines[s].ordered
    BY DEF ReceiptInv, Shapes, ReceivedWithinOrdered
<1>2. CASE po' = po
    BY <1>1, <1>2
<1>3. ASSUME NEW q \in Orders, NEW lines \in LineInputs, Drafted(q, lines)
      PROVE  po'[o].lines[s].received <= po'[o].lines[s].ordered
  <2>1. lines[s].received = 0 /\ lines[s].ordered \in Nat
      BY PurchaseOrderAssumption DEF Lines
  <2> QED
      BY <1>1, <1>3, <2>1 DEF Drafted
<1>4. CASE \E q \in Orders, st \in {"ORDERED", "CANCELLED"} : po' = [po EXCEPT ![q].status = st]
    BY <1>1, <1>4 DEF POs
<1>5. ASSUME NEW w \in Workers, CommitReceive(w)
      PROVE  po'[o].lines[s].received <= po'[o].lines[s].ordered
  <2>1. PICK r : r = req[w]
      OBVIOUS
  <2>2. CASE o # r.order
      BY <1>1, <1>5, <2>1, <2>2, ReceiptStored
  <2>3. CASE o = r.order
    <3>1. /\ po'[o].lines[s].ordered = po[o].lines[s].ordered
          /\ po'[o].lines[s].received =
               IF r.units[s] > 0 THEN r.seen.lines[s].received + r.units[s]
               ELSE po[o].lines[s].received
          /\ r.at = "counted"
        BY <1>1, <1>5, <2>1, <2>3, ReceiptStored
    <3>2. ReceiptSound(r)
        BY <2>1 DEF ReceiptInv
    <3>3. /\ r.seen.lines[s].ordered = po[o].lines[s].ordered
          /\ r.seen.lines[s].received + r.units[s] <= r.seen.lines[s].ordered
        BY <2>3, <3>1, <3>2 DEF ReceiptSound
    <3> QED
        BY <1>1, <3>1, <3>3
  <2> QED
      BY <2>2, <2>3
<1> QED
    BY <1>1, <1>2, <1>3, <1>4, <1>5, OrderMoves

LEMMA ReceiptsStaySound ==
    ASSUME ReceiptInv, [Next]_vars, NEW v \in Workers PROVE ReceiptSound(req[v])'
<1> USE DEF OrderAt
<1>1. Shapes /\ po \in [Orders -> POs] /\ ReceiptSound(req[v]) /\ Shaped(req[v])
    BY DEF ReceiptInv, Shapes
<1> DEFINE Goal == ReceiptSound(req[v])'
<1> HIDE DEF Goal
<1>2. CASE req'[v] = req[v]
  <2>1. PICK r : r = req[v] /\ r = req'[v]
      BY <1>2
  <2>2. CASE r.at \notin {"receiving", "read", "counted"}
      BY <2>1, <2>2 DEF ReceiptSound, Goal
  <2>3. CASE r.at \in {"receiving", "read", "counted"}
    <3>1. r.order \in Orders
        BY <1>1, <2>1, <2>3, ShapeOfOrderRequest
    <3>2. Settled(r.order) => /\ Settled(r.order)'
                              /\ \A s \in Slots : po'[r.order].lines[s].ordered
                                                    = po[r.order].lines[s].ordered
        BY <1>1, <3>1, OrderedKept
    <3>3. ReceiptSound(r)
        BY <1>1, <2>1
    <3> QED
        BY <2>1, <3>1, <3>2, <3>3 DEF ReceiptSound, Goal, Settled
  <2> QED
      BY <2>2, <2>3
<1>3. CASE req'[v].at \notin Writing
    BY <1>3 DEF Writing, ReceiptSound, Goal
<1>4. ASSUME NEW o \in Orders, CheckOrder(v, o) \/ CheckCancel(v, o)
      PROVE  Goal
  <2>1. req'[v].at \in {"ordering", "cancelling"}
      BY <1>1, <1>4 DEF CheckOrder, CheckCancel, Shapes
  <2> QED
      BY <2>1 DEF ReceiptSound, Goal
<1>5. ASSUME NEW o \in Orders, NEW qty \in Deliveries, CheckReceive(v, o, qty)
      PROVE  Goal
  <2>1. req'[v].at = "receiving" /\ req'[v].order = o /\ Settled(o) /\ po' = po
      BY <1>1, <1>5 DEF CheckReceive, Shapes, Settled, Open, poVars
  <2> QED
      BY <2>1 DEF ReceiptSound, Goal, Settled
<1>6. CASE ReadForOrder(v) \/ ReadForCancel(v)
  <2>1. /\ req[v].at \in OrderAt
        /\ req[v].seen \in POs
      BY <1>1, <1>6, ShapeOfOrderRequest DEF ReadForOrder, ReadForCancel
  <2>2. /\ [s \in Slots |-> req[v].seen.lines[s].ordered] \in [Slots -> Nat]
        /\ Outstanding(req[v].seen.lines) \in [Slots -> Nat]
      BY <2>1, PurchaseOrderAssumption DEF POs, Lines, Outstanding, Remaining
  <2>3. \E kind \in {"order", "cancel"}, qty \in [Slots -> Nat] :
           HaveRead(v, kind, req[v].seen, qty)
      BY <1>6, <2>2 DEF ReadForOrder, ReadForCancel
  <2>4. req'[v].at = "read" /\ req'[v].kind \in {"order", "cancel"}
      BY <1>1, <2>1, <2>3, HaveReadMoves
  <2> QED
      BY <2>4 DEF ReceiptSound, Goal
<1>7. CASE ReadForReceive(v)
  <2>1. PICK c : c = req[v]
      OBVIOUS
  <2>2. c.at = "receiving" /\ c.order \in Orders /\ c.units \in [Slots -> Nat] /\ po' = po
      BY <1>1, <1>7, <2>1, ShapeOfOrderRequest DEF ReadForReceive, poVars
  <2>3. CASE Finish(v)
    <3>1. req'[v].at = "idle"
        BY <1>1, <2>3, FinishMoves DEF Idle
    <3> QED
        BY <3>1 DEF ReceiptSound, Goal
  <2>4. CASE HaveRead(v, "receive", po[c.order], c.units) /\ ~Exceeds(c.order, c.units)
    <3>1. po[c.order] \in POs
        BY <1>1, <2>2
    <3>2. /\ req'[v].at = "read" /\ req'[v].kind = "receive" /\ req'[v].order = c.order
          /\ req'[v].seen = po[c.order] /\ req'[v].units = c.units
        BY <1>1, <2>1, <2>2, <2>4, <3>1, HaveReadMoves
    <3>3. Settled(c.order)
        BY <1>1, <2>1, <2>2 DEF ReceiptSound
    <3>4. ASSUME NEW s \in Slots
          PROVE  po[c.order].lines[s].received + c.units[s] <= po[c.order].lines[s].ordered
      <4>1. /\ po[c.order].lines[s].received \in Nat /\ po[c.order].lines[s].ordered \in Nat
            /\ c.units[s] \in Nat
          BY <2>2, <3>1, PurchaseOrderAssumption DEF POs, Lines
      <4>2. c.units[s] <= po[c.order].lines[s].ordered - po[c.order].lines[s].received
          BY <2>4, <4>1 DEF Exceeds, Remaining
      <4> QED
          BY <4>1, <4>2
    <3> QED
        BY <2>2, <3>2, <3>3, <3>4 DEF ReceiptSound, Goal, Settled
  <2> QED
      BY <1>7, <2>1, <2>3, <2>4 DEF ReadForReceive
<1>8. CASE CountReceived(v)
  <2>1. PICK c : c = req[v]
      OBVIOUS
  <2>2. /\ c.at = "read" /\ c.kind = "receive"
        /\ req'[v].at = "counted" /\ req'[v].kind = "receive" /\ req'[v].order = c.order
        /\ req'[v].seen = c.seen /\ req'[v].units = c.units
        /\ po' = po
      BY <1>1, <1>8, <2>1, CountedMoves DEF CountReceived, poVars
  <2>3. ReceiptSound(c)
      BY <1>1, <2>1
  <2> QED
      BY <2>2, <2>3 DEF ReceiptSound, Goal, Settled
<1> QED
    BY <1>1, <1>2, <1>3, <1>4, <1>5, <1>6, <1>7, <1>8, WriterMoves DEF Goal

(* No line ever says that more arrived than was ordered, in every           *)
(* interleaving of receipts, edits, orders and cancellations: receiving     *)
(* compares with the lines its transaction has read                         *)
(* (receivePurchaseOrderRecord), and ordered lines are never edited         *)
(* (updatePurchaseOrderRecord compares the status).                         *)
THEOREM ReceiptsStayWithinOrders == Spec => []ReceivedWithinOrdered
<1>1. ReceiptInv /\ [Next]_vars => ReceiptInv'
    BY StepShapes, StoredWithinOrdered, ReceiptsStaySound DEF ReceiptInv
<1> QED
    BY <1>1, InitReceipts, PTL DEF Spec, ReceiptInv

-----------------------------------------------------------------------------
(* What a step does to returns: it creates one, writes a row that nobody    *)
(* has claimed, or puts the parts of a claimed one back.                    *)
Rewritten(r, row) ==
    /\ RowsFree({r})
    /\ row.status \in {ret[r].status, "SHIPPED", "CREDITED", "CLOSED"}
    /\ row.part = ret[r].part
    /\ ret' = [ret EXCEPT ![r] = row]
    /\ restocks' = restocks

Created(r, row) ==
    /\ ret[r].status = "ABSENT" /\ row.status = "PENDING"
    /\ ret' = [ret EXCEPT ![r] = row]
    /\ restocks' = restocks

LEMMA ReturnMoves ==
    ASSUME Shapes, [Next]_vars
    PROVE  \/ UNCHANGED <<ret, restocks>>
           \/ \E r \in Returns, row \in ReturnRows : Created(r, row) \/ Rewritten(r, row)
           \/ \E w \in Workers : CommitClose(w)
<1> DEFINE Goal == \/ UNCHANGED <<ret, restocks>>
                   \/ \E r \in Returns, row \in ReturnRows : Created(r, row) \/ Rewritten(r, row)
                   \/ \E w \in Workers : CommitClose(w)
<1> SUFFICES Goal
    OBVIOUS
<1>1. CASE UNCHANGED vars \/ PurchaseOrderStep
    BY <1>1 DEF vars, retVars, PurchaseOrderStep
<1>2. ASSUME NEW r \in Returns, NEW type \in ReturnTypes, NEW vendor \in BOOLEAN,
             NEW p \in Parts, NEW q \in 1 .. MaxReturned, CreateReturn(r, type, vendor, p, q)
      PROVE  Goal
  <2> DEFINE row == [NoReturn EXCEPT !.status = "PENDING", !.type = type, !.vendor = vendor,
                                     !.part = p, !.qty = q]
  <2>1. row \in ReturnRows /\ row.status = "PENDING"
      BY DEF NoReturn, ReturnRows
  <2>2. ret[r].status = "ABSENT" /\ ret' = [ret EXCEPT ![r] = row] /\ restocks' = restocks
      BY <1>2 DEF CreateReturn
  <2> HIDE DEF row
  <2> QED
      BY <2>1, <2>2 DEF Created
<1>3. ASSUME NEW w \in Workers, NEW at \in ReturnAt, NEW checked, NEW row \in ReturnRows,
             WriteReturn(w, at, checked, row),
             row.status \in {ret[req[w].ret].status, "SHIPPED", "CREDITED", "CLOSED"},
             row.part = ret[req[w].ret].part
      PROVE  Goal
  <2>1. /\ req[w].ret \in Returns /\ RowsFree({req[w].ret})
        /\ ret' = [ret EXCEPT ![req[w].ret] = row] /\ restocks' = restocks
      BY <1>3, WriteMoves
  <2>2. Rewritten(req[w].ret, row)
      BY <1>3, <2>1 DEF Rewritten
  <2> QED
      BY <2>1, <2>2
<1>4. ASSUME NEW w \in Workers,
             UpdateReturn(w) \/ ShipReturn(w) \/ CloseVendor(w) \/ Archive(w)
      PROVE  Goal
  <2>1. req[w].at \in {"amending", "shipping", "closingVendor", "archiving"}
      BY <1>4 DEF UpdateReturn, ShipReturn, CloseVendor, Archive, WriteReturn
  <2>2. ret[req[w].ret] \in ReturnRows
      BY <2>1, ShapeOfReturnRequest DEF ReturnAt, Shapes, RetTypeOK
  <2>3. CASE UpdateReturn(w)
    <3>1. req[w].edit \in EditInputs
        BY <2>3, ShapeOfReturnRequest DEF ReturnAt, UpdateReturn, WriteReturn, Shapes
    <3> QED
        BY <1>3, <2>2, <2>3, <3>1, RowsStored DEF UpdateReturn, ReturnAt
  <2>4. CASE ShipReturn(w)
      BY <1>3, <2>2, <2>4, RowsStored DEF ShipReturn, ReturnAt
  <2>5. CASE CloseVendor(w)
      BY <1>3, <2>2, <2>5, RowsStored DEF CloseVendor, ReturnAt
  <2>6. CASE Archive(w)
      BY <1>3, <2>2, <2>6, RowsStored DEF Archive, ReturnAt
  <2> QED
      BY <1>4, <2>3, <2>4, <2>5, <2>6
<1>5. ASSUME NEW w \in Workers, RecordCredit(w)
      PROVE  Goal
  <2>1. PICK r \in Returns : r = req[w].ret
      BY <1>5, ShapeOfReturnRequest DEF ReturnAt, RecordCredit, Shapes
  <2>2. PICK credit \in {"PENDING", "RECEIVED"} : credit = req[w].credit
      BY <1>5, ShapeOfReturnRequest DEF ReturnAt, RecordCredit, Shapes
  <2> DEFINE row == [ret[r] EXCEPT !.credit = credit,
                                   !.status = IF credit = "RECEIVED" THEN "CREDITED" ELSE @]
  <2>3. ret[r] \in ReturnRows /\ ret \in [Returns -> ReturnRows]
      BY DEF Shapes, RetTypeOK
  <2>4. /\ row \in ReturnRows /\ row.status \in {ret[r].status, "CREDITED"}
        /\ row.part = ret[r].part
      BY <2>3 DEF ReturnRows
  <2>5. /\ RowsFree({r}) /\ restocks' = restocks
        /\ ret' = IF ret[r].status = "SHIPPED"
                    THEN [ret EXCEPT ![r].credit = credit,
                                     ![r].status = IF credit = "RECEIVED" THEN "CREDITED" ELSE @]
                    ELSE ret
      BY <1>5, <2>1, <2>2 DEF RecordCredit
  <2>6. ret' = [ret EXCEPT ![r] = row] \/ ret' = ret
      BY <2>3, <2>5
  <2> HIDE DEF row
  <2> QED
      BY <2>4, <2>5, <2>6 DEF Rewritten
<1>6. CASE PartReturnStep
  <2>1. ASSUME NEW w \in Workers,
               \/ \E r \in Returns :
                    \/ \E edit \in EditInputs : CheckUpdate(w, r, edit)
                    \/ \E credit \in {"PENDING", "RECEIVED"} : CheckCredit(w, r, credit)
                    \/ CheckShip(w, r) \/ CheckCloseVendor(w, r) \/ CheckClose(w, r)
                    \/ CheckArchive(w, r)
               \/ ClaimClose(w)
        PROVE  UNCHANGED <<ret, restocks>>
      BY <2>1 DEF CheckUpdate, CheckCredit, CheckShip, CheckCloseVendor, CheckClose,
                  CheckArchive, Check, ClaimClose, retVars
  <2> QED
      BY <1>2, <1>4, <1>5, <1>6, <2>1 DEF PartReturnStep
<1> QED
    BY <1>1, <1>6 DEF Next

(* A request gets to have claimed a return only by the claim.               *)
LEMMA ClaimMoves ==
    ASSUME Shapes, [Next]_vars, NEW v \in Workers
    PROVE  req'[v] = req[v] \/ req'[v].at # "claimed" \/ ClaimClose(v)
<1> USE DEF OrderAt
<1> DEFINE Goal == req'[v] = req[v] \/ req'[v].at # "claimed" \/ ClaimClose(v)
<1> SUFFICES Goal
    OBVIOUS
<1>0. Idle.at # "claimed"
    BY DEF Idle
<1>1. CASE UNCHANGED vars
    BY <1>1 DEF vars
<1>2. ASSUME NEW w \in Workers, NEW r, req' = [req EXCEPT ![w] = r],
             w = v => r.at # "claimed"
      PROVE  Goal
    BY <1>2 DEF Shapes
<1>3. ASSUME NEW w \in Workers, Finish(w)
      PROVE  Goal
    BY <1>0, <1>2, <1>3 DEF Finish
<1>4. ASSUME NEW w \in Workers, NEW kind, NEW seen, NEW qty, HaveRead(w, kind, seen, qty)
      PROVE  Goal
  <2> DEFINE r == [at |-> "read", kind |-> kind, order |-> req[w].order, seen |-> seen,
                   units |-> qty, shelf |-> ReadShelf, links |-> link,
                   all |-> FALSE, rows |-> {}]
  <2>1. req' = [req EXCEPT ![w] = r] /\ r.at # "claimed"
      BY <1>4 DEF HaveRead
  <2> HIDE DEF r
  <2> QED
      BY <1>2, <2>1
<1>5. CASE PurchaseOrderStep
  <2>1. ASSUME NEW o \in Orders, NEW lines \in LineInputs, CreateDraft(o, lines)
        PROVE  Goal
      BY <2>1 DEF CreateDraft
  <2>2. ASSUME NEW w \in Workers, NEW o \in Orders, NEW lines \in LineInputs,
               CheckEdit(w, o, lines)
        PROVE  Goal
      BY <1>2, <2>2 DEF CheckEdit
  <2>3. ASSUME NEW w \in Workers, NEW o \in Orders, CheckOrder(w, o) \/ CheckCancel(w, o)
        PROVE  Goal
    <3>1. CASE CheckOrder(w, o)
        BY <1>2, <3>1 DEF CheckOrder
    <3>2. CASE CheckCancel(w, o)
        BY <1>2, <3>2 DEF CheckCancel
    <3> QED
        BY <2>3, <3>1, <3>2
  <2>4. ASSUME NEW w \in Workers, NEW o \in Orders, NEW qty \in Deliveries,
               CheckReceive(w, o, qty)
        PROVE  Goal
      BY <1>2, <2>4 DEF CheckReceive
  <2>5. ASSUME NEW w \in Workers,
               CommitEdit(w) \/ CommitOrder(w) \/ CommitReceive(w) \/ CommitCancel(w)
        PROVE  Goal
      BY <1>3, <2>5 DEF CommitEdit, CommitOrder, CommitReceive, CommitCancel
  <2>6. ASSUME NEW w \in Workers, ReadForOrder(w) \/ ReadForReceive(w) \/ ReadForCancel(w)
        PROVE  Goal
      BY <1>3, <1>4, <2>6 DEF ReadForOrder, ReadForReceive, ReadForCancel
  <2>7. ASSUME NEW w \in Workers, CountReceived(w)
        PROVE  Goal
    <3>1. req'[w].at = "counted" /\ \A u \in Workers : u # w => req'[u] = req[u]
        BY <2>7, CountedMoves
    <3> QED
        BY <3>1
  <2> QED
      BY <1>5, <2>1, <2>2, <2>3, <2>4, <2>5, <2>6, <2>7 DEF PurchaseOrderStep
<1>6. CASE PartReturnStep
  <2>1. ASSUME NEW r \in Returns, NEW type, NEW vendor, NEW p, NEW q,
               CreateReturn(r, type, vendor, p, q)
        PROVE  Goal
      BY <2>1 DEF CreateReturn
  <2>2. ASSUME NEW w \in Workers, NEW r, NEW status, NEW record,
               Check(w, r, status, record), record.at # "claimed"
        PROVE  Goal
      BY <1>2, <2>2 DEF Check
  <2>3. ASSUME NEW w \in Workers, NEW r \in Returns, NEW edit \in EditInputs,
               CheckUpdate(w, r, edit)
        PROVE  Goal
      BY <2>2, <2>3 DEF CheckUpdate
  <2>4. ASSUME NEW w \in Workers, NEW r \in Returns, NEW credit \in {"PENDING", "RECEIVED"},
               CheckCredit(w, r, credit)
        PROVE  Goal
      BY <2>2, <2>4 DEF CheckCredit
  <2>5. ASSUME NEW w \in Workers, NEW r \in Returns, CheckShip(w, r) \/ CheckCloseVendor(w, r)
        PROVE  Goal
      BY <2>2, <2>5 DEF CheckShip, CheckCloseVendor
  <2>6. ASSUME NEW w \in Workers, NEW r \in Returns, CheckClose(w, r) \/ CheckArchive(w, r)
        PROVE  Goal
      BY <2>2, <2>6 DEF CheckClose, CheckArchive
  <2>7. ASSUME NEW w \in Workers,
               \/ UpdateReturn(w) \/ ShipReturn(w) \/ RecordCredit(w) \/ CloseVendor(w)
               \/ CommitClose(w) \/ Archive(w)
        PROVE  Goal
    <3>1. Finish(w)
        BY <2>7 DEF UpdateReturn, ShipReturn, RecordCredit, CloseVendor, CommitClose, Archive,
                    WriteReturn
    <3> QED
        BY <1>3, <3>1
  <2>8. ASSUME NEW w \in Workers, ClaimClose(w)
        PROVE  Goal
    <3>1. CASE w = v
        BY <2>8, <3>1
    <3>2. CASE w # v
      <4>1. \E r : req' = [req EXCEPT ![w] = r]
          BY <2>8 DEF ClaimClose, Finish
      <4> QED
          BY <1>2, <3>2, <4>1
    <3> QED
        BY <3>1, <3>2
  <2> QED
      BY <1>6, <2>1, <2>3, <2>4, <2>5, <2>6, <2>7, <2>8 DEF PartReturnStep
<1> QED
    BY <1>1, <1>5, <1>6 DEF Next

(* A claimed return is pending and has one claim; one that is pending has   *)
(* not been put back.                                                       *)
ClaimInv ==
    /\ Shapes
    /\ \A r \in Returns : /\ restocks[r].times <= 1
                          /\ ret[r].status \in {"ABSENT", "PENDING"} => restocks[r].times = 0
    /\ \A w \in Workers : req[w].at = "claimed" => ret[req[w].ret].status = "PENDING"
    /\ \A v, w \in Workers :
          v # w /\ req[v].at = "claimed" /\ req[w].at = "claimed" => req[v].ret # req[w].ret

(* Nobody has claimed a row that is free.                                   *)
LEMMA FreeIsUnclaimed ==
    ASSUME Shapes, NEW r \in Returns, RowsFree({r}), NEW v \in Workers, req[v].at = "claimed"
    PROVE  req[v].ret # r
<1>1. req[v].rows = {req[v].ret}
    BY ShapeOfReturnRequest DEF Shapes, ReturnAt
<1> QED
    BY <1>1 DEF RowsFree, Held

LEMMA InitClaims == Init => ClaimInv
<1> SUFFICES ASSUME Init PROVE ClaimInv
    OBVIOUS
<1>1. \A w \in Workers : req[w].at # "claimed"
    BY DEF Init, ShelfInit, Idle
<1>2. \A r \in Returns : restocks[r].times = 0
    BY DEF Init, RetInit
<1> QED
    BY <1>1, <1>2, InitShapes DEF ClaimInv

(* What closing a claimed return to inventory stores.                       *)
LEMMA ClosedMoves ==
    ASSUME Shapes, NEW w \in Workers, CommitClose(w)
    PROVE  /\ req[w].at = "claimed" /\ req[w].ret \in Returns /\ req'[w] = Idle
           /\ ret'[req[w].ret].status = "CLOSED"
           /\ ret'[req[w].ret].part = ret[req[w].ret].part
           /\ restocks'[req[w].ret].times = restocks[req[w].ret].times + 1
           /\ restocks'[req[w].ret].qty = restocks[req[w].ret].qty + req[w].qty
           /\ \A r \in Returns : r # req[w].ret => ret'[r] = ret[r] /\ restocks'[r] = restocks[r]
<1>1. PICK c : c = req[w]
    OBVIOUS
<1>2. c.at = "claimed" /\ c.ret \in Returns
    BY <1>1, ShapeOfReturnRequest DEF CommitClose, Shapes, ReturnAt
<1>3. /\ ret' = [ret EXCEPT ![c.ret].status = "CLOSED"]
      /\ restocks' = [restocks EXCEPT ![c.ret].times = @ + 1, ![c.ret].qty = @ + c.qty]
      /\ Finish(w)
    BY <1>1 DEF CommitClose
<1>4. /\ ret \in [Returns -> ReturnRows] /\ ret[c.ret] \in ReturnRows
      /\ restocks \in [Returns -> [times : Nat, qty : Nat]]
      /\ restocks[c.ret] \in [times : Nat, qty : Nat]
    BY <1>2 DEF Shapes, RetTypeOK
<1>5. ret'[c.ret].status = "CLOSED" /\ ret'[c.ret].part = ret[c.ret].part
    BY <1>2, <1>3, <1>4, RowsStored
<1>6. /\ restocks'[c.ret].times = restocks[c.ret].times + 1
      /\ restocks'[c.ret].qty = restocks[c.ret].qty + c.qty
    BY <1>2, <1>3, <1>4
<1>7. \A r \in Returns : r # c.ret => ret'[r] = ret[r] /\ restocks'[r] = restocks[r]
    BY <1>2, <1>3, <1>4
<1> QED
    BY <1>1, <1>2, <1>3, <1>5, <1>6, <1>7, FinishMoves

LEMMA StepClaims == ClaimInv /\ [Next]_vars => ClaimInv'
<1> SUFFICES ASSUME ClaimInv, [Next]_vars PROVE ClaimInv'
    OBVIOUS
<1>1. /\ Shapes /\ ret \in [Returns -> ReturnRows]
      /\ restocks \in [Returns -> [times : Nat, qty : Nat]]
    BY DEF ClaimInv, Shapes, RetTypeOK
<1>2. \A w \in Workers : req[w].at = "claimed" => req[w].ret \in Returns
    BY <1>1, ShapeOfReturnRequest DEF Shapes, ReturnAt
<1> DEFINE Counted(r) == /\ restocks[r].times <= 1
                         /\ ret[r].status \in {"ABSENT", "PENDING"} => restocks[r].times = 0
(* Every return counts right after the step, and a claim that is kept still *)
(* holds a pending return.                                                  *)
           Kept(v) == req[v].at = "claimed" /\ req'[v] = req[v]
                        => ret'[req[v].ret].status = "PENDING"
           Goal == /\ \A r \in Returns : Counted(r)'
                   /\ \A v \in Workers : Kept(v)
<1>3. Goal
  <2>1. CASE UNCHANGED <<ret, restocks>>
      BY <1>2, <2>1 DEF ClaimInv
  <2>2. ASSUME NEW r \in Returns, NEW row \in ReturnRows, Created(r, row)
        PROVE  Goal
    <3>1. \A q \in Returns : Counted(q)'
        BY <1>1, <2>2 DEF Created, ClaimInv
    <3>2. \A v \in Workers : Kept(v)
        BY <1>1, <1>2, <2>2 DEF Created, ClaimInv
    <3> QED
        BY <3>1, <3>2
  <2>3. ASSUME NEW r \in Returns, NEW row \in ReturnRows, Rewritten(r, row)
        PROVE  Goal
    <3>1. \A q \in Returns : Counted(q)'
        BY <1>1, <2>3 DEF Rewritten, ClaimInv
    <3>2. \A v \in Workers : Kept(v)
      <4>1. \A v \in Workers : req[v].at = "claimed" => req[v].ret # r
          BY <1>1, <2>3, FreeIsUnclaimed DEF Rewritten
      <4> QED
          BY <1>1, <1>2, <2>3, <4>1 DEF Rewritten, ClaimInv
    <3> QED
        BY <3>1, <3>2
  <2>4. ASSUME NEW w \in Workers, CommitClose(w)
        PROVE  Goal
    <3>1. PICK r \in Returns : r = req[w].ret
        BY <1>1, <2>4, ClosedMoves
    <3>2. /\ req[w].at = "claimed" /\ req'[w] = Idle
          /\ ret'[r].status = "CLOSED" /\ restocks'[r].times = restocks[r].times + 1
          /\ \A q \in Returns : q # r => ret'[q] = ret[q] /\ restocks'[q] = restocks[q]
        BY <1>1, <2>4, <3>1, ClosedMoves
    <3>3. restocks[r].times = 0
        BY <3>1, <3>2 DEF ClaimInv
    <3>4. \A q \in Returns : Counted(q)'
        BY <3>2, <3>3 DEF ClaimInv
    <3>5. \A v \in Workers : Kept(v)
      <4>1. ASSUME NEW v \in Workers, req[v].at = "claimed", req'[v] = req[v]
            PROVE  ret'[req[v].ret].status = "PENDING"
        <5>1. v # w
            BY <3>2, <4>1 DEF Idle
        <5>2. req[v].ret # r
            BY <3>1, <3>2, <4>1, <5>1 DEF ClaimInv
        <5> QED
            BY <1>2, <3>2, <4>1, <5>2 DEF ClaimInv
      <4> QED
          BY <4>1
    <3> QED
        BY <3>4, <3>5
  <2> HIDE DEF Goal
  <2> QED
      BY <1>1, <2>1, <2>2, <2>3, <2>4, ReturnMoves
<1>4. ASSUME NEW v \in Workers, req'[v].at = "claimed"
      PROVE  \/ req'[v] = req[v]
             \/ /\ req'[v].ret \in Returns
                /\ ret'[req'[v].ret].status = "PENDING"
                /\ RowsFree({req'[v].ret})
                /\ \A u \in Workers : u # v => req'[u] = req[u]
  <2>1. CASE ClaimClose(v)
    <3>1. PICK r \in Returns : r = req[v].ret
        BY <1>1, <2>1, ShapeOfReturnRequest DEF ClaimClose, Shapes, ReturnAt
    <3> DEFINE c == [at |-> "claimed", ret |-> r, qty |-> req[v].qty, shelf |-> ReadShelf,
                     rows |-> {r}]
    <3>2. /\ RowsFree({r}) /\ ret' = ret
          /\ IF StillPending(r) THEN req' = [req EXCEPT ![v] = c] ELSE Finish(v)
        BY <2>1, <3>1 DEF ClaimClose, retVars
    <3>3. c.ret = r
        OBVIOUS
    <3> HIDE DEF c
    <3>4. StillPending(r)
        BY <1>1, <1>4, <3>2, FinishMoves DEF Idle
    <3>5. req'[v] = c /\ \A u \in Workers : u # v => req'[u] = req[u]
        BY <1>1, <3>2, <3>4 DEF Shapes
    <3> QED
        BY <3>2, <3>3, <3>4, <3>5 DEF StillPending
  <2> QED
      BY <1>1, <1>4, <2>1, ClaimMoves
<1>5. \A w \in Workers : req'[w].at = "claimed" => ret'[req'[w].ret].status = "PENDING"
    BY <1>3, <1>4
<1>6. ASSUME NEW v \in Workers, NEW w \in Workers, v # w, req'[v].at = "claimed",
             req'[w].at = "claimed"
      PROVE  req'[v].ret # req'[w].ret
  <2>1. CASE req'[v] = req[v] /\ req'[w] = req[w]
      BY <1>6, <2>1 DEF ClaimInv
  <2>2. CASE req'[v] # req[v]
    <3>1. RowsFree({req'[v].ret}) /\ req'[v].ret \in Returns /\ req'[w] = req[w]
        BY <1>4, <1>6, <2>2
    <3> QED
        BY <1>1, <1>6, <3>1, FreeIsUnclaimed
  <2>3. CASE req'[w] # req[w]
    <3>1. RowsFree({req'[w].ret}) /\ req'[w].ret \in Returns /\ req'[v] = req[v]
        BY <1>4, <1>6, <2>3
    <3> QED
        BY <1>1, <1>6, <3>1, FreeIsUnclaimed
  <2> QED
      BY <2>1, <2>2, <2>3
<1>7. Shapes'
    BY <1>1, StepShapes
<1> QED
    BY <1>3, <1>5, <1>6, <1>7 DEF ClaimInv

(* The parts of a return go back on the shelf at most once, in every        *)
(* interleaving of closing, editing, shipping and crediting it: closing     *)
(* compares the status and locks the row in one statement                   *)
(* (closePartReturnToInventory), and no other write makes a return pending  *)
(* again.                                                                   *)
THEOREM PartsGoBackOnce == Spec => []RestockedOnce
<1>1. ClaimInv => RestockedOnce
  <2> SUFFICES ASSUME ClaimInv, NEW r \in Returns
               PROVE  /\ restocks[r].times <= 1
                      /\ restocks[r].times = 1 => ret[r].status # "PENDING"
      BY DEF RestockedOnce
  <2> QED
      BY DEF ClaimInv
<1> QED
    BY <1>1, InitClaims, StepClaims, PTL DEF Spec

-----------------------------------------------------------------------------
(* Until requests overlap, what every status says of the receipts is so.    *)
Owed(o) == \E s \in Slots : Remaining(po[o].lines[s]) > 0

Arrived(o) == \E s \in Slots : receipts[o][s] > 0

OrderClean(o) ==
    /\ \A s \in Slots : receipts[o][s] = po[o].lines[s].received
    /\ po[o].status \in {"ABSENT", "DRAFT", "ORDERED"} => ~Arrived(o)
    /\ po[o].status \in {"DRAFT", "ORDERED", "PARTIALLY_RECEIVED", "CANCELLED"} => Owed(o)
    /\ po[o].status = "PARTIALLY_RECEIVED" => Arrived(o)
    /\ po[o].status = "RECEIVED" => ~Owed(o)

(* A request has read of its order what it acts upon; a receipt has seen    *)
(* no more than the order has received, and if nothing was received since   *)
(* it has counted right.                                                    *)
Receives(r) == r.at \in {"read", "counted"} /\ r.kind = "receive"

WorkClean(r) ==
    /\ r.at = "ordering" \/ (r.at = "read" /\ r.kind = "order") => r.seen.status = "DRAFT"
    /\ r.at = "cancelling" \/ (r.at = "read" /\ r.kind = "cancel") => r.seen.status \in Open
    /\ r.at = "receiving" \/ Receives(r) => \E s \in Slots : r.units[s] > 0
    /\ Receives(r) =>
         \A s \in Slots : r.seen.lines[s].received <= po[r.order].lines[s].received
    /\ r.at = "counted" /\ r.seen.lines = po[r.order].lines =>
         (r.all <=> \A s \in Slots :
                       r.seen.lines[s].received + r.units[s] >= r.seen.lines[s].ordered)

StatusInv ==
    /\ ReceiptInv
    /\ ~overlapped => /\ \A o \in Orders : OrderClean(o)
                      /\ \A w \in Workers : WorkClean(req[w])

LEMMA InitStatus == Init => StatusInv
<1> SUFFICES ASSUME Init PROVE StatusInv
    OBVIOUS
<1>1. \A o \in Orders : OrderClean(o)
    BY DEF Init, POInit, NoOrder, NoLine, OrderClean, Owed, Arrived, Remaining
<1>2. \A w \in Workers : WorkClean(req[w])
    BY DEF Init, ShelfInit, Idle, WorkClean, Receives
<1> QED
    BY <1>1, <1>2, InitReceipts DEF StatusInv

(* What a step does to orders that leaves reads fresh.                      *)
Written(w, kind, st) ==
    /\ req[w].at = "read" /\ req[w].kind = kind
    /\ req[w].order \in Orders /\ req[w].seen = po[req[w].order]
    /\ po' = [po EXCEPT ![req[w].order].status = st]
    /\ receipts' = receipts

LEMMA CleanMoves ==
    ASSUME Shapes, [Next]_vars, ~overlapped'
    PROVE  /\ ~overlapped
           /\ \/ UNCHANGED <<po, receipts>>
              \/ /\ receipts' = receipts
                 /\ \E o \in Orders, lines \in LineInputs : Drafted(o, lines)
              \/ \E w \in Workers : \/ Written(w, "order", "ORDERED")
                                    \/ Written(w, "cancel", "CANCELLED")
                                    \/ CommitReceive(w)
<1> USE DEF OrderAt
<1> DEFINE Goal == /\ ~overlapped
                   /\ \/ UNCHANGED <<po, receipts>>
                      \/ /\ receipts' = receipts
                         /\ \E o \in Orders, lines \in LineInputs : Drafted(o, lines)
                      \/ \E w \in Workers : \/ Written(w, "order", "ORDERED")
                                            \/ Written(w, "cancel", "CANCELLED")
                                            \/ CommitReceive(w)
<1> SUFFICES Goal
    OBVIOUS
<1>1. CASE UNCHANGED vars
    BY <1>1 DEF vars, poVars
<1>2. CASE PartReturnStep
  <2>1. UNCHANGED <<po, receipts>>
      BY <1>2 DEF PartReturnStep, poVars
  <2>2. ~overlapped
    <3>1. ASSUME NEW w, NEW at, NEW checked, NEW row, WriteReturn(w, at, checked, row)
          PROVE  ~overlapped
        BY <3>1 DEF WriteReturn, Note
    <3>2. ASSUME NEW w, UpdateReturn(w) \/ ShipReturn(w) \/ CloseVendor(w) \/ Archive(w)
          PROVE  ~overlapped
        BY <3>1, <3>2 DEF UpdateReturn, ShipReturn, CloseVendor, Archive
    <3>3. ASSUME NEW w, NEW r,
                 \/ \E edit \in EditInputs : CheckUpdate(w, r, edit)
                 \/ \E credit \in {"PENDING", "RECEIVED"} : CheckCredit(w, r, credit)
                 \/ CheckShip(w, r) \/ CheckCloseVendor(w, r) \/ CheckClose(w, r)
                 \/ CheckArchive(w, r)
          PROVE  ~overlapped
        BY <3>3 DEF CheckUpdate, CheckCredit, CheckShip, CheckCloseVendor, CheckClose,
                    CheckArchive, Check
    <3>4. ASSUME NEW w, RecordCredit(w) \/ ClaimClose(w) \/ CommitClose(w)
          PROVE  ~overlapped
        BY <3>4 DEF RecordCredit, ClaimClose, CommitClose, Note
    <3>5. ASSUME NEW r, NEW type, NEW vendor, NEW p, NEW q, CreateReturn(r, type, vendor, p, q)
          PROVE  ~overlapped
        BY <3>5 DEF CreateReturn
    <3> QED
        BY <1>2, <3>2, <3>3, <3>4, <3>5 DEF PartReturnStep
  <2> QED
      BY <2>1, <2>2
<1>3. CASE PurchaseOrderStep
  <2>1. ASSUME NEW o \in Orders, NEW lines \in LineInputs, CreateDraft(o, lines)
        PROVE  Goal
    <3>1. ~overlapped /\ receipts' = receipts /\ Drafted(o, lines)
        BY <2>1 DEF CreateDraft, Drafted
    <3> QED
        BY <3>1
  <2>2. ASSUME NEW w \in Workers, CommitEdit(w)
        PROVE  Goal
    <3>1. ~overlapped /\ receipts' = receipts
        BY <2>2 DEF CommitEdit
    <3> QED
        BY <2>2, <3>1, EditMoves
  <2>3. ASSUME NEW w \in Workers, CommitOrder(w)
        PROVE  Goal
    <3>1. /\ ~overlapped /\ req[w].seen = po[req[w].order] /\ receipts' = receipts
          /\ req[w].at = "read" /\ req[w].kind = "order"
          /\ po' = [po EXCEPT ![req[w].order].status = "ORDERED"]
        BY <2>3 DEF CommitOrder, Note, FreshRows
    <3>2. req[w].order \in Orders
        BY <3>1, ShapeOfOrderRequest DEF Shapes
    <3>3. Written(w, "order", "ORDERED")
        BY <3>1, <3>2 DEF Written
    <3> QED
        BY <3>1, <3>3
  <2>4. ASSUME NEW w \in Workers, CommitCancel(w)
        PROVE  Goal
    <3>1. /\ ~overlapped /\ req[w].seen = po[req[w].order] /\ receipts' = receipts
          /\ req[w].at = "read" /\ req[w].kind = "cancel"
          /\ po' = [po EXCEPT ![req[w].order].status = "CANCELLED"]
        BY <2>4 DEF CommitCancel, Note, FreshRows
    <3>2. req[w].order \in Orders
        BY <3>1, ShapeOfOrderRequest DEF Shapes
    <3>3. Written(w, "cancel", "CANCELLED")
        BY <3>1, <3>2 DEF Written
    <3> QED
        BY <3>1, <3>3
  <2>5. ASSUME NEW w \in Workers, CommitReceive(w)
        PROVE  Goal
      BY <2>5 DEF CommitReceive, Note
  <2>6. ASSUME NEW w \in Workers,
               \/ \E o \in Orders : CheckOrder(w, o) \/ CheckCancel(w, o)
               \/ \E o \in Orders, lines \in LineInputs : CheckEdit(w, o, lines)
               \/ \E o \in Orders, qty \in Deliveries : CheckReceive(w, o, qty)
               \/ ReadForOrder(w) \/ ReadForReceive(w) \/ CountReceived(w) \/ ReadForCancel(w)
        PROVE  Goal
      BY <2>6 DEF CheckOrder, CheckCancel, CheckEdit, CheckReceive, ReadForOrder,
                  ReadForReceive, CountReceived, ReadForCancel, poVars
  <2> HIDE DEF Goal
  <2> QED
      BY <1>3, <2>1, <2>2, <2>3, <2>4, <2>5, <2>6 DEF PurchaseOrderStep
<1> QED
    BY <1>1, <1>2, <1>3 DEF Next

(* A receipt that has seen its order as it is adds to what arrived of it.   *)
LEMMA CleanReceipt ==
    ASSUME StatusInv, [Next]_vars, ~overlapped', NEW w \in Workers, CommitReceive(w)
    PROVE  LET r == req[w]
           IN /\ r.order \in Orders /\ Receives(r) /\ ReceiptSound(r) /\ WorkClean(r)
              /\ r.seen = po[r.order] /\ OrderClean(r.order)
              /\ \A s \in Slots :
                    /\ r.units[s] \in Nat /\ receipts[r.order][s] \in Nat
                    /\ po[r.order].lines[s].received \in Nat
                    /\ po[r.order].lines[s].ordered \in Nat
                    /\ po'[r.order].lines[s].ordered = po[r.order].lines[s].ordered
                    /\ po'[r.order].lines[s].received
                         = po[r.order].lines[s].received + r.units[s]
                    /\ receipts'[r.order][s] = receipts[r.order][s] + r.units[s]
<1>1. Shapes
    BY DEF StatusInv, ReceiptInv
<1>2. PICK r : r = req[w]
    OBVIOUS
<1>3. /\ r.order \in Orders /\ r.units \in [Slots -> Nat]
      /\ r.at = "counted" /\ ~overlapped /\ r.seen = po[r.order]
      /\ \A s \in Slots :
            /\ po'[r.order].lines[s].ordered = po[r.order].lines[s].ordered
            /\ po'[r.order].lines[s].received =
                 IF r.units[s] > 0 THEN r.seen.lines[s].received + r.units[s]
                 ELSE po[r.order].lines[s].received
            /\ receipts'[r.order][s] = receipts[r.order][s] + r.units[s]
    BY <1>1, <1>2, ReceiptStored
<1>4. ReceiptSound(r) /\ WorkClean(r) /\ OrderClean(r.order)
    BY <1>2, <1>3 DEF StatusInv, ReceiptInv
<1>5. Receives(r)
    BY <1>3, <1>4 DEF ReceiptSound, Receives
<1>6. po[r.order] \in POs /\ receipts[r.order] \in [Slots -> Nat]
    BY <1>1, <1>3 DEF Shapes
<1>7. ASSUME NEW s \in Slots
      PROVE  /\ r.units[s] \in Nat /\ receipts[r.order][s] \in Nat
             /\ po[r.order].lines[s].received \in Nat
             /\ po[r.order].lines[s].ordered \in Nat
    BY <1>3, <1>6, PurchaseOrderAssumption DEF POs, Lines
<1>8. ASSUME NEW s \in Slots
      PROVE  po'[r.order].lines[s].received = po[r.order].lines[s].received + r.units[s]
    BY <1>3, <1>7
<1> QED
    BY <1>2, <1>3, <1>4, <1>5, <1>7, <1>8

(* What has arrived of an order is never less afterwards, and only the same *)
(* when its lines are.                                                      *)
LEMMA ReceivedGrows ==
    ASSUME StatusInv, [Next]_vars, ~overlapped', NEW o \in Orders, Settled(o)
    PROVE  \/ po'[o].lines = po[o].lines
           \/ /\ \A s \in Slots : po[o].lines[s].received <= po'[o].lines[s].received
              /\ \E s \in Slots : po[o].lines[s].received < po'[o].lines[s].received
<1> DEFINE Goal == \/ po'[o].lines = po[o].lines
                   \/ /\ \A s \in Slots : po[o].lines[s].received <= po'[o].lines[s].received
                      /\ \E s \in Slots : po[o].lines[s].received < po'[o].lines[s].received
<1>1. Shapes /\ po \in [Orders -> POs]
    BY DEF StatusInv, ReceiptInv, Shapes
<1>2. CASE po' = po
    BY <1>2
<1>3. CASE \E q \in Orders, lines \in LineInputs : Drafted(q, lines)
    BY <1>1, <1>3 DEF Drafted, Settled
<1>4. ASSUME NEW w \in Workers, NEW kind, NEW st, Written(w, kind, st)
      PROVE  Goal
  <2>1. PICK q \in Orders : q = req[w].order /\ po' = [po EXCEPT ![q].status = st]
      BY <1>4 DEF Written
  <2>2. po[o] \in POs /\ po[q] \in POs
      BY <1>1
  <2> QED
      BY <1>1, <2>1, <2>2 DEF POs
<1>5. ASSUME NEW w \in Workers, CommitReceive(w)
      PROVE  Goal
  <2>1. PICK r : r = req[w]
      OBVIOUS
  <2>2. CASE o # r.order
      BY <1>1, <1>5, <2>1, <2>2, ReceiptStored
  <2>3. CASE o = r.order
    <3>1. /\ Receives(r) /\ WorkClean(r)
          /\ \A s \in Slots :
                /\ r.units[s] \in Nat /\ po[o].lines[s].received \in Nat
                /\ po'[o].lines[s].received = po[o].lines[s].received + r.units[s]
        BY <1>5, <2>1, <2>3, CleanReceipt
    <3>2. \E s \in Slots : r.units[s] > 0
        BY <3>1 DEF WorkClean
    <3>3. \A s \in Slots : po[o].lines[s].received <= po'[o].lines[s].received
        BY <3>1
    <3>4. \E s \in Slots : po[o].lines[s].received < po'[o].lines[s].received
        BY <3>1, <3>2
    <3> QED
        BY <3>3, <3>4
  <2> QED
      BY <2>2, <2>3
<1> HIDE DEF Goal
<1>6. Goal
    BY <1>1, <1>2, <1>3, <1>4, <1>5, CleanMoves DEF Goal
<1> QED
    BY <1>6 DEF Goal

LEMMA OrdersStayClean ==
    ASSUME StatusInv, [Next]_vars, ~overlapped', NEW o \in Orders PROVE OrderClean(o)'
<1> DEFINE Goal == OrderClean(o)'
<1> HIDE DEF Goal
<1>1. Shapes /\ po \in [Orders -> POs] /\ receipts \in [Orders -> [Slots -> Nat]]
    BY DEF StatusInv, ReceiptInv, Shapes
<1>2. ~overlapped /\ OrderClean(o)
    BY <1>1, CleanMoves DEF StatusInv
<1>3. CASE UNCHANGED <<po, receipts>>
    BY <1>2, <1>3 DEF OrderClean, Owed, Arrived, Goal
<1>4. ASSUME po'[o] = po[o], receipts'[o] = receipts[o]
      PROVE  Goal
    BY <1>2, <1>4 DEF OrderClean, Owed, Arrived, Goal
<1>5. ASSUME NEW q \in Orders, NEW lines \in LineInputs, Drafted(q, lines),
             receipts' = receipts
      PROVE  Goal
  <2>1. CASE q # o
    <3>1. po'[o] = po[o] /\ receipts'[o] = receipts[o]
        BY <1>1, <1>5, <2>1 DEF Drafted
    <3> QED
        BY <1>4, <3>1
  <2>2. CASE q = o
    <3>1. ~Arrived(o)
        BY <1>2, <1>5, <2>2 DEF Drafted, OrderClean
    <3>2. po'[o].status = "DRAFT" /\ po'[o].lines = lines
        BY <1>1, <1>5, <2>2 DEF Drafted
    <3>3. \A s \in Slots : receipts[o][s] = 0
        BY <1>1, <3>1 DEF Arrived
    <3>4. \A s \in Slots : lines[s].received = 0 /\ lines[s].ordered \in Nat
        BY PurchaseOrderAssumption DEF Lines
    <3>5. \E s \in Slots : lines[s].ordered > 0
        BY PurchaseOrderAssumption
    <3>6. Owed(o)'
        BY <3>2, <3>4, <3>5 DEF Owed, Remaining
    <3>7. ~Arrived(o)'
        BY <1>5, <3>1 DEF Arrived
    <3>8. \A s \in Slots : receipts'[o][s] = po'[o].lines[s].received
        BY <1>5, <3>2, <3>3, <3>4
    <3> QED
        BY <3>2, <3>6, <3>7, <3>8 DEF OrderClean, Goal
  <2> QED
      BY <2>1, <2>2
<1>6. ASSUME NEW w \in Workers,
             Written(w, "order", "ORDERED") \/ Written(w, "cancel", "CANCELLED")
      PROVE  Goal
  <2>1. PICK st \in {"ORDERED", "CANCELLED"} :
          Written(w, IF st = "ORDERED" THEN "order" ELSE "cancel", st)
      BY <1>6
  <2>2. PICK q \in Orders : q = req[w].order
      BY <2>1 DEF Written
  <2>3. po' = [po EXCEPT ![q].status = st] /\ receipts' = receipts /\ req[w].seen = po[q]
      BY <2>1, <2>2 DEF Written
  <2>4. CASE q # o
    <3>1. po'[o] = po[o] /\ receipts'[o] = receipts[o]
        BY <1>1, <2>3, <2>4
    <3> QED
        BY <1>4, <3>1
  <2>5. CASE q = o
    <3>1. po[o] \in POs
        BY <1>1
    <3>2. po'[o].status = st /\ po'[o].lines = po[o].lines
        BY <1>1, <2>3, <2>5, <3>1 DEF POs
    <3>3. WorkClean(req[w])
        BY <1>2 DEF StatusInv
    <3>4. IF st = "ORDERED" THEN po[o].status = "DRAFT" ELSE po[o].status \in Open
        BY <2>1, <2>3, <2>5, <3>3 DEF Written, WorkClean
    <3>5. Owed(o) /\ (st = "ORDERED" => ~Arrived(o))
        BY <1>2, <3>4 DEF OrderClean, Open
    <3>6. Owed(o)' /\ (Arrived(o)' <=> Arrived(o))
        BY <2>3, <3>2, <3>5 DEF Owed, Arrived
    <3>7. \A s \in Slots : receipts'[o][s] = po'[o].lines[s].received
        BY <1>2, <2>3, <3>2 DEF OrderClean
    <3> QED
        BY <3>2, <3>5, <3>6, <3>7 DEF OrderClean, Goal
  <2> QED
      BY <2>4, <2>5
<1>7. ASSUME NEW w \in Workers, CommitReceive(w)
      PROVE  Goal
  <2>1. PICK r : r = req[w]
      OBVIOUS
  <2>2. CASE o # r.order
    <3>1. po'[o] = po[o] /\ receipts'[o] = receipts[o]
        BY <1>1, <1>7, <2>1, <2>2, ReceiptStored
    <3> QED
        BY <1>4, <3>1
  <2>3. CASE o = r.order
    <3>1. /\ Receives(r) /\ WorkClean(r) /\ r.seen = po[o]
          /\ \A s \in Slots :
                /\ r.units[s] \in Nat /\ receipts[o][s] \in Nat
                /\ po[o].lines[s].received \in Nat /\ po[o].lines[s].ordered \in Nat
                /\ po'[o].lines[s].ordered = po[o].lines[s].ordered
                /\ po'[o].lines[s].received = po[o].lines[s].received + r.units[s]
                /\ receipts'[o][s] = receipts[o][s] + r.units[s]
        BY <1>7, <2>1, <2>3, CleanReceipt
    <3>2. r.at = "counted" /\ po'[o].status = ReceiptStatus(r.all)
        BY <1>1, <1>7, <2>1, <2>3, ReceiptStored
    <3>3. \A s \in Slots : receipts'[o][s] = po'[o].lines[s].received
        BY <1>2, <3>1 DEF OrderClean
    <3>4. Arrived(o)'
      <4>1. PICK s \in Slots : r.units[s] > 0
          BY <3>1 DEF WorkClean
      <4>2. receipts'[o][s] > 0
          BY <3>1, <4>1
      <4> QED
          BY <4>2 DEF Arrived
    <3>5. r.all <=> \A s \in Slots :
                       po[o].lines[s].received + r.units[s] >= po[o].lines[s].ordered
        BY <2>3, <3>1, <3>2 DEF WorkClean
    <3>6. r.all <=> ~Owed(o)'
        BY <3>1, <3>5 DEF Owed, Remaining
    <3> QED
        BY <3>2, <3>3, <3>4, <3>6 DEF OrderClean, ReceiptStatus, Goal
  <2> QED
      BY <2>2, <2>3
<1> QED
    BY <1>1, <1>3, <1>5, <1>6, <1>7, CleanMoves DEF Goal

LEMMA WorkStaysClean ==
    ASSUME StatusInv, [Next]_vars, ~overlapped', NEW v \in Workers PROVE WorkClean(req[v])'
<1> USE DEF OrderAt
<1> DEFINE Goal == WorkClean(req[v])'
<1> SUFFICES Goal
    OBVIOUS
<1> HIDE DEF Goal
<1>1. Shapes /\ po \in [Orders -> POs] /\ Shaped(req[v]) /\ ReceiptSound(req[v])
    BY DEF StatusInv, ReceiptInv, Shapes
<1>2. ~overlapped /\ WorkClean(req[v])
    BY <1>1, CleanMoves DEF StatusInv
<1>3. CASE req'[v] = req[v]
  <2>1. PICK r : r = req[v] /\ r = req'[v]
      BY <1>3
  <2>2. WorkClean(r) /\ ReceiptSound(r)
      BY <1>1, <1>2, <2>1
  <2>3. CASE ~Receives(r)
    <3>1. r.at # "counted"
        BY <2>2, <2>3 DEF ReceiptSound, Receives
    <3> QED
        BY <2>1, <2>2, <2>3, <3>1 DEF WorkClean, Receives, Goal
  <2>4. CASE Receives(r)
    <3>1. /\ r.order \in Orders /\ r.seen \in POs /\ Settled(r.order)
        BY <1>1, <2>1, <2>2, <2>4, ShapeOfOrderRequest DEF Receives, ReceiptSound
    <3>2. \/ po'[r.order].lines = po[r.order].lines
          \/ /\ \A s \in Slots : po[r.order].lines[s].received <= po'[r.order].lines[s].received
             /\ \E s \in Slots : po[r.order].lines[s].received < po'[r.order].lines[s].received
        BY <3>1, ReceivedGrows
    <3>3. CASE po'[r.order].lines = po[r.order].lines
        BY <2>1, <2>2, <2>4, <3>3 DEF WorkClean, Receives, Goal
    <3>4. ASSUME \A s \in Slots : po[r.order].lines[s].received
                                    <= po'[r.order].lines[s].received,
                 \E s \in Slots : po[r.order].lines[s].received < po'[r.order].lines[s].received
          PROVE  Goal
      <4>1. \A s \in Slots : /\ r.seen.lines[s].received \in Nat
                             /\ po[r.order].lines[s].received \in Nat
                             /\ po'[r.order].lines[s].received \in Nat
        <5>1. po[r.order] \in POs /\ po'[r.order] \in POs
            BY <1>1, <3>1, StepShapes DEF Shapes
        <5> QED
            BY <3>1, <5>1 DEF POs, Lines
      <4>2. \A s \in Slots : r.seen.lines[s].received <= po[r.order].lines[s].received
          BY <2>2, <2>4 DEF WorkClean
      <4>3. \A s \in Slots : r.seen.lines[s].received <= po'[r.order].lines[s].received
          BY <3>4, <4>1, <4>2
      <4>4. \E s \in Slots : r.seen.lines[s].received < po'[r.order].lines[s].received
          BY <3>4, <4>1, <4>2
      <4>5. r.seen.lines # po'[r.order].lines
          BY <4>1, <4>4
      <4> QED
          BY <2>1, <2>2, <2>4, <4>3, <4>5 DEF WorkClean, Receives, Goal
    <3> QED
        BY <3>2, <3>3, <3>4
  <2> QED
      BY <2>3, <2>4
<1>4. CASE req'[v].at \notin Writing
    BY <1>4 DEF Writing, WorkClean, Receives, Goal
<1>5. ASSUME NEW o \in Orders, CheckOrder(v, o)
      PROVE  Goal
  <2>1. req'[v].at = "ordering" /\ req'[v].seen = po[o] /\ po[o].status = "DRAFT"
      BY <1>1, <1>5 DEF CheckOrder, Shapes
  <2> QED
      BY <2>1 DEF WorkClean, Receives, Goal
<1>6. ASSUME NEW o \in Orders, CheckCancel(v, o)
      PROVE  Goal
  <2>1. req'[v].at = "cancelling" /\ req'[v].seen = po[o] /\ po[o].status \in Open
      BY <1>1, <1>6 DEF CheckCancel, Shapes
  <2> QED
      BY <2>1 DEF WorkClean, Receives, Goal
<1>7. ASSUME NEW o \in Orders, NEW qty \in Deliveries, CheckReceive(v, o, qty)
      PROVE  Goal
  <2>1. req'[v].at = "receiving" /\ req'[v].units = qty /\ \E s \in Slots : qty[s] > 0
      BY <1>1, <1>7 DEF CheckReceive, Shapes
  <2> QED
      BY <2>1 DEF WorkClean, Receives, Goal
<1>8. CASE ReadForOrder(v)
  <2>1. PICK seen \in POs : seen = req[v].seen
      BY <1>1, <1>8, ShapeOfOrderRequest DEF ReadForOrder
  <2>2. [s \in Slots |-> seen.lines[s].ordered] \in [Slots -> Nat]
      BY <2>1, PurchaseOrderAssumption DEF POs, Lines
  <2>3. HaveRead(v, "order", seen, [s \in Slots |-> seen.lines[s].ordered])
      BY <1>8, <2>1 DEF ReadForOrder
  <2>4. req[v].at = "ordering" /\ seen.status = "DRAFT"
      BY <1>2, <1>8, <2>1 DEF ReadForOrder, WorkClean
  <2>5. req'[v].at = "read" /\ req'[v].kind = "order" /\ req'[v].seen = seen
      BY <1>1, <2>2, <2>3, <2>4, HaveReadMoves
  <2> QED
      BY <2>4, <2>5 DEF WorkClean, Receives, Goal
<1>9. CASE ReadForCancel(v)
  <2>1. PICK seen \in POs : seen = req[v].seen
      BY <1>1, <1>9, ShapeOfOrderRequest DEF ReadForCancel
  <2>2. Outstanding(seen.lines) \in [Slots -> Nat]
      BY <2>1, PurchaseOrderAssumption DEF POs, Lines, Outstanding, Remaining
  <2>3. HaveRead(v, "cancel", seen, Outstanding(seen.lines))
      BY <1>9, <2>1 DEF ReadForCancel
  <2>4. req[v].at = "cancelling" /\ seen.status \in Open
      BY <1>2, <1>9, <2>1 DEF ReadForCancel, WorkClean
  <2>5. req'[v].at = "read" /\ req'[v].kind = "cancel" /\ req'[v].seen = seen
      BY <1>1, <2>2, <2>3, <2>4, HaveReadMoves
  <2> QED
      BY <2>4, <2>5 DEF WorkClean, Receives, Goal
<1>10. CASE ReadForReceive(v)
  <2>1. PICK c : c = req[v]
      OBVIOUS
  <2>2. /\ c.at = "receiving" /\ c.order \in Orders /\ c.units \in [Slots -> Nat]
        /\ po' = po /\ \E s \in Slots : c.units[s] > 0
      BY <1>1, <1>2, <1>10, <2>1, ShapeOfOrderRequest DEF ReadForReceive, poVars, WorkClean
  <2>3. CASE Finish(v)
    <3>1. req'[v].at = "idle"
        BY <1>1, <2>3, FinishMoves DEF Idle
    <3> QED
        BY <3>1 DEF WorkClean, Receives, Goal
  <2>4. CASE HaveRead(v, "receive", po[c.order], c.units)
    <3>1. po[c.order] \in POs
        BY <1>1, <2>2
    <3>2. /\ req'[v].at = "read" /\ req'[v].kind = "receive" /\ req'[v].order = c.order
          /\ req'[v].seen = po[c.order] /\ req'[v].units = c.units
        BY <1>1, <2>1, <2>2, <2>4, <3>1, HaveReadMoves
    <3>3. \A s \in Slots : po[c.order].lines[s].received \in Nat
        BY <3>1 DEF POs, Lines
    <3> QED
        BY <2>2, <3>2, <3>3 DEF WorkClean, Receives, Goal
  <2> QED
      BY <1>10, <2>1, <2>3, <2>4 DEF ReadForReceive
<1>11. CASE CountReceived(v)
  <2>1. PICK c : c = req[v]
      OBVIOUS
  <2>2. /\ c.at = "read" /\ c.kind = "receive"
        /\ req'[v].at = "counted" /\ req'[v].kind = "receive" /\ req'[v].order = c.order
        /\ req'[v].seen = c.seen /\ req'[v].units = c.units
        /\ req'[v].all <=> \A s \in Slots :
              (IF s \in TouchedSlots(c) THEN Received(c, s)
               ELSE po[c.order].lines[s].received) >= po[c.order].lines[s].ordered
        /\ po' = po
      BY <1>1, <1>11, <2>1, CountedMoves DEF CountReceived, poVars
  <2>3. WorkClean(c)
      BY <1>2, <2>1
  <2>4. c.units \in [Slots -> Nat] /\ c.seen \in POs
      BY <1>1, <2>1, <2>2, ShapeOfOrderRequest
  <2>5. ASSUME c.seen.lines = po[c.order].lines, NEW s \in Slots
        PROVE  (IF s \in TouchedSlots(c) THEN Received(c, s)
                ELSE po[c.order].lines[s].received)
                 = c.seen.lines[s].received + c.units[s]
    <3>1. c.units[s] \in Nat /\ c.seen.lines[s].received \in Nat
        BY <2>4 DEF POs, Lines
    <3> QED
        BY <2>5, <3>1 DEF TouchedSlots, Received
  <2>6. c.seen.lines = po[c.order].lines =>
          (req'[v].all <=> \A s \in Slots :
               c.seen.lines[s].received + c.units[s] >= c.seen.lines[s].ordered)
      BY <2>2, <2>5
  <2> QED
      BY <2>2, <2>3, <2>6 DEF WorkClean, Receives, Goal
<1> QED
    BY <1>1, <1>3, <1>4, <1>5, <1>6, <1>7, <1>8, <1>9, <1>10, <1>11, WriterMoves

LEMMA StepStatus == StatusInv /\ [Next]_vars => StatusInv'
<1>1. ReceiptInv /\ [Next]_vars => ReceiptInv'
    BY StepShapes, StoredWithinOrdered, ReceiptsStaySound DEF ReceiptInv
<1>2. ASSUME StatusInv, [Next]_vars, ~overlapped'
      PROVE  (\A o \in Orders : OrderClean(o)') /\ (\A w \in Workers : WorkClean(req[w])')
    BY <1>2, OrdersStayClean, WorkStaysClean
<1> QED
    BY <1>1, <1>2 DEF StatusInv

(* Until requests overlap, an order's status says what has arrived of it,   *)
(* for every mix of receipts in parts, edits and cancellations: what a      *)
(* receipt has counted (receivePurchaseOrderRecord, after its own lines are *)
(* written) still counts when it stores the status.                         *)
THEOREM StatusSaysWhatArrived == Spec => []StatusFollowsReceipts
<1>1. StatusInv => StatusFollowsReceipts
  <2> SUFFICES ASSUME StatusInv, ~overlapped, NEW o \in Orders
               PROVE  /\ po[o].status = "RECEIVED" => ~Owed(o)
                      /\ po[o].status = "PARTIALLY_RECEIVED" => Owed(o) /\ Arrived(o)
                      /\ po[o].status = "ORDERED" => Owed(o) /\ ~Arrived(o)
                      /\ po[o].status = "CANCELLED" => Owed(o)
                      /\ po[o].status = "DRAFT" => ~Arrived(o)
      BY DEF StatusFollowsReceipts, Owed, Arrived
  <2>1. OrderClean(o)
      BY DEF StatusInv
  <2> QED
      BY <2>1 DEF OrderClean
<1> QED
    BY <1>1, InitStatus, StepStatus, PTL DEF Spec

-----------------------------------------------------------------------------
(* Totals over lines.                                                       *)
LEMMA TotalIsSum ==
    ASSUME NEW qty, NEW slots
    PROVE  Total(qty, slots) = SumOn([s \in Slots |-> IF s \in slots THEN qty[s] ELSE 0], Slots)
<1> DEFINE f == [s \in Slots |-> IF s \in slots THEN qty[s] ELSE 0]
<1>1. DOMAIN f = Slots
    OBVIOUS
<1>2. FoldFunction(+, 0, f) = SumOn(f, DOMAIN f)
    BY FoldIsSum
<1>3. Total(qty, slots) = FoldFunction(+, 0, f)
    BY DEF Total
<1> QED
    BY <1>1, <1>2, <1>3

LEMMA TotalIsNat ==
    ASSUME NEW qty, NEW slots, \A s \in Slots : s \in slots => qty[s] \in Nat
    PROVE  Total(qty, slots) \in Nat
<1> DEFINE f == [s \in Slots |-> IF s \in slots THEN qty[s] ELSE 0]
<1>1. \A s \in Slots : f[s] \in Nat
    OBVIOUS
<1> HIDE DEF f
<1>2. SumOn(f, Slots) \in Nat
    BY <1>1, SumIsNat, PurchaseOrderAssumption
<1> QED
    BY <1>2, TotalIsSum DEF f

LEMMA TotalOfZeros ==
    ASSUME NEW qty, NEW slots, \A s \in Slots : s \in slots => qty[s] = 0
    PROVE  Total(qty, slots) = 0
<1> DEFINE f == [s \in Slots |-> IF s \in slots THEN qty[s] ELSE 0]
<1>1. \A s \in Slots : f[s] = 0
    OBVIOUS
<1> HIDE DEF f
<1>2. SumOn(f, Slots) = 0
    BY <1>1, SumOfZeros, PurchaseOrderAssumption
<1> QED
    BY <1>2, TotalIsSum DEF f

LEMMA TotalOfTotals ==
    ASSUME NEW a, NEW b, NEW c, NEW slots,
           \A s \in Slots : s \in slots => /\ a[s] \in Nat /\ b[s] \in Nat
                                           /\ c[s] = a[s] + b[s]
    PROVE  Total(c, slots) = Total(a, slots) + Total(b, slots)
<1> DEFINE f == [s \in Slots |-> IF s \in slots THEN a[s] ELSE 0]
           g == [s \in Slots |-> IF s \in slots THEN b[s] ELSE 0]
           h == [s \in Slots |-> IF s \in slots THEN c[s] ELSE 0]
<1>1. \A s \in Slots : f[s] \in Int /\ g[s] \in Int /\ h[s] = f[s] + g[s]
    OBVIOUS
<1>2. Total(a, slots) = SumOn(f, Slots) /\ Total(b, slots) = SumOn(g, Slots)
      /\ Total(c, slots) = SumOn(h, Slots)
    BY TotalIsSum
<1> HIDE DEF f, g, h
<1>3. SumOn(h, Slots) = SumOn(f, Slots) + SumOn(g, Slots)
    BY <1>1, SumOfSums, PurchaseOrderAssumption
<1> QED
    BY <1>2, <1>3

LEMMA TotalOfSame ==
    ASSUME NEW a, NEW b, NEW slots, \A s \in Slots : s \in slots => a[s] \in Nat /\ b[s] = a[s]
    PROVE  Total(b, slots) = Total(a, slots)
<1> DEFINE z == [s \in Slots |-> 0]
<1>1. Total(b, slots) = Total(a, slots) + Total(z, slots)
    BY TotalOfTotals
<1>2. Total(z, slots) = 0
    BY TotalOfZeros
<1>3. Total(a, slots) \in Nat
    BY TotalIsNat
<1> QED
    BY <1>1, <1>2, <1>3

(* What an order's row adds to each account.                                *)
RowOwes(row, p) ==
    IF row.status \in Open
      THEN Total([s \in Slots |-> Remaining(row.lines[s])], OfPart(row.lines, p)) ELSE 0

RowCame(row, arrivals, p) == Total(arrivals, OfPart(row.lines, p))

RowLinkCame(row, arrivals, l) == Total(arrivals, OfLink(row.lines, l))

RowLinkOrders(row, l) ==
    Total([s \in Slots |-> IF row.status \in Open \cup {"RECEIVED"} THEN row.lines[s].ordered
                           ELSE row.lines[s].received], OfLink(row.lines, l))

RowPutBack(row, restock, p) == IF row.part = p THEN restock.qty ELSE 0

OwedBy(rows, p) == [o \in Orders |-> RowOwes(rows[o], p)]
CameFrom(rows, arrivals, p) == [o \in Orders |-> RowCame(rows[o], arrivals[o], p)]
LinkCame(rows, arrivals, l) == [o \in Orders |-> RowLinkCame(rows[o], arrivals[o], l)]
LinkOrders(rows, l) == [o \in Orders |-> RowLinkOrders(rows[o], l)]
PutBack(rows, moves, p) == [r \in Returns |-> RowPutBack(rows[r], moves[r], p)]

ShelfAccounts ==
    \A p \in Parts :
        /\ onOrder[p] = InitialOnOrder[p] + SumOn(OwedBy(po, p), Orders)
        /\ onHand[p] = InitialOnHand[p] + SumOn(CameFrom(po, receipts, p), Orders)
                       + SumOn(PutBack(ret, restocks, p), Returns)

LinkAccounts ==
    \A l \in Links :
        /\ link[l].received = SumOn(LinkCame(po, receipts, l), Orders)
        /\ link[l].ordered = SumOn(LinkOrders(po, l), Orders)

(* These accounts are the properties that the runs check.                   *)
LEMMA AccountsAreProperties ==
    ASSUME Shapes
    PROVE  /\ (~overlapped => ShelfAccounts) => OnOrderIsOwed /\ ShelfAccountsForDeliveries
           /\ (~overlapped => LinkAccounts) => LinksFollowOrders
<1>1. ASSUME NEW p \in Parts
      PROVE  SumOver(OpenOrders, p, LAMBDA o, s : Remaining(po[o].lines[s]))
               = SumOn(OwedBy(po, p), Orders)
  <2>1. OwedBy(po, p) = [o \in Orders |->
            IF o \in OpenOrders
              THEN Total([s \in Slots |-> Remaining(po[o].lines[s])], OfPart(po[o].lines, p))
              ELSE 0]
      BY DEF OwedBy, RowOwes, OpenOrders
  <2>2. FoldFunction(+, 0, OwedBy(po, p)) = SumOn(OwedBy(po, p), Orders)
      BY FoldOver DEF OwedBy
  <2> QED
      BY <2>1, <2>2 DEF SumOver
<1>2. ASSUME NEW p \in Parts
      PROVE  SumOver(Orders, p, LAMBDA o, s : receipts[o][s])
               = SumOn(CameFrom(po, receipts, p), Orders)
  <2>1. \A o \in Orders : [s \in Slots |-> receipts[o][s]] = receipts[o]
      BY DEF Shapes
  <2>2. CameFrom(po, receipts, p) = [o \in Orders |->
            IF o \in Orders
              THEN Total([s \in Slots |-> receipts[o][s]], OfPart(po[o].lines, p))
              ELSE 0]
      BY <2>1 DEF CameFrom, RowCame
  <2>3. FoldFunction(+, 0, CameFrom(po, receipts, p)) = SumOn(CameFrom(po, receipts, p), Orders)
      BY FoldOver DEF CameFrom
  <2> QED
      BY <2>2, <2>3 DEF SumOver
<1>3. ASSUME NEW p \in Parts
      PROVE  FoldFunction(+, 0, [r \in Returns |-> IF ret[r].part = p THEN restocks[r].qty ELSE 0])
               = SumOn(PutBack(ret, restocks, p), Returns)
  <2>1. PutBack(ret, restocks, p)
          = [r \in Returns |-> IF ret[r].part = p THEN restocks[r].qty ELSE 0]
      BY DEF PutBack, RowPutBack
  <2>2. FoldFunction(+, 0, PutBack(ret, restocks, p)) = SumOn(PutBack(ret, restocks, p), Returns)
      BY FoldOver DEF PutBack
  <2> QED
      BY <2>1, <2>2
<1>4. ASSUME NEW l \in Links
      PROVE  FoldFunction(+, 0, [o \in Orders |-> Total(receipts[o], OfLink(po[o].lines, l))])
               = SumOn(LinkCame(po, receipts, l), Orders)
  <2>1. LinkCame(po, receipts, l)
          = [o \in Orders |-> Total(receipts[o], OfLink(po[o].lines, l))]
      BY DEF LinkCame, RowLinkCame
  <2>2. FoldFunction(+, 0, LinkCame(po, receipts, l)) = SumOn(LinkCame(po, receipts, l), Orders)
      BY FoldOver DEF LinkCame
  <2> QED
      BY <2>1, <2>2
<1>5. ASSUME NEW l \in Links
      PROVE  FoldFunction(+, 0, [o \in Orders |->
               Total([s \in Slots |->
                        IF po[o].status \in Open \cup {"RECEIVED"} THEN po[o].lines[s].ordered
                        ELSE po[o].lines[s].received], OfLink(po[o].lines, l))])
               = SumOn(LinkOrders(po, l), Orders)
  <2>1. LinkOrders(po, l) = [o \in Orders |->
               Total([s \in Slots |->
                        IF po[o].status \in Open \cup {"RECEIVED"} THEN po[o].lines[s].ordered
                        ELSE po[o].lines[s].received], OfLink(po[o].lines, l))]
      BY DEF LinkOrders, RowLinkOrders
  <2>2. FoldFunction(+, 0, LinkOrders(po, l)) = SumOn(LinkOrders(po, l), Orders)
      BY FoldOver DEF LinkOrders
  <2> QED
      BY <2>1, <2>2
<1> QED
    BY <1>1, <1>2, <1>3, <1>4, <1>5
    DEF OnOrderIsOwed, ShelfAccountsForDeliveries, LinksFollowOrders, ShelfAccounts, LinkAccounts

(* Everything has its type, what requests have read of the shelf and of     *)
(* linked lines included.                                                   *)
ReadsTyped(r) ==
    /\ r.at \in {"read", "counted", "claimed"} => r.shelf \in Shelves
    /\ r.at \in {"read", "counted"} =>
         /\ r.links \in [Links -> LinkRows]
         /\ r.rows \in SUBSET (Parts \cup Links \cup Orders \X Slots)

Typed ==
    /\ Shapes
    /\ onHand \in [Parts -> Int]
    /\ onOrder \in [Parts -> Int]
    /\ link \in [Links -> LinkRows]
    /\ \A w \in Workers : ReadsTyped(req[w])

LEMMA InitTyped == Init => Typed
<1> SUFFICES ASSUME Init PROVE Typed
    OBVIOUS
<1>1. link \in [Links -> LinkRows]
    BY DEF Init, POInit, LinkRows, LinkStatuses
<1>2. onHand \in [Parts -> Int] /\ onOrder \in [Parts -> Int]
    BY StockroomAssumption, ShelfAssumption DEF Init, ShelfInit
<1>3. \A w \in Workers : ReadsTyped(req[w])
    BY DEF Init, ShelfInit, Idle, ReadsTyped
<1> QED
    BY <1>1, <1>2, <1>3, InitShapes DEF Typed

(* Who writes stock and linked lines.                                       *)
Posts(w) == CommitOrder(w) \/ CommitReceive(w) \/ CommitCancel(w)

LEMMA ShelfMoves ==
    ASSUME Shapes, [Next]_vars
    PROVE  \/ /\ UNCHANGED <<onHand, onOrder, link, receipts>>
              /\ \/ UNCHANGED <<po, ret, restocks>>
                 \/ /\ UNCHANGED <<ret, restocks>>
                    /\ \E o \in Orders, lines \in LineInputs : Drafted(o, lines)
                 \/ /\ po' = po
                    /\ \E r \in Returns, row \in ReturnRows : Created(r, row) \/ Rewritten(r, row)
           \/ \E w \in Workers : \/ Posts(w) /\ UNCHANGED retVars
                                 \/ CommitClose(w) /\ UNCHANGED poVars
<1> DEFINE Still == UNCHANGED <<onHand, onOrder, link, receipts>>
           Goal == \/ /\ Still
                      /\ \/ UNCHANGED <<po, ret, restocks>>
                         \/ /\ UNCHANGED <<ret, restocks>>
                            /\ \E o \in Orders, lines \in LineInputs : Drafted(o, lines)
                         \/ /\ po' = po
                            /\ \E r \in Returns, row \in ReturnRows :
                                  Created(r, row) \/ Rewritten(r, row)
                   \/ \E w \in Workers : \/ Posts(w) /\ UNCHANGED retVars
                                         \/ CommitClose(w) /\ UNCHANGED poVars
<1> SUFFICES Goal
    OBVIOUS
<1>1. CASE UNCHANGED vars
    BY <1>1 DEF vars, Shelf, poVars, retVars
<1>2. CASE PurchaseOrderStep
  <2>0. UNCHANGED <<ret, restocks>> /\ UNCHANGED retVars
      BY <1>2 DEF PurchaseOrderStep, retVars
  <2>1. ASSUME NEW o \in Orders, NEW lines \in LineInputs, CreateDraft(o, lines)
        PROVE  Goal
    <3>1. Still /\ Drafted(o, lines)
        BY <2>1 DEF CreateDraft, Shelf, Drafted
    <3> QED
        BY <2>0, <3>1
  <2>2. ASSUME NEW w \in Workers,
               \/ \E o \in Orders : CheckOrder(w, o) \/ CheckCancel(w, o)
               \/ \E o \in Orders, lines \in LineInputs : CheckEdit(w, o, lines)
               \/ \E o \in Orders, qty \in Deliveries : CheckReceive(w, o, qty)
               \/ ReadForOrder(w) \/ ReadForReceive(w) \/ CountReceived(w) \/ ReadForCancel(w)
        PROVE  Goal
    <3>1. Still /\ po' = po
        BY <2>2 DEF CheckOrder, CheckCancel, CheckEdit, CheckReceive, ReadForOrder,
                    ReadForReceive, CountReceived, ReadForCancel, poVars, Shelf
    <3> QED
        BY <2>0, <3>1
  <2>3. ASSUME NEW w \in Workers, CommitEdit(w)
        PROVE  Goal
    <3>1. Still
        BY <2>3 DEF CommitEdit, Shelf
    <3> QED
        BY <2>0, <2>3, <3>1, EditMoves
  <2>4. ASSUME NEW w \in Workers, CommitOrder(w) \/ CommitReceive(w) \/ CommitCancel(w)
        PROVE  Goal
      BY <2>0, <2>4 DEF Posts
  <2> HIDE DEF Goal
  <2> QED
      BY <1>2, <2>1, <2>2, <2>3, <2>4 DEF PurchaseOrderStep
<1>3. CASE PartReturnStep
  <2>1. po' = po /\ receipts' = receipts /\ link' = link /\ UNCHANGED poVars
      BY <1>3 DEF PartReturnStep, poVars
  <2>2. ASSUME NEW w, NEW at, NEW checked, NEW row, WriteReturn(w, at, checked, row)
        PROVE  UNCHANGED Shelf
      BY <2>2 DEF WriteReturn
  <2>3. ASSUME NEW w, UpdateReturn(w) \/ ShipReturn(w) \/ CloseVendor(w) \/ Archive(w)
        PROVE  UNCHANGED Shelf
      BY <2>2, <2>3 DEF UpdateReturn, ShipReturn, CloseVendor, Archive
  <2>4. ASSUME NEW w, NEW r,
               \/ \E edit \in EditInputs : CheckUpdate(w, r, edit)
               \/ \E credit \in {"PENDING", "RECEIVED"} : CheckCredit(w, r, credit)
               \/ CheckShip(w, r) \/ CheckCloseVendor(w, r) \/ CheckClose(w, r)
               \/ CheckArchive(w, r)
        PROVE  UNCHANGED Shelf
      BY <2>4 DEF CheckUpdate, CheckCredit, CheckShip, CheckCloseVendor, CheckClose,
                  CheckArchive, Check
  <2>5. ASSUME NEW w, RecordCredit(w) \/ ClaimClose(w)
        PROVE  UNCHANGED Shelf
      BY <2>5 DEF RecordCredit, ClaimClose
  <2>6. ASSUME NEW r, NEW type, NEW vendor, NEW p, NEW q, CreateReturn(r, type, vendor, p, q)
        PROVE  UNCHANGED Shelf
      BY <2>6 DEF CreateReturn
  <2>7. CASE \E w \in Workers : CommitClose(w)
      BY <2>1, <2>7
  <2>8. CASE ~\E w \in Workers : CommitClose(w)
    <3>1. UNCHANGED Shelf
        BY <1>3, <2>3, <2>4, <2>5, <2>6, <2>8 DEF PartReturnStep
    <3>2. Still
        BY <2>1, <3>1 DEF Shelf
    <3>3. \/ UNCHANGED <<ret, restocks>>
          \/ \E r \in Returns, row \in ReturnRows : Created(r, row) \/ Rewritten(r, row)
        BY <2>8, ReturnMoves
    <3> HIDE DEF Still
    <3> QED
        BY <2>1, <3>2, <3>3
  <2> QED
      BY <2>7, <2>8
<1> QED
    BY <1>1, <1>2, <1>3 DEF Next

LEMMA StepReadsTyped ==
    ASSUME Typed, [Next]_vars, NEW v \in Workers PROVE ReadsTyped(req[v])'
<1> USE DEF OrderAt
<1> DEFINE Goal == ReadsTyped(req[v])'
<1> SUFFICES Goal
    OBVIOUS
<1> HIDE DEF Goal
<1>1. Shapes /\ Shaped(req[v]) /\ ReadsTyped(req[v])
    BY DEF Typed, Shapes
<1>2. ReadShelf \in Shelves /\ link \in [Links -> LinkRows]
    BY DEF Typed, ReadShelf, Shelves
<1>3. CASE req'[v] = req[v]
    BY <1>1, <1>3 DEF ReadsTyped, Goal
<1>4. CASE req'[v].at \notin {"read", "counted", "claimed"}
    BY <1>4 DEF ReadsTyped, Goal
<1>5. ASSUME NEW kind \in {"order", "receive", "cancel"}, NEW seen \in POs,
             NEW qty \in [Slots -> Nat], req[v].at \in OrderAt, HaveRead(v, kind, seen, qty)
      PROVE  Goal
  <2> DEFINE r == [at |-> "read", kind |-> kind, order |-> req[v].order, seen |-> seen,
                   units |-> qty, shelf |-> ReadShelf, links |-> link,
                   all |-> FALSE, rows |-> {}]
  <2>1. req'[v] = r
      BY <1>1, <1>5 DEF HaveRead, Shapes
  <2>2. r.shelf = ReadShelf /\ r.links = link /\ r.rows = {}
      OBVIOUS
  <2> HIDE DEF r
  <2> QED
      BY <1>2, <2>1, <2>2 DEF ReadsTyped, Goal
<1>6. CASE ReadForOrder(v)
  <2>1. PICK seen \in POs : seen = req[v].seen
      BY <1>1, <1>6, ShapeOfOrderRequest DEF ReadForOrder
  <2>2. [s \in Slots |-> seen.lines[s].ordered] \in [Slots -> Nat]
      BY <2>1, PurchaseOrderAssumption DEF POs, Lines
  <2> QED
      BY <1>5, <1>6, <2>1, <2>2 DEF ReadForOrder
<1>7. CASE ReadForCancel(v)
  <2>1. PICK seen \in POs : seen = req[v].seen
      BY <1>1, <1>7, ShapeOfOrderRequest DEF ReadForCancel
  <2>2. Outstanding(seen.lines) \in [Slots -> Nat]
      BY <2>1, PurchaseOrderAssumption DEF POs, Lines, Outstanding, Remaining
  <2> QED
      BY <1>5, <1>7, <2>1, <2>2 DEF ReadForCancel
<1>8. CASE ReadForReceive(v)
  <2>1. PICK c : c = req[v]
      OBVIOUS
  <2>2. c.at = "receiving" /\ c.order \in Orders /\ c.units \in [Slots -> Nat]
      BY <1>1, <1>8, <2>1, ShapeOfOrderRequest DEF ReadForReceive
  <2>3. po[c.order] \in POs
      BY <1>1, <2>2 DEF Shapes
  <2>4. CASE Finish(v)
    <3>1. req'[v].at = "idle"
        BY <1>1, <2>4, FinishMoves DEF Idle
    <3> QED
        BY <1>4, <3>1
  <2>5. CASE HaveRead(v, "receive", po[c.order], c.units)
      BY <1>5, <2>1, <2>2, <2>3, <2>5
  <2> QED
      BY <1>8, <2>1, <2>4, <2>5 DEF ReadForReceive
<1>9. CASE CountReceived(v)
  <2>1. PICK c : c = req[v]
      OBVIOUS
  <2>2. /\ c.at = "read" /\ c.order \in Orders /\ c.units \in [Slots -> Nat] /\ c.seen \in POs
        /\ c \in [at : {"read", "counted"}, kind : {"order", "receive", "cancel"},
                  order : Orders, seen : POs, units : [Slots -> Nat],
                  shelf : {c.shelf}, links : {c.links}, all : BOOLEAN,
                  rows : {c.rows}]
      BY <1>1, <1>9, <2>1, ShapeOfOrderRequest DEF CountReceived
  <2>3. RowsOf(c) \in SUBSET (Parts \cup Links \cup Orders \X Slots)
      BY <2>2 DEF RowsOf, TouchedParts, TouchedLinks, TouchedSlots, POs, Lines
  <2>4. PICK all : req' = [req EXCEPT ![v] = [c EXCEPT !.at = "counted", !.rows = RowsOf(c),
                                                        !.all = all]]
      BY <1>9, <2>1 DEF CountReceived
  <2> DEFINE r == [c EXCEPT !.at = "counted", !.rows = RowsOf(c), !.all = all]
  <2>5. r.shelf = c.shelf /\ r.links = c.links /\ r.rows = RowsOf(c)
      BY <2>2
  <2>6. req'[v] = r
      BY <1>1, <2>4 DEF Shapes
  <2> HIDE DEF r
  <2>7. c.shelf \in Shelves /\ c.links \in [Links -> LinkRows]
      BY <1>1, <2>1, <2>2 DEF ReadsTyped
  <2> QED
      BY <2>3, <2>5, <2>6, <2>7 DEF ReadsTyped, Goal
<1>10. CASE ClaimClose(v)
  <2> DEFINE c == [at |-> "claimed", ret |-> req[v].ret, qty |-> req[v].qty,
                   shelf |-> ReadShelf, rows |-> {req[v].ret}]
  <2>1. req'[v] = c \/ req'[v] = Idle
      BY <1>1, <1>10 DEF ClaimClose, Finish, Shapes
  <2>2. c.at = "claimed" /\ c.shelf = ReadShelf /\ Idle.at = "idle"
      BY DEF Idle
  <2> HIDE DEF c
  <2> QED
      BY <1>2, <2>1, <2>2 DEF ReadsTyped, Goal
<1>11. ASSUME NEW o \in Orders, CheckOrder(v, o) \/ CheckCancel(v, o)
       PROVE  Goal
  <2>1. req'[v].at \in {"ordering", "cancelling"}
      BY <1>1, <1>11 DEF CheckOrder, CheckCancel, Shapes
  <2> QED
      BY <1>4, <2>1
<1>12. ASSUME NEW o \in Orders, NEW qty \in Deliveries, CheckReceive(v, o, qty)
       PROVE  Goal
  <2>1. req'[v].at = "receiving"
      BY <1>1, <1>12 DEF CheckReceive, Shapes
  <2> QED
      BY <1>4, <2>1
<1>13. CASE req'[v].at # "claimed" /\ req'[v].at \notin Writing
    BY <1>4, <1>13 DEF Writing
<1>14. CASE req'[v].at = "claimed"
    BY <1>1, <1>3, <1>10, <1>14, ClaimMoves
<1> QED
    BY <1>1, <1>3, <1>6, <1>7, <1>8, <1>9, <1>11, <1>12, <1>13, <1>14, WriterMoves

(* What the transaction of an order writes to parts and linked lines: the   *)
(* totals of its units, and nothing where there are none.                   *)
PostRecord(r) ==
    /\ r.order \in Orders /\ r.seen \in POs /\ r.units \in [Slots -> Nat]
    /\ r.shelf \in Shelves /\ r.links \in [Links -> LinkRows]

MovedOf(r, p) == Total(r.units, OfPart(r.seen.lines, p))
LinkMovedOf(r, l) == Total(r.units, OfLink(r.seen.lines, l))

LEMMA PostReads ==
    ASSUME Typed, NEW w \in Workers, Posts(w)
    PROVE  PostRecord(req[w]) /\ req[w].at \in {"read", "counted"}
<1>1. req[w].at \in {"read", "counted"}
    BY DEF Posts, CommitOrder, CommitReceive, CommitCancel
<1>2. /\ req[w].order \in Orders /\ req[w].seen \in POs /\ req[w].units \in [Slots -> Nat]
    BY <1>1, ShapeOfOrderRequest DEF Typed, Shapes, OrderAt
<1> QED
    BY <1>1, <1>2 DEF Typed, ReadsTyped, PostRecord

LEMMA UntouchedMoveNothing ==
    ASSUME NEW r, PostRecord(r)
    PROVE  /\ \A p \in Parts : /\ MovedOf(r, p) \in Nat
                               /\ p \notin TouchedParts(r) => MovedOf(r, p) = 0
           /\ \A l \in Links : /\ LinkMovedOf(r, l) \in Nat
                               /\ l \notin TouchedLinks(r) => LinkMovedOf(r, l) = 0
<1>1. \A s \in Slots : r.units[s] \in Nat
    BY DEF PostRecord
<1>2. ASSUME NEW p \in Parts
      PROVE  MovedOf(r, p) \in Nat
    BY <1>1, TotalIsNat DEF MovedOf
<1>3. ASSUME NEW l \in Links
      PROVE  LinkMovedOf(r, l) \in Nat
    BY <1>1, TotalIsNat DEF LinkMovedOf
<1>4. ASSUME NEW p \in Parts, p \notin TouchedParts(r)
      PROVE  MovedOf(r, p) = 0
  <2>1. \A s \in Slots : s \in OfPart(r.seen.lines, p) => r.units[s] = 0
      BY <1>1, <1>4, StockroomAssumption, ShelfAssumption DEF TouchedParts, TouchedSlots, OfPart
  <2> QED
      BY <2>1, TotalOfZeros DEF MovedOf
<1>5. ASSUME NEW l \in Links, l \notin TouchedLinks(r)
      PROVE  LinkMovedOf(r, l) = 0
  <2>1. \A s \in Slots : s \in OfLink(r.seen.lines, l) => r.units[s] = 0
      BY <1>1, <1>5, PurchaseOrderAssumption DEF TouchedLinks, TouchedSlots, OfLink
  <2> QED
      BY <2>1, TotalOfZeros DEF LinkMovedOf
<1> QED
    BY <1>2, <1>3, <1>4, <1>5

LEMMA StockMoves ==
    ASSUME Typed, NEW r, PostRecord(r), NEW h \in {0, 1}, NEW n \in {-1, 1}, StockBy(r, h, n)
    PROVE  /\ onHand' \in [Parts -> Int] /\ onOrder' \in [Parts -> Int]
           /\ ShelfUnchanged(r.shelf, TouchedParts(r)) => \A p \in Parts :
                 /\ onHand'[p] = onHand[p] + h * MovedOf(r, p)
                 /\ onOrder'[p] = onOrder[p] + n * MovedOf(r, p)
<1>1. /\ onHand \in [Parts -> Int] /\ onOrder \in [Parts -> Int]
      /\ r.shelf.onHand \in [Parts -> Int] /\ r.shelf.onOrder \in [Parts -> Int]
    BY DEF Typed, PostRecord, Shelves
<1>2. /\ onHand' = [p \in Parts |-> IF p \in TouchedParts(r)
                                     THEN r.shelf.onHand[p] + h * MovedOf(r, p) ELSE onHand[p]]
      /\ onOrder' = [p \in Parts |-> IF p \in TouchedParts(r)
                                      THEN r.shelf.onOrder[p] + n * MovedOf(r, p) ELSE onOrder[p]]
    BY DEF StockBy, MoveStock, MovedOf
<1>3. \A p \in Parts : /\ MovedOf(r, p) \in Nat
                       /\ p \notin TouchedParts(r) => MovedOf(r, p) = 0
    BY UntouchedMoveNothing
<1>4. \A p \in Parts : h * MovedOf(r, p) \in Int /\ n * MovedOf(r, p) \in Int
    BY <1>3
<1>5. onHand' \in [Parts -> Int] /\ onOrder' \in [Parts -> Int]
    BY <1>1, <1>2, <1>4
<1>6. ASSUME ShelfUnchanged(r.shelf, TouchedParts(r)), NEW p \in Parts
      PROVE  /\ onHand'[p] = onHand[p] + h * MovedOf(r, p)
             /\ onOrder'[p] = onOrder[p] + n * MovedOf(r, p)
  <2>1. CASE p \in TouchedParts(r)
      BY <1>2, <1>6, <2>1 DEF ShelfUnchanged
  <2>2. CASE p \notin TouchedParts(r)
    <3>1. MovedOf(r, p) = 0
        BY <1>3, <2>2
    <3>2. onHand'[p] = onHand[p] /\ onOrder'[p] = onOrder[p]
        BY <1>2, <2>2
    <3>3. h * 0 = 0 /\ n * 0 = 0 /\ onHand[p] \in Int /\ onOrder[p] \in Int
        BY <1>1
    <3> QED
        BY <3>1, <3>2, <3>3
  <2> QED
      BY <2>1, <2>2
<1> QED
    BY <1>5, <1>6

(* The linked line that each of the three stores.                           *)
LEMMA LinkRowStored ==
    ASSUME NEW row \in LinkRows, NEW m \in Nat, NEW l
    PROVE  /\ LinkOrdered(l, row, m) \in LinkRows
           /\ LinkOrdered(l, row, m).received = row.received
           /\ LinkOrdered(l, row, m).ordered = row.ordered + m
           /\ LinkReceived(l, row, m) \in LinkRows
           /\ LinkReceived(l, row, m).received = row.received + m
           /\ LinkReceived(l, row, m).ordered = row.ordered
           /\ LinkCancelled(l, row, m) \in LinkRows
           /\ LinkCancelled(l, row, m).received = row.received
           /\ m <= row.ordered => LinkCancelled(l, row, m).ordered = row.ordered - m
<1>0. row.ordered \in Int /\ row.received \in Int /\ row.status \in LinkStatuses
    BY DEF LinkRows
<1>1. /\ LinkOrdered(l, row, m) \in LinkRows
      /\ LinkOrdered(l, row, m).received = row.received
      /\ LinkOrdered(l, row, m).ordered = row.ordered + m
  <2> DEFINE due == row.ordered + m
  <2>1. LinkOrdered(l, row, m) = [row EXCEPT !.ordered = due, !.status = "ORDERED"]
      BY DEF LinkOrdered
  <2>2. due \in Int
      BY <1>0
  <2> HIDE DEF due
  <2>3. /\ [row EXCEPT !.ordered = due, !.status = "ORDERED"] \in LinkRows
        /\ [row EXCEPT !.ordered = due, !.status = "ORDERED"].received = row.received
        /\ [row EXCEPT !.ordered = due, !.status = "ORDERED"].ordered = due
      BY <2>2 DEF LinkRows, LinkStatuses
  <2> QED
      BY <2>1, <2>3 DEF due
<1>2. /\ LinkReceived(l, row, m) \in LinkRows
      /\ LinkReceived(l, row, m).received = row.received + m
      /\ LinkReceived(l, row, m).ordered = row.ordered
  <2> DEFINE st == IF row.received + m >= row.ordered THEN "RECEIVED" ELSE "PARTIALLY_RECEIVED"
  <2>1. st \in LinkStatuses
      BY DEF LinkStatuses
  <2>2. LinkReceived(l, row, m) = [row EXCEPT !.received = row.received + m, !.status = st]
      BY DEF LinkReceived
  <2> DEFINE got == row.received + m
  <2>3. got \in Int
      BY <1>0
  <2> HIDE DEF st, got
  <2>4. /\ [row EXCEPT !.received = got, !.status = st] \in LinkRows
        /\ [row EXCEPT !.received = got, !.status = st].received = got
        /\ [row EXCEPT !.received = got, !.status = st].ordered = row.ordered
      BY <2>1, <2>3 DEF LinkRows
  <2> QED
      BY <2>2, <2>4 DEF got
<1>3. /\ LinkCancelled(l, row, m) \in LinkRows
      /\ LinkCancelled(l, row, m).received = row.received
      /\ m <= row.ordered => LinkCancelled(l, row, m).ordered = row.ordered - m
  <2> DEFINE left == IF row.ordered > m THEN row.ordered - m ELSE 0
             st == IF row.received >= Required[l] THEN "RECEIVED"
                   ELSE IF row.received > 0 THEN "BACKORDERED" ELSE "TO_BE_ORDERED"
  <2>1. left \in Int /\ (m <= row.ordered => left = row.ordered - m)
      BY <1>0
  <2>2. st \in LinkStatuses
      BY DEF LinkStatuses
  <2>3. LinkCancelled(l, row, m) = [row EXCEPT !.ordered = left, !.status = st]
      BY DEF LinkCancelled
  <2> HIDE DEF left, st
  <2>4. /\ [row EXCEPT !.ordered = left, !.status = st] \in LinkRows
        /\ [row EXCEPT !.ordered = left, !.status = st].ordered = left
        /\ [row EXCEPT !.ordered = left, !.status = st].received = row.received
      BY <2>1, <2>2 DEF LinkRows
  <2> QED
      BY <2>1, <2>3, <2>4
<1> QED
    BY <1>1, <1>2, <1>3

(* The links after ordering, receiving and cancelling.                      *)
LEMMA LinksOrdered ==
    ASSUME Typed, NEW r, PostRecord(r), LinksBy(r, LinkOrdered)
    PROVE  /\ link' \in [Links -> LinkRows]
           /\ (\A l \in TouchedLinks(r) : r.links[l] = link[l]) => \A l \in Links :
                 /\ link'[l].received = link[l].received
                 /\ link'[l].ordered = link[l].ordered + LinkMovedOf(r, l)
<1>1. link' = [l \in Links |-> IF l \in TouchedLinks(r)
                                THEN LinkOrdered(l, r.links[l], LinkMovedOf(r, l)) ELSE link[l]]
    BY DEF LinksBy, LinkMovedOf
<1>3. \A l \in Links : /\ LinkMovedOf(r, l) \in Nat /\ link[l] \in LinkRows /\ r.links[l] \in LinkRows
                       /\ l \notin TouchedLinks(r) => LinkMovedOf(r, l) = 0
    BY UntouchedMoveNothing DEF Typed, PostRecord
<1>4. \A l \in Links : link[l].ordered \in Int
    BY <1>3 DEF LinkRows
<1>5. link' \in [Links -> LinkRows]
    BY <1>1, <1>3, LinkRowStored
<1> QED
    BY <1>1, <1>3, <1>4, <1>5, LinkRowStored

LEMMA LinksReceived ==
    ASSUME Typed, NEW r, PostRecord(r), LinksBy(r, LinkReceived)
    PROVE  /\ link' \in [Links -> LinkRows]
           /\ (\A l \in TouchedLinks(r) : r.links[l] = link[l]) => \A l \in Links :
                 /\ link'[l].received = link[l].received + LinkMovedOf(r, l)
                 /\ link'[l].ordered = link[l].ordered
<1>1. link' = [l \in Links |-> IF l \in TouchedLinks(r)
                                THEN LinkReceived(l, r.links[l], LinkMovedOf(r, l)) ELSE link[l]]
    BY DEF LinksBy, LinkMovedOf
<1>3. \A l \in Links : /\ LinkMovedOf(r, l) \in Nat /\ link[l] \in LinkRows /\ r.links[l] \in LinkRows
                       /\ l \notin TouchedLinks(r) => LinkMovedOf(r, l) = 0
    BY UntouchedMoveNothing DEF Typed, PostRecord
<1>4. \A l \in Links : link[l].received \in Int
    BY <1>3 DEF LinkRows
<1>5. link' \in [Links -> LinkRows]
    BY <1>1, <1>3, LinkRowStored
<1> QED
    BY <1>1, <1>3, <1>4, <1>5, LinkRowStored

LEMMA LinksCancelled ==
    ASSUME Typed, NEW r, PostRecord(r), LinksBy(r, LinkCancelled)
    PROVE  /\ link' \in [Links -> LinkRows]
           /\ (\A l \in TouchedLinks(r) : r.links[l] = link[l]) => \A l \in Links :
                 /\ link'[l].received = link[l].received
                 /\ LinkMovedOf(r, l) <= link[l].ordered =>
                      link'[l].ordered = link[l].ordered - LinkMovedOf(r, l)
<1>1. link' = [l \in Links |-> IF l \in TouchedLinks(r)
                                THEN LinkCancelled(l, r.links[l], LinkMovedOf(r, l)) ELSE link[l]]
    BY DEF LinksBy, LinkMovedOf
<1>3. \A l \in Links : /\ LinkMovedOf(r, l) \in Nat /\ link[l] \in LinkRows /\ r.links[l] \in LinkRows
                       /\ l \notin TouchedLinks(r) => LinkMovedOf(r, l) = 0
    BY UntouchedMoveNothing DEF Typed, PostRecord
<1>4. \A l \in Links : link[l].ordered \in Int
    BY <1>3 DEF LinkRows
<1>5. link' \in [Links -> LinkRows]
    BY <1>1, <1>3, LinkRowStored
<1> QED
    BY <1>1, <1>3, <1>4, <1>5, LinkRowStored

LEMMA CloseMoves ==
    ASSUME Typed, NEW w \in Workers, CommitClose(w)
    PROVE  /\ onHand' \in [Parts -> Int] /\ onOrder' \in [Parts -> Int]
           /\ req[w].ret \in Returns /\ req[w].qty \in Nat
           /\ ~overlapped' => /\ ~overlapped
                /\ onOrder' = onOrder
                /\ \A p \in Parts : onHand'[p] = onHand[p]
                      + (IF ret[req[w].ret].part = p THEN req[w].qty ELSE 0)
<1>1. PICK c : c = req[w]
    OBVIOUS
<1>2. /\ c.at = "claimed" /\ c.ret \in Returns /\ c.qty \in Nat
    BY <1>1, ShapeOfReturnRequest, PartReturnAssumption
    DEF CommitClose, Typed, Shapes, ReturnAt
<1>3. PICK q : q = ret[c.ret].part
    OBVIOUS
<1>4. c.shelf.onHand \in [Parts -> Int] /\ c.shelf.onOrder \in [Parts -> Int]
    BY <1>1, <1>2 DEF Typed, ReadsTyped, Shelves
<1>5. /\ onHand' = [p \in Parts |-> IF p = q THEN c.shelf.onHand[p] + c.qty ELSE onHand[p]]
      /\ onOrder' = [p \in Parts |-> IF p = q THEN c.shelf.onOrder[p] + 0 ELSE onOrder[p]]
      /\ ~overlapped' => ~overlapped /\ ShelfUnchanged(c.shelf, {q})
    BY <1>1, <1>3 DEF CommitClose, MoveStock, Note
<1>6. onHand \in [Parts -> Int] /\ onOrder \in [Parts -> Int]
    BY DEF Typed
<1>7. onHand' \in [Parts -> Int] /\ onOrder' \in [Parts -> Int]
    BY <1>2, <1>4, <1>5, <1>6
<1>8. ASSUME ~overlapped'
      PROVE  /\ onOrder' = onOrder
             /\ \A p \in Parts : onHand'[p] = onHand[p] + (IF q = p THEN c.qty ELSE 0)
    BY <1>2, <1>5, <1>6, <1>8 DEF ShelfUnchanged
<1> QED
    BY <1>1, <1>2, <1>3, <1>5, <1>7, <1>8

LEMMA StepTyped == Typed /\ [Next]_vars => Typed'
<1> SUFFICES ASSUME Typed, [Next]_vars PROVE Typed'
    OBVIOUS
<1>1. Shapes' /\ \A v \in Workers : ReadsTyped(req[v])'
    BY StepShapes, StepReadsTyped DEF Typed
<1>2. /\ onHand' \in [Parts -> Int] /\ onOrder' \in [Parts -> Int]
      /\ link' \in [Links -> LinkRows]
  <2>1. CASE UNCHANGED <<onHand, onOrder, link>>
      BY <2>1 DEF Typed
  <2>2. ASSUME NEW w \in Workers, Posts(w)
        PROVE  /\ onHand' \in [Parts -> Int] /\ onOrder' \in [Parts -> Int]
               /\ link' \in [Links -> LinkRows]
    <3>1. PICK r : r = req[w] /\ PostRecord(r)
        BY <2>2, PostReads
    <3>2. CASE CommitOrder(w)
        BY <3>1, <3>2, StockMoves, LinksOrdered DEF CommitOrder
    <3>3. CASE CommitReceive(w)
        BY <3>1, <3>3, StockMoves, LinksReceived DEF CommitReceive, ReceiptMoves
    <3>4. CASE CommitCancel(w)
        BY <3>1, <3>4, StockMoves, LinksCancelled DEF CommitCancel
    <3> QED
        BY <2>2, <3>2, <3>3, <3>4 DEF Posts
  <2>3. ASSUME NEW w \in Workers, CommitClose(w), UNCHANGED poVars
        PROVE  /\ onHand' \in [Parts -> Int] /\ onOrder' \in [Parts -> Int]
               /\ link' \in [Links -> LinkRows]
      BY <2>3, CloseMoves DEF poVars, Typed
  <2> QED
      BY <2>1, <2>2, <2>3, ShelfMoves DEF Typed
<1> QED
    BY <1>1, <1>2 DEF Typed

LEMMA TypedRequest ==
    ASSUME NEW r, Shaped(r), ReadsTyped(r)
    PROVE  r \in PORequests \cup RetRequests \cup {Idle}
<1>1. CASE r = Idle
    BY <1>1
<1>2. CASE OrderShape(r)
  <2>1. [Slots -> Nat] \subseteq Quantities
      BY DEF Quantities
  <2>2. CASE r \in [at : {"read", "counted"}, kind : {"order", "receive", "cancel"},
                    order : Orders, seen : POs, units : [Slots -> Nat], shelf : {r.shelf},
                    links : {r.links}, all : BOOLEAN, rows : {r.rows}]
    <3>1. /\ r.shelf \in Shelves /\ r.links \in [Links -> LinkRows]
          /\ r.rows \in SUBSET (Parts \cup Links \cup Orders \X Slots)
        BY <2>2 DEF ReadsTyped
    <3>2. r.units \in Quantities
        BY <2>1, <2>2
    <3> QED
        BY <2>2, <3>1, <3>2 DEF PORequests
  <2>3. CASE r \in [at : {"receiving"}, order : Orders, units : [Slots -> Nat]]
      BY <2>1, <2>3 DEF PORequests
  <2>4. CASE \/ r \in [at : {"editing"}, order : Orders, lines : LineInputs]
             \/ r \in [at : {"ordering", "cancelling"}, order : Orders, seen : POs]
      BY <2>4 DEF PORequests
  <2> QED
      BY <1>2, <2>2, <2>3, <2>4 DEF OrderShape
<1>3. CASE ReturnShape(r)
  <2>1. CASE r \in [at : {"claimed"}, ret : Returns, qty : 1 .. MaxReturned,
                    shelf : {r.shelf}, rows : {{r.ret}}]
    <3>1. r.shelf \in Shelves
        BY <2>1 DEF ReadsTyped
    <3> QED
        BY <2>1, <3>1 DEF RetRequests, Shelves
  <2>2. CASE ~(r \in [at : {"claimed"}, ret : Returns, qty : 1 .. MaxReturned,
                      shelf : {r.shelf}, rows : {{r.ret}}])
      BY <1>3, <2>2 DEF ReturnShape, RetRequests
  <2> QED
      BY <2>1, <2>2
<1> QED
    BY <1>1, <1>2, <1>3 DEF Shaped

(* Parts, orders, returns and the requests about them keep their types.     *)
THEOREM ProcurementTyped == Spec => []TypeOK
<1>1. Typed => TypeOK
    BY TypedRequest DEF Typed, Shapes, TypeOK, POTypeOK
<1> QED
    BY <1>1, InitTyped, StepTyped, PTL DEF Spec

-----------------------------------------------------------------------------
(* The accounts.  What a request is going to add is what it has read of its *)
(* order.                                                                   *)
Asks(r) ==
    /\ r.at = "read" /\ r.kind = "order" =>
         r.units = [s \in Slots |-> r.seen.lines[s].ordered]
    /\ r.at = "read" /\ r.kind = "cancel" => r.units = Outstanding(r.seen.lines)

AccountInv ==
    /\ Typed
    /\ StatusInv
    /\ \A r \in Returns : ret[r].status = "ABSENT" => restocks[r].qty = 0
    /\ \A w \in Workers : Asks(req[w])
    /\ ~overlapped => ShelfAccounts /\ LinkAccounts

(* What an order's row adds is a quantity.                                  *)
LEMMA RowQuantities ==
    ASSUME NEW row \in POs, NEW arrivals \in [Slots -> Nat],
           \A s \in Slots : row.lines[s].received <= row.lines[s].ordered
    PROVE  /\ \A p : RowOwes(row, p) \in Nat /\ RowCame(row, arrivals, p) \in Nat
           /\ \A l : RowLinkCame(row, arrivals, l) \in Nat /\ RowLinkOrders(row, l) \in Nat
<1>1. \A s \in Slots : /\ row.lines[s].ordered \in Nat /\ row.lines[s].received \in Nat
                       /\ arrivals[s] \in Nat
    BY PurchaseOrderAssumption DEF POs, Lines
<1>2. \A s \in Slots : Remaining(row.lines[s]) \in Nat
    BY <1>1 DEF Remaining
<1>3. ASSUME NEW p
      PROVE  RowOwes(row, p) \in Nat
  <2>1. Total([s \in Slots |-> Remaining(row.lines[s])], OfPart(row.lines, p)) \in Nat
      BY <1>2, TotalIsNat
  <2> QED
      BY <2>1 DEF RowOwes
<1>4. ASSUME NEW p
      PROVE  RowCame(row, arrivals, p) \in Nat
    BY <1>1, TotalIsNat DEF RowCame
<1>5. ASSUME NEW l
      PROVE  RowLinkCame(row, arrivals, l) \in Nat
    BY <1>1, TotalIsNat DEF RowLinkCame
<1>6. ASSUME NEW l
      PROVE  RowLinkOrders(row, l) \in Nat
    BY <1>1, TotalIsNat DEF RowLinkOrders
<1> QED
    BY <1>3, <1>4, <1>5, <1>6

(* When one order changes, so does each account by as much.                 *)
LEMMA SumMoves ==
    ASSUME NEW S, IsFiniteSet(S), NEW e \in S, NEW f, NEW g,
           \A x \in S : f[x] \in Int /\ g[x] \in Int,
           \A x \in S : x # e => g[x] = f[x],
           NEW total \in Int, NEW total2, NEW start \in Int, NEW other \in Int,
           total = start + SumOn(f, S) + other,
           total2 = total + (g[e] - f[e])
    PROVE  total2 = start + SumOn(g, S) + other
<1>1. SumOn(g, S) = SumOn(f, S) + (g[e] - f[e])
    BY SumChanged
<1>2. SumOn(f, S) \in Int /\ f[e] \in Int /\ g[e] \in Int
    BY SumIsInt
<1> QED
    BY <1>1, <1>2

(* Posting an order keeps the accounts if what its row now adds is what     *)
(* stock and linked lines have moved by.                                    *)
LEMMA OrderPosted ==
    ASSUME Typed, StatusInv, Typed', StatusInv', ShelfAccounts, LinkAccounts,
           UNCHANGED <<ret, restocks>>, NEW q \in Orders,
           \A o \in Orders : o # q => po'[o] = po[o] /\ receipts'[o] = receipts[o],
           \A p \in Parts :
              /\ onOrder'[p] = onOrder[p] + (RowOwes(po'[q], p) - RowOwes(po[q], p))
              /\ onHand'[p] = onHand[p]
                    + (RowCame(po'[q], receipts'[q], p) - RowCame(po[q], receipts[q], p)),
           \A l \in Links :
              /\ link'[l].received = link[l].received
                    + (RowLinkCame(po'[q], receipts'[q], l) - RowLinkCame(po[q], receipts[q], l))
              /\ link'[l].ordered = link[l].ordered
                    + (RowLinkOrders(po'[q], l) - RowLinkOrders(po[q], l))
    PROVE  ShelfAccounts' /\ LinkAccounts'
<1>0. IsFiniteSet(Orders) /\ IsFiniteSet(Returns)
    BY PurchaseOrderAssumption, PartReturnAssumption
<1>1. \A o \in Orders :
        /\ \A p : RowOwes(po[o], p) \in Int /\ RowCame(po[o], receipts[o], p) \in Int
        /\ \A l : RowLinkCame(po[o], receipts[o], l) \in Int /\ RowLinkOrders(po[o], l) \in Int
  <2> SUFFICES ASSUME NEW o \in Orders
               PROVE  /\ \A p : RowOwes(po[o], p) \in Int /\ RowCame(po[o], receipts[o], p) \in Int
                      /\ \A l : /\ RowLinkCame(po[o], receipts[o], l) \in Int
                                /\ RowLinkOrders(po[o], l) \in Int
      OBVIOUS
  <2>1. /\ po[o] \in POs /\ receipts[o] \in [Slots -> Nat]
        /\ \A s \in Slots : po[o].lines[s].received <= po[o].lines[s].ordered
      BY DEF StatusInv, ReceiptInv, Shapes, ReceivedWithinOrdered
  <2> QED
      BY <2>1, RowQuantities
<1>2. \A o \in Orders :
        /\ \A p : RowOwes(po'[o], p) \in Int /\ RowCame(po'[o], receipts'[o], p) \in Int
        /\ \A l : RowLinkCame(po'[o], receipts'[o], l) \in Int /\ RowLinkOrders(po'[o], l) \in Int
  <2> SUFFICES ASSUME NEW o \in Orders
               PROVE  /\ \A p : RowOwes(po'[o], p) \in Int /\ RowCame(po'[o], receipts'[o], p) \in Int
                      /\ \A l : /\ RowLinkCame(po'[o], receipts'[o], l) \in Int
                                /\ RowLinkOrders(po'[o], l) \in Int
      OBVIOUS
  <2>1. /\ po'[o] \in POs /\ receipts'[o] \in [Slots -> Nat]
        /\ \A s \in Slots : po'[o].lines[s].received <= po'[o].lines[s].ordered
      BY DEF StatusInv, ReceiptInv, Shapes, ReceivedWithinOrdered
  <2> QED
      BY <2>1, RowQuantities
<1>3. /\ ret \in [Returns -> ReturnRows] /\ restocks \in [Returns -> [times : Nat, qty : Nat]]
    BY DEF Typed, Shapes, RetTypeOK
<1>4. ASSUME NEW p \in Parts
      PROVE  onOrder'[p] = InitialOnOrder[p] + SumOn(OwedBy(po', p), Orders)
  <2> DEFINE f == OwedBy(po, p)
             g == OwedBy(po', p)
  <2>1. \A o \in Orders : f[o] = RowOwes(po[o], p) /\ g[o] = RowOwes(po'[o], p)
      BY DEF OwedBy
  <2>2. onOrder[p] = InitialOnOrder[p] + SumOn(f, Orders)
      BY DEF ShelfAccounts
  <2>3. onOrder[p] \in Int /\ InitialOnOrder[p] \in Int
      BY StockroomAssumption, ShelfAssumption DEF Typed
  <2> HIDE DEF f, g
  <2>4. /\ \A o \in Orders : f[o] \in Int /\ g[o] \in Int
        /\ \A o \in Orders : o # q => g[o] = f[o]
      BY <1>1, <1>2, <2>1
  <2>5. onOrder'[p] = onOrder[p] + (g[q] - f[q])
      BY <2>1
  <2>6. SumOn(f, Orders) \in Int /\ SumOn(g, Orders) \in Int
      BY <1>0, <2>4, SumIsInt
  <2>7. onOrder[p] = InitialOnOrder[p] + SumOn(f, Orders) + 0
      BY <2>2, <2>3, <2>6
  <2>8. onOrder'[p] = InitialOnOrder[p] + SumOn(g, Orders) + 0
      BY <1>0, <2>3, <2>4, <2>5, <2>7, SumMoves
  <2> QED
      BY <2>3, <2>6, <2>8 DEF g
<1>5. ASSUME NEW p \in Parts
      PROVE  onHand'[p] = InitialOnHand[p] + SumOn(CameFrom(po', receipts', p), Orders)
                          + SumOn(PutBack(ret', restocks', p), Returns)
  <2> DEFINE f == CameFrom(po, receipts, p)
             g == CameFrom(po', receipts', p)
             b == PutBack(ret, restocks, p)
  <2>1. \A o \in Orders : /\ f[o] = RowCame(po[o], receipts[o], p)
                          /\ g[o] = RowCame(po'[o], receipts'[o], p)
      BY DEF CameFrom
  <2>2. onHand[p] = InitialOnHand[p] + SumOn(f, Orders) + SumOn(b, Returns)
      BY DEF ShelfAccounts
  <2>3. onHand[p] \in Int /\ InitialOnHand[p] \in Int
      BY StockroomAssumption, ShelfAssumption DEF Typed
  <2>4. \A r \in Returns : b[r] \in Int
      BY <1>3 DEF PutBack, RowPutBack
  <2>5. PutBack(ret', restocks', p) = b
      OBVIOUS
  <2> HIDE DEF f, g, b
  <2>6. /\ \A o \in Orders : f[o] \in Int /\ g[o] \in Int
        /\ \A o \in Orders : o # q => g[o] = f[o]
      BY <1>1, <1>2, <2>1
  <2>7. onHand'[p] = onHand[p] + (g[q] - f[q])
      BY <2>1
  <2>8. SumOn(b, Returns) \in Int
      BY <1>0, <2>4, SumIsInt
  <2>9. onHand'[p] = InitialOnHand[p] + SumOn(g, Orders) + SumOn(b, Returns)
      BY <1>0, <2>2, <2>3, <2>6, <2>7, <2>8, SumMoves
  <2> QED
      BY <2>5, <2>9 DEF g
<1>6. \A l \in Links : link[l].received \in Int /\ link[l].ordered \in Int
    BY DEF Typed, LinkRows
<1>7. ASSUME NEW l \in Links
      PROVE  link'[l].received = SumOn(LinkCame(po', receipts', l), Orders)
  <2> DEFINE f == LinkCame(po, receipts, l)
             g == LinkCame(po', receipts', l)
  <2>1. \A o \in Orders : /\ f[o] = RowLinkCame(po[o], receipts[o], l)
                          /\ g[o] = RowLinkCame(po'[o], receipts'[o], l)
      BY DEF LinkCame
  <2>2. link[l].received = SumOn(f, Orders)
      BY DEF LinkAccounts
  <2> HIDE DEF f, g
  <2>3. /\ \A o \in Orders : f[o] \in Int /\ g[o] \in Int
        /\ \A o \in Orders : o # q => g[o] = f[o]
      BY <1>1, <1>2, <2>1
  <2>4. link'[l].received = link[l].received + (g[q] - f[q])
      BY <2>1
  <2>5. SumOn(g, Orders) = SumOn(f, Orders) + (g[q] - f[q])
      BY <1>0, <2>3, SumChanged
  <2> QED
      BY <2>2, <2>4, <2>5 DEF g
<1>8. ASSUME NEW l \in Links
      PROVE  link'[l].ordered = SumOn(LinkOrders(po', l), Orders)
  <2> DEFINE f == LinkOrders(po, l)
             g == LinkOrders(po', l)
  <2>1. \A o \in Orders : f[o] = RowLinkOrders(po[o], l) /\ g[o] = RowLinkOrders(po'[o], l)
      BY DEF LinkOrders
  <2>2. link[l].ordered = SumOn(f, Orders)
      BY DEF LinkAccounts
  <2> HIDE DEF f, g
  <2>3. /\ \A o \in Orders : f[o] \in Int /\ g[o] \in Int
        /\ \A o \in Orders : o # q => g[o] = f[o]
      BY <1>1, <1>2, <2>1
  <2>4. link'[l].ordered = link[l].ordered + (g[q] - f[q])
      BY <2>1
  <2>5. SumOn(g, Orders) = SumOn(f, Orders) + (g[q] - f[q])
      BY <1>0, <2>3, SumChanged
  <2> QED
      BY <2>2, <2>4, <2>5 DEF g
<1> QED
    BY <1>4, <1>5, <1>7, <1>8 DEF ShelfAccounts, LinkAccounts

Posting(q) ==
    /\ \A o \in Orders : o # q => po'[o] = po[o] /\ receipts'[o] = receipts[o]
    /\ \A p \in Parts :
          /\ onOrder'[p] = onOrder[p] + (RowOwes(po'[q], p) - RowOwes(po[q], p))
          /\ onHand'[p] = onHand[p]
                + (RowCame(po'[q], receipts'[q], p) - RowCame(po[q], receipts[q], p))
    /\ \A l \in Links :
          /\ link'[l].received = link[l].received
                + (RowLinkCame(po'[q], receipts'[q], l) - RowLinkCame(po[q], receipts[q], l))
          /\ link'[l].ordered = link[l].ordered
                + (RowLinkOrders(po'[q], l) - RowLinkOrders(po[q], l))

LEMMA PostingKeepsAccounts ==
    ASSUME Typed, StatusInv, Typed', StatusInv', ShelfAccounts, LinkAccounts,
           UNCHANGED <<ret, restocks>>, NEW q \in Orders, Posting(q)
    PROVE  ShelfAccounts' /\ LinkAccounts'
<1>1. /\ \A o \in Orders : o # q => po'[o] = po[o] /\ receipts'[o] = receipts[o]
      /\ \A p \in Parts :
            /\ onOrder'[p] = onOrder[p] + (RowOwes(po'[q], p) - RowOwes(po[q], p))
            /\ onHand'[p] = onHand[p]
                  + (RowCame(po'[q], receipts'[q], p) - RowCame(po[q], receipts[q], p))
      /\ \A l \in Links :
            /\ link'[l].received = link[l].received
                  + (RowLinkCame(po'[q], receipts'[q], l) - RowLinkCame(po[q], receipts[q], l))
            /\ link'[l].ordered = link[l].ordered
                  + (RowLinkOrders(po'[q], l) - RowLinkOrders(po[q], l))
    BY DEF Posting
<1> QED
    BY <1>1, OrderPosted

(* The rows of an order and what requests and accounts say of them.         *)
LEMMA OrderRow ==
    ASSUME StatusInv, NEW q \in Orders
    PROVE  /\ po[q] \in POs /\ po[q].lines \in [Slots -> Lines]
           /\ receipts[q] \in [Slots -> Nat]
           /\ \A s \in Slots :
                /\ po[q].lines[s].received \in Nat /\ po[q].lines[s].ordered \in Nat
                /\ po[q].lines[s].received <= po[q].lines[s].ordered
                /\ Remaining(po[q].lines[s]) \in Nat
                /\ Remaining(po[q].lines[s]) = po[q].lines[s].ordered - po[q].lines[s].received
<1>1. /\ po[q] \in POs /\ receipts[q] \in [Slots -> Nat]
      /\ \A s \in Slots : po[q].lines[s].received <= po[q].lines[s].ordered
    BY DEF StatusInv, ReceiptInv, Shapes, ReceivedWithinOrdered
<1>2. po[q].lines \in [Slots -> Lines]
    BY <1>1 DEF POs
<1>3. \A s \in Slots : po[q].lines[s].received \in Nat /\ po[q].lines[s].ordered \in Nat
    BY <1>2, PurchaseOrderAssumption DEF Lines
<1> QED
    BY <1>1, <1>2, <1>3 DEF Remaining

LEMMA DraftPosts ==
    ASSUME Typed, StatusInv, ~overlapped, NEW q \in Orders, NEW lines \in LineInputs,
           Drafted(q, lines), UNCHANGED <<onHand, onOrder, link, receipts>>
    PROVE  Posting(q)
<1>1. po \in [Orders -> POs] /\ OrderClean(q)
    BY DEF StatusInv, ReceiptInv, Shapes
<1>2. /\ po[q].status \in {"ABSENT", "DRAFT"}
      /\ po' = [po EXCEPT ![q] = [status |-> "DRAFT", lines |-> lines]]
    BY DEF Drafted
<1>3. /\ po'[q].status = "DRAFT" /\ po'[q].lines = lines
      /\ \A o \in Orders : o # q => po'[o] = po[o] /\ receipts'[o] = receipts[o]
    BY <1>1, <1>2
<1>4. \A s \in Slots : receipts[q][s] = 0 /\ po[q].lines[s].received = 0 /\ lines[s].received = 0
  <2>1. \A s \in Slots : receipts[q][s] \in Nat
      BY OrderRow
  <2>2. ~Arrived(q)
      BY <1>1, <1>2 DEF OrderClean
  <2>3. \A s \in Slots : receipts[q][s] = 0
      BY <2>1, <2>2 DEF Arrived
  <2> QED
      BY <1>1, <2>3, PurchaseOrderAssumption DEF OrderClean
<1>5. ASSUME NEW p \in Parts
      PROVE  /\ RowOwes(po'[q], p) = 0 /\ RowOwes(po[q], p) = 0
             /\ RowCame(po'[q], receipts'[q], p) = 0 /\ RowCame(po[q], receipts[q], p) = 0
  <2>1. RowOwes(po'[q], p) = 0 /\ RowOwes(po[q], p) = 0
      BY <1>2, <1>3 DEF RowOwes, Open
  <2>2. \A slots : Total(receipts[q], slots) = 0
      BY <1>4, TotalOfZeros
  <2> QED
      BY <2>1, <2>2 DEF RowCame
<1>6. ASSUME NEW l \in Links
      PROVE  /\ RowLinkOrders(po'[q], l) = 0 /\ RowLinkOrders(po[q], l) = 0
             /\ RowLinkCame(po'[q], receipts'[q], l) = 0
             /\ RowLinkCame(po[q], receipts[q], l) = 0
  <2>1. \A slots : Total(receipts[q], slots) = 0
      BY <1>4, TotalOfZeros
  <2>2. RowLinkOrders(po'[q], l) = 0
      BY <1>3, <1>4, TotalOfZeros DEF RowLinkOrders, Open
  <2>3. RowLinkOrders(po[q], l) = 0
      BY <1>2, <1>4, TotalOfZeros DEF RowLinkOrders, Open
  <2> QED
      BY <2>1, <2>2, <2>3 DEF RowLinkCame
<1>7. /\ \A p \in Parts : onOrder[p] \in Int /\ onHand[p] \in Int
      /\ \A l \in Links : link[l].received \in Int /\ link[l].ordered \in Int
    BY DEF Typed, LinkRows
<1> QED
    BY <1>3, <1>5, <1>6, <1>7 DEF Posting

(* Ordering moves what the draft orders onto the account of orders.         *)
LEMMA CommitOrderPosts ==
    ASSUME AccountInv, NEW w \in Workers, CommitOrder(w), ~overlapped'
    PROVE  req[w].order \in Orders /\ Posting(req[w].order)
<1>1. PICK r : r = req[w] /\ PostRecord(r)
    BY PostReads DEF AccountInv, Posts
<1>2. PICK q \in Orders : q = r.order
    BY <1>1 DEF PostRecord
<1>3. /\ r.at = "read" /\ r.kind = "order" /\ StockBy(r, 0, 1) /\ LinksBy(r, LinkOrdered)
      /\ po' = [po EXCEPT ![q].status = "ORDERED"] /\ receipts' = receipts
      /\ ~overlapped /\ r.seen = po[q] /\ ShelfUnchanged(r.shelf, TouchedParts(r))
      /\ \A l \in TouchedLinks(r) : r.links[l] = link[l]
    BY <1>1, <1>2 DEF CommitOrder, Note, FreshRows
<1>4. /\ Typed /\ StatusInv /\ Asks(r) /\ WorkClean(r) /\ OrderClean(q)
    BY <1>1, <1>3 DEF AccountInv, StatusInv
<1>5. po[q].status = "DRAFT" /\ ~Arrived(q)
    BY <1>3, <1>4 DEF WorkClean, OrderClean
<1>6. \A s \in Slots : /\ po[q].lines[s].ordered \in Nat
                       /\ receipts[q][s] = 0 /\ po[q].lines[s].received = 0
                       /\ r.units[s] = po[q].lines[s].ordered
                       /\ Remaining(po[q].lines[s]) = po[q].lines[s].ordered
  <2>1. \A s \in Slots : receipts[q][s] = 0
      BY <1>4, <1>5, OrderRow DEF Arrived
  <2>2. \A s \in Slots : r.units[s] = po[q].lines[s].ordered
      BY <1>3, <1>4 DEF Asks
  <2> QED
      BY <1>4, <2>1, <2>2, OrderRow DEF OrderClean
<1>7. /\ po'[q].status = "ORDERED" /\ po'[q].lines = po[q].lines
      /\ \A o \in Orders : o # q => po'[o] = po[o] /\ receipts'[o] = receipts[o]
  <2>1. po \in [Orders -> POs] /\ po[q] \in POs
      BY <1>4, OrderRow DEF Typed, Shapes
  <2> QED
      BY <1>3, <2>1 DEF POs
<1>8. ASSUME NEW p \in Parts
      PROVE  /\ onHand'[p] = onHand[p] + 0 * MovedOf(r, p)
             /\ onOrder'[p] = onOrder[p] + 1 * MovedOf(r, p)
             /\ MovedOf(r, p) \in Nat /\ onHand[p] \in Int /\ onOrder[p] \in Int
             /\ RowOwes(po[q], p) = 0 /\ RowOwes(po'[q], p) = MovedOf(r, p)
             /\ RowCame(po[q], receipts[q], p) = 0 /\ RowCame(po'[q], receipts'[q], p) = 0
  <2>1. /\ onHand'[p] = onHand[p] + 0 * MovedOf(r, p)
        /\ onOrder'[p] = onOrder[p] + 1 * MovedOf(r, p)
      BY <1>1, <1>3, <1>4, StockMoves
  <2>2. MovedOf(r, p) \in Nat /\ onHand[p] \in Int /\ onOrder[p] \in Int
      BY <1>1, <1>4, UntouchedMoveNothing DEF Typed
  <2>3. RowOwes(po[q], p) = 0
      BY <1>5 DEF RowOwes, Open
  <2>4. RowOwes(po'[q], p) = MovedOf(r, p)
    <3> DEFINE rest == [s \in Slots |-> Remaining(po[q].lines[s])]
    <3>1. RowOwes(po'[q], p) = Total(rest, OfPart(po[q].lines, p))
        BY <1>7 DEF RowOwes, Open
    <3>2. MovedOf(r, p) = Total(r.units, OfPart(po[q].lines, p))
        BY <1>3 DEF MovedOf
    <3>3. \A s \in Slots : rest[s] \in Nat /\ r.units[s] = rest[s]
        BY <1>6
    <3> HIDE DEF rest
    <3> QED
        BY <3>1, <3>2, <3>3, TotalOfSame
  <2>5. \A slots : Total(receipts[q], slots) = 0
      BY <1>6, TotalOfZeros
  <2> QED
      BY <1>3, <2>1, <2>2, <2>3, <2>4, <2>5 DEF RowCame
<1>9. ASSUME NEW l \in Links
      PROVE  /\ link'[l].received = link[l].received
             /\ link'[l].ordered = link[l].ordered + LinkMovedOf(r, l)
             /\ LinkMovedOf(r, l) \in Nat /\ link[l].received \in Int /\ link[l].ordered \in Int
             /\ RowLinkCame(po[q], receipts[q], l) = 0
             /\ RowLinkCame(po'[q], receipts'[q], l) = 0
             /\ RowLinkOrders(po[q], l) = 0 /\ RowLinkOrders(po'[q], l) = LinkMovedOf(r, l)
  <2>1. /\ link'[l].received = link[l].received
        /\ link'[l].ordered = link[l].ordered + LinkMovedOf(r, l)
      BY <1>1, <1>3, <1>4, LinksOrdered
  <2>2. LinkMovedOf(r, l) \in Nat /\ link[l].received \in Int /\ link[l].ordered \in Int
      BY <1>1, <1>4, UntouchedMoveNothing DEF Typed, LinkRows
  <2>3. RowLinkOrders(po[q], l) = 0
      BY <1>5, <1>6, TotalOfZeros DEF RowLinkOrders, Open
  <2>4. RowLinkOrders(po'[q], l) = LinkMovedOf(r, l)
    <3> DEFINE due == [s \in Slots |-> po[q].lines[s].ordered]
    <3>1. RowLinkOrders(po'[q], l) = Total(due, OfLink(po[q].lines, l))
        BY <1>7 DEF RowLinkOrders, Open
    <3>2. LinkMovedOf(r, l) = Total(r.units, OfLink(po[q].lines, l))
        BY <1>3 DEF LinkMovedOf
    <3>3. \A s \in Slots : due[s] \in Nat /\ r.units[s] = due[s]
        BY <1>6
    <3> HIDE DEF due
    <3> QED
        BY <3>1, <3>2, <3>3, TotalOfSame
  <2>5. \A slots : Total(receipts[q], slots) = 0
      BY <1>6, TotalOfZeros
  <2> QED
      BY <1>3, <2>1, <2>2, <2>3, <2>4, <2>5 DEF RowLinkCame
<1>10. Posting(q)
    BY <1>7, <1>8, <1>9 DEF Posting
<1> QED
    BY <1>1, <1>2, <1>10

(* Receiving moves what arrives from the account of orders to the shelf.    *)
LEMMA CommitReceivePosts ==
    ASSUME AccountInv, StatusInv', [Next]_vars, NEW w \in Workers, CommitReceive(w), ~overlapped'
    PROVE  req[w].order \in Orders /\ Posting(req[w].order)
<1>1. PICK r : r = req[w] /\ PostRecord(r)
    BY PostReads DEF AccountInv, Posts
<1>2. PICK q \in Orders : q = r.order
    BY <1>1 DEF PostRecord
<1>3. /\ StockBy(r, 1, -1) /\ LinksBy(r, LinkReceived)
      /\ ~overlapped /\ r.seen = po[q] /\ ShelfUnchanged(r.shelf, TouchedParts(r))
      /\ po[q].status \in Open
      /\ \A l \in TouchedLinks(r) : r.links[l] = link[l]
    BY <1>1, <1>2 DEF CommitReceive, ReceiptMoves, Note, FreshRows
<1>4. Typed /\ Shapes /\ StatusInv
    BY DEF AccountInv, Typed
<1>5. /\ \A o \in Orders : o # q => po'[o] = po[o] /\ receipts'[o] = receipts[o]
      /\ po'[q].status = ReceiptStatus(r.all)
      /\ \A s \in Slots : /\ po'[q].lines[s].part = po[q].lines[s].part
                          /\ po'[q].lines[s].link = po[q].lines[s].link
                          /\ po'[q].lines[s].ordered = po[q].lines[s].ordered
                          /\ receipts'[q][s] = receipts[q][s] + r.units[s]
    BY <1>1, <1>2, <1>4, ReceiptStored
<1>6. ASSUME NEW s \in Slots
      PROVE  /\ po[q].lines[s].ordered \in Nat /\ receipts[q][s] \in Nat /\ r.units[s] \in Nat
             /\ Remaining(po[q].lines[s]) \in Nat /\ Remaining(po'[q].lines[s]) \in Nat
             /\ Remaining(po[q].lines[s]) = Remaining(po'[q].lines[s]) + r.units[s]
  <2>1. po'[q].lines[s].received = po[q].lines[s].received + r.units[s]
      BY <1>1, <1>2, CleanReceipt DEF AccountInv
  <2>2. /\ po[q].lines[s].received \in Nat /\ po[q].lines[s].ordered \in Nat
        /\ receipts[q][s] \in Nat /\ Remaining(po[q].lines[s]) \in Nat
        /\ Remaining(po[q].lines[s]) = po[q].lines[s].ordered - po[q].lines[s].received
      BY <1>4, OrderRow
  <2>3. r.units[s] \in Nat
      BY <1>1 DEF PostRecord
  <2>4. po'[q].lines[s].received <= po'[q].lines[s].ordered
      BY DEF StatusInv, ReceiptInv, ReceivedWithinOrdered
  <2>5. Remaining(po'[q].lines[s]) = po'[q].lines[s].ordered - po'[q].lines[s].received
      BY DEF Remaining
  <2> QED
      BY <1>5, <2>1, <2>2, <2>3, <2>4, <2>5
<1>7. \A p, l : /\ OfPart(po'[q].lines, p) = OfPart(po[q].lines, p)
                /\ OfLink(po'[q].lines, l) = OfLink(po[q].lines, l)
    BY <1>5 DEF OfPart, OfLink
<1>8. ASSUME NEW p \in Parts
      PROVE  /\ onHand'[p] = onHand[p] + 1 * MovedOf(r, p)
             /\ onOrder'[p] = onOrder[p] + (-1) * MovedOf(r, p)
             /\ MovedOf(r, p) \in Nat /\ onHand[p] \in Int /\ onOrder[p] \in Int
             /\ RowOwes(po'[q], p) \in Nat /\ RowCame(po[q], receipts[q], p) \in Nat
             /\ RowOwes(po[q], p) = RowOwes(po'[q], p) + MovedOf(r, p)
             /\ RowCame(po'[q], receipts'[q], p) = RowCame(po[q], receipts[q], p) + MovedOf(r, p)
  <2>1. /\ onHand'[p] = onHand[p] + 1 * MovedOf(r, p)
        /\ onOrder'[p] = onOrder[p] + (-1) * MovedOf(r, p)
      BY <1>1, <1>3, <1>4, StockMoves
  <2>2. MovedOf(r, p) \in Nat /\ onHand[p] \in Int /\ onOrder[p] \in Int
      BY <1>1, <1>4, UntouchedMoveNothing DEF Typed
  <2>3. PICK slots : slots = OfPart(po[q].lines, p)
      OBVIOUS
  <2>4. MovedOf(r, p) = Total(r.units, slots)
      BY <1>3, <2>3 DEF MovedOf
  <2> DEFINE before == [s \in Slots |-> Remaining(po[q].lines[s])]
             after == [s \in Slots |-> Remaining(po'[q].lines[s])]
  <2>5. \A s \in Slots : /\ after[s] \in Nat /\ r.units[s] \in Nat
                         /\ before[s] = after[s] + r.units[s]
                         /\ after[s] = Remaining(po'[q].lines[s])
      BY <1>6
  <2>6. RowOwes(po[q], p) = Total(before, slots)
      BY <1>3, <2>3 DEF RowOwes
  <2>7. RowOwes(po'[q], p) = IF po'[q].status \in Open THEN Total(after, slots) ELSE 0
      BY <1>7, <2>3 DEF RowOwes
  <2> HIDE DEF before, after
  <2>8. RowOwes(po'[q], p) = Total(after, slots)
    <3>1. CASE po'[q].status = "RECEIVED"
      <4>1. \A s \in Slots : ~(Remaining(po'[q].lines[s]) > 0)
          BY <3>1 DEF StatusInv, OrderClean, Owed
      <4>2. \A s \in Slots : after[s] = 0
          BY <2>5, <4>1
      <4>3. Total(after, slots) = 0
          BY <4>2, TotalOfZeros
      <4> QED
          BY <2>7, <3>1, <4>3 DEF Open
    <3>2. CASE po'[q].status = "PARTIALLY_RECEIVED"
        BY <2>7, <3>2 DEF Open
    <3> QED
        BY <1>5, <3>1, <3>2 DEF ReceiptStatus
  <2>9. Total(before, slots) = Total(after, slots) + Total(r.units, slots)
      BY <2>5, TotalOfTotals
  <2>10. Total(after, slots) \in Nat
      BY <2>5, TotalIsNat
  <2>11. /\ RowCame(po[q], receipts[q], p) = Total(receipts[q], slots)
         /\ RowCame(po'[q], receipts'[q], p) = Total(receipts'[q], slots)
      BY <1>7, <2>3 DEF RowCame
  <2>12. Total(receipts'[q], slots) = Total(receipts[q], slots) + Total(r.units, slots)
      BY <1>5, <1>6, TotalOfTotals
  <2>13. Total(receipts[q], slots) \in Nat
      BY <1>6, TotalIsNat
  <2> QED
      BY <2>1, <2>2, <2>4, <2>6, <2>8, <2>9, <2>10, <2>11, <2>12, <2>13
<1>9. ASSUME NEW l \in Links
      PROVE  /\ link'[l].received = link[l].received + LinkMovedOf(r, l)
             /\ link'[l].ordered = link[l].ordered
             /\ LinkMovedOf(r, l) \in Nat /\ link[l].received \in Int /\ link[l].ordered \in Int
             /\ RowLinkCame(po[q], receipts[q], l) \in Nat /\ RowLinkOrders(po[q], l) \in Nat
             /\ RowLinkCame(po'[q], receipts'[q], l)
                  = RowLinkCame(po[q], receipts[q], l) + LinkMovedOf(r, l)
             /\ RowLinkOrders(po'[q], l) = RowLinkOrders(po[q], l)
  <2>1. /\ link'[l].received = link[l].received + LinkMovedOf(r, l)
        /\ link'[l].ordered = link[l].ordered
      BY <1>1, <1>3, <1>4, LinksReceived
  <2>2. LinkMovedOf(r, l) \in Nat /\ link[l].received \in Int /\ link[l].ordered \in Int
      BY <1>1, <1>4, UntouchedMoveNothing DEF Typed, LinkRows
  <2>3. PICK slots : slots = OfLink(po[q].lines, l)
      OBVIOUS
  <2>4. LinkMovedOf(r, l) = Total(r.units, slots)
      BY <1>3, <2>3 DEF LinkMovedOf
  <2>5. /\ RowLinkCame(po[q], receipts[q], l) = Total(receipts[q], slots)
        /\ RowLinkCame(po'[q], receipts'[q], l) = Total(receipts'[q], slots)
      BY <1>7, <2>3 DEF RowLinkCame
  <2>6. Total(receipts'[q], slots) = Total(receipts[q], slots) + Total(r.units, slots)
      BY <1>5, <1>6, TotalOfTotals
  <2>7. Total(receipts[q], slots) \in Nat
      BY <1>6, TotalIsNat
  <2> DEFINE before == [s \in Slots |-> po[q].lines[s].ordered]
             after == [s \in Slots |-> po'[q].lines[s].ordered]
  <2>8. \A s \in Slots : before[s] \in Nat /\ after[s] = before[s]
      BY <1>5, <1>6
  <2>9. RowLinkOrders(po[q], l) = Total(before, slots)
      BY <1>3, <2>3 DEF RowLinkOrders
  <2>10. RowLinkOrders(po'[q], l) = Total(after, slots)
    <3>1. po'[q].status \in Open \cup {"RECEIVED"}
        BY <1>5 DEF ReceiptStatus, Open
    <3> QED
        BY <1>7, <2>3, <3>1 DEF RowLinkOrders
  <2> HIDE DEF before, after
  <2>11. Total(after, slots) = Total(before, slots) /\ Total(before, slots) \in Nat
      BY <2>8, TotalOfSame, TotalIsNat
  <2> QED
      BY <2>1, <2>2, <2>4, <2>5, <2>6, <2>7, <2>9, <2>10, <2>11
<1>10. Posting(q)
    BY <1>5, <1>8, <1>9 DEF Posting
<1> QED
    BY <1>1, <1>2, <1>10

(* Cancelling takes what is still owed off the account of orders.           *)
LEMMA CommitCancelPosts ==
    ASSUME AccountInv, NEW w \in Workers, CommitCancel(w), ~overlapped'
    PROVE  req[w].order \in Orders /\ Posting(req[w].order)
<1>1. PICK r : r = req[w] /\ PostRecord(r)
    BY PostReads DEF AccountInv, Posts
<1>2. PICK q \in Orders : q = r.order
    BY <1>1 DEF PostRecord
<1>3. /\ r.at = "read" /\ r.kind = "cancel" /\ StockBy(r, 0, -1) /\ LinksBy(r, LinkCancelled)
      /\ po' = [po EXCEPT ![q].status = "CANCELLED"] /\ receipts' = receipts
      /\ ~overlapped /\ r.seen = po[q] /\ ShelfUnchanged(r.shelf, TouchedParts(r))
      /\ \A l \in TouchedLinks(r) : r.links[l] = link[l]
    BY <1>1, <1>2 DEF CommitCancel, Note, FreshRows
<1>4. /\ Typed /\ StatusInv /\ Asks(r) /\ WorkClean(r) /\ LinkAccounts
    BY <1>1, <1>3 DEF AccountInv, StatusInv
<1>5. po[q].status \in Open
    BY <1>3, <1>4 DEF WorkClean
<1>6. ASSUME NEW s \in Slots
      PROVE  /\ po[q].lines[s].ordered \in Nat /\ po[q].lines[s].received \in Nat
             /\ receipts[q][s] \in Nat /\ r.units[s] \in Nat
             /\ Remaining(po[q].lines[s]) = r.units[s]
             /\ po[q].lines[s].ordered = po[q].lines[s].received + r.units[s]
  <2>1. /\ po[q].lines[s].received \in Nat /\ po[q].lines[s].ordered \in Nat
        /\ receipts[q][s] \in Nat /\ Remaining(po[q].lines[s]) \in Nat
        /\ Remaining(po[q].lines[s]) = po[q].lines[s].ordered - po[q].lines[s].received
      BY <1>4, OrderRow
  <2>2. r.units[s] = IF Remaining(po[q].lines[s]) > 0 THEN Remaining(po[q].lines[s]) ELSE 0
      BY <1>3, <1>4 DEF Asks, Outstanding
  <2> QED
      BY <2>1, <2>2
<1>7. /\ po'[q].status = "CANCELLED" /\ po'[q].lines = po[q].lines
      /\ \A o \in Orders : o # q => po'[o] = po[o] /\ receipts'[o] = receipts[o]
  <2>1. po \in [Orders -> POs] /\ po[q] \in POs
      BY <1>4, OrderRow DEF Typed, Shapes
  <2> QED
      BY <1>3, <2>1 DEF POs
<1>8. ASSUME NEW p \in Parts
      PROVE  /\ onHand'[p] = onHand[p] + 0 * MovedOf(r, p)
             /\ onOrder'[p] = onOrder[p] + (-1) * MovedOf(r, p)
             /\ MovedOf(r, p) \in Nat /\ onHand[p] \in Int /\ onOrder[p] \in Int
             /\ RowOwes(po[q], p) = MovedOf(r, p) /\ RowOwes(po'[q], p) = 0
             /\ RowCame(po[q], receipts[q], p) \in Nat
             /\ RowCame(po'[q], receipts'[q], p) = RowCame(po[q], receipts[q], p)
  <2>1. /\ onHand'[p] = onHand[p] + 0 * MovedOf(r, p)
        /\ onOrder'[p] = onOrder[p] + (-1) * MovedOf(r, p)
      BY <1>1, <1>3, <1>4, StockMoves
  <2>2. MovedOf(r, p) \in Nat /\ onHand[p] \in Int /\ onOrder[p] \in Int
      BY <1>1, <1>4, UntouchedMoveNothing DEF Typed
  <2>3. RowOwes(po'[q], p) = 0
      BY <1>7 DEF RowOwes, Open
  <2>4. RowOwes(po[q], p) = MovedOf(r, p)
    <3> DEFINE rest == [s \in Slots |-> Remaining(po[q].lines[s])]
    <3>1. RowOwes(po[q], p) = Total(rest, OfPart(po[q].lines, p))
        BY <1>5 DEF RowOwes
    <3>2. MovedOf(r, p) = Total(r.units, OfPart(po[q].lines, p))
        BY <1>3 DEF MovedOf
    <3>3. \A s \in Slots : rest[s] \in Nat /\ r.units[s] = rest[s]
        BY <1>6
    <3> HIDE DEF rest
    <3> QED
        BY <3>1, <3>2, <3>3, TotalOfSame
  <2>5. \A slots : Total(receipts[q], slots) \in Nat
      BY <1>6, TotalIsNat
  <2> QED
      BY <1>3, <1>7, <2>1, <2>2, <2>3, <2>4, <2>5 DEF RowCame
<1>9. ASSUME NEW l \in Links
      PROVE  /\ link'[l].received = link[l].received
             /\ link'[l].ordered = link[l].ordered - LinkMovedOf(r, l)
             /\ LinkMovedOf(r, l) \in Nat /\ link[l].received \in Int /\ link[l].ordered \in Int
             /\ RowLinkCame(po[q], receipts[q], l) \in Nat /\ RowLinkOrders(po'[q], l) \in Nat
             /\ RowLinkCame(po'[q], receipts'[q], l) = RowLinkCame(po[q], receipts[q], l)
             /\ RowLinkOrders(po[q], l) = RowLinkOrders(po'[q], l) + LinkMovedOf(r, l)
  <2>1. /\ link'[l].received = link[l].received
        /\ LinkMovedOf(r, l) <= link[l].ordered =>
             link'[l].ordered = link[l].ordered - LinkMovedOf(r, l)
      BY <1>1, <1>3, <1>4, LinksCancelled
  <2>2. LinkMovedOf(r, l) \in Nat /\ link[l].received \in Int /\ link[l].ordered \in Int
      BY <1>1, <1>4, UntouchedMoveNothing DEF Typed, LinkRows
  <2>3. PICK slots : slots = OfLink(po[q].lines, l)
      OBVIOUS
  <2>4. LinkMovedOf(r, l) = Total(r.units, slots)
      BY <1>3, <2>3 DEF LinkMovedOf
  <2> DEFINE due == [s \in Slots |-> po[q].lines[s].ordered]
             got == [s \in Slots |-> po[q].lines[s].received]
  <2>5. \A s \in Slots : /\ got[s] \in Nat /\ r.units[s] \in Nat /\ due[s] = got[s] + r.units[s]
      BY <1>6
  <2>6. RowLinkOrders(po[q], l) = Total(due, slots)
      BY <1>5, <2>3 DEF RowLinkOrders
  <2>7. RowLinkOrders(po'[q], l) = Total(got, slots)
      BY <1>7, <2>3 DEF RowLinkOrders, Open
  <2> HIDE DEF due, got
  <2>8. Total(due, slots) = Total(got, slots) + Total(r.units, slots) /\ Total(got, slots) \in Nat
      BY <2>5, TotalOfTotals, TotalIsNat
  <2>9. \A slotset : Total(receipts[q], slotset) \in Nat
      BY <1>6, TotalIsNat
  <2>10. LinkMovedOf(r, l) <= link[l].ordered
    <3> DEFINE f == LinkOrders(po, l)
    <3>1. \A o \in Orders : f[o] = RowLinkOrders(po[o], l)
        BY DEF LinkOrders
    <3>2. link[l].ordered = SumOn(f, Orders)
        BY <1>4 DEF LinkAccounts
    <3> HIDE DEF f
    <3>3. \A o \in Orders : f[o] \in Nat
        BY <1>4, <3>1, OrderRow, RowQuantities
    <3>4. IsFiniteSet(Orders) /\ IsFiniteSet(Orders \ {q})
        BY PurchaseOrderAssumption, FS_Subset
    <3>5. SumOn(f, Orders) = f[q] + SumOn(f, Orders \ {q})
        BY <3>3, <3>4, SumWithout
    <3>6. SumOn(f, Orders \ {q}) \in Nat
        BY <3>3, <3>4, SumIsNat
    <3>7. f[q] = Total(got, slots) + LinkMovedOf(r, l)
        BY <2>4, <2>6, <2>8, <3>1
    <3> QED
        BY <2>2, <2>8, <3>2, <3>5, <3>6, <3>7
  <2> QED
      BY <1>3, <1>7, <2>1, <2>2, <2>4, <2>6, <2>7, <2>8, <2>9, <2>10 DEF RowLinkCame
<1>10. Posting(q)
    BY <1>7, <1>8, <1>9 DEF Posting
<1> QED
    BY <1>1, <1>2, <1>10

(* When one return changes, the shelf keeps its account if it has moved by  *)
(* what that return now puts back.                                          *)
LEMMA ReturnPosted ==
    ASSUME Typed, Typed', ShelfAccounts, UNCHANGED <<po, receipts>>, onOrder' = onOrder,
           NEW e \in Returns,
           \A r \in Returns : r # e => ret'[r] = ret[r] /\ restocks'[r] = restocks[r],
           \A p \in Parts :
              onHand'[p] = onHand[p] + (RowPutBack(ret'[e], restocks'[e], p)
                                        - RowPutBack(ret[e], restocks[e], p))
    PROVE  ShelfAccounts'
<1>1. IsFiniteSet(Orders) /\ IsFiniteSet(Returns)
    BY PurchaseOrderAssumption, PartReturnAssumption
<1>2. /\ restocks \in [Returns -> [times : Nat, qty : Nat]]
      /\ restocks' \in [Returns -> [times : Nat, qty : Nat]]
      /\ receipts \in [Orders -> [Slots -> Nat]]
    BY DEF Typed, Shapes, RetTypeOK
<1> SUFFICES ASSUME NEW p \in Parts
             PROVE  /\ onOrder'[p] = InitialOnOrder[p] + SumOn(OwedBy(po', p), Orders)
                    /\ onHand'[p] = InitialOnHand[p] + SumOn(CameFrom(po', receipts', p), Orders)
                                    + SumOn(PutBack(ret', restocks', p), Returns)
    BY DEF ShelfAccounts
<1> DEFINE came == CameFrom(po, receipts, p)
           f == PutBack(ret, restocks, p)
           g == PutBack(ret', restocks', p)
<1>3. onHand[p] = InitialOnHand[p] + SumOn(came, Orders) + SumOn(f, Returns)
    BY DEF ShelfAccounts
<1>4. onHand[p] \in Int /\ InitialOnHand[p] \in Int
    BY StockroomAssumption, ShelfAssumption DEF Typed
<1>5. \A o \in Orders : came[o] \in Int
  <2> SUFFICES ASSUME NEW o \in Orders PROVE RowCame(po[o], receipts[o], p) \in Int
      BY DEF CameFrom
  <2>1. \A s \in Slots : receipts[o][s] \in Nat
      BY <1>2
  <2> QED
      BY <2>1, TotalIsNat DEF RowCame
<1>6. \A r \in Returns : /\ f[r] = RowPutBack(ret[r], restocks[r], p)
                         /\ g[r] = RowPutBack(ret'[r], restocks'[r], p)
    BY DEF PutBack
<1>7. \A r \in Returns : f[r] \in Int /\ g[r] \in Int
    BY <1>2, <1>6 DEF RowPutBack
<1>8. onOrder'[p] = InitialOnOrder[p] + SumOn(OwedBy(po', p), Orders)
    BY DEF ShelfAccounts
<1>9. CameFrom(po', receipts', p) = came
    OBVIOUS
<1> HIDE DEF came, f, g
<1>10. \A r \in Returns : r # e => g[r] = f[r]
    BY <1>6
<1>11. onHand'[p] = onHand[p] + (g[e] - f[e])
    BY <1>6
<1>12. SumOn(g, Returns) = SumOn(f, Returns) + (g[e] - f[e])
    BY <1>1, <1>7, <1>10, SumChanged
<1>13. /\ SumOn(f, Returns) \in Int /\ SumOn(came, Orders) \in Int
       /\ f[e] \in Int /\ g[e] \in Int
    BY <1>1, <1>5, <1>7, SumIsInt
<1>14. onHand'[p] = InitialOnHand[p] + SumOn(came, Orders) + SumOn(g, Returns)
    BY <1>3, <1>4, <1>11, <1>12, <1>13
<1> QED
    BY <1>8, <1>9, <1>14 DEF g

(* The linked lines are not concerned.                                      *)
LEMMA LinksKept ==
    ASSUME LinkAccounts, UNCHANGED <<po, receipts, link>>
    PROVE  LinkAccounts'
BY DEF LinkAccounts

(* Editing a return moves nothing: a return that has put parts back keeps   *)
(* its part.                                                                *)
LEMMA RewrittenPosts ==
    ASSUME AccountInv, NEW e \in Returns, NEW row \in ReturnRows,
           Created(e, row) \/ Rewritten(e, row)
    PROVE  /\ \A r \in Returns : r # e => ret'[r] = ret[r] /\ restocks'[r] = restocks[r]
           /\ \A p : RowPutBack(ret'[e], restocks'[e], p) = RowPutBack(ret[e], restocks[e], p)
           /\ ret'[e].status = "ABSENT" => ret[e].status = "ABSENT"
           /\ restocks' = restocks
<1>1. ret \in [Returns -> ReturnRows]
    BY DEF AccountInv, Typed, Shapes, RetTypeOK
<1>2. ret' = [ret EXCEPT ![e] = row] /\ restocks' = restocks
    BY DEF Created, Rewritten
<1>3. ret'[e] = row /\ \A r \in Returns : r # e => ret'[r] = ret[r]
    BY <1>1, <1>2
<1>4. CASE Created(e, row)
  <2>1. restocks[e].qty = 0 /\ row.status = "PENDING"
      BY <1>4 DEF AccountInv, Created
  <2> QED
      BY <1>2, <1>3, <2>1 DEF RowPutBack
<1>5. CASE Rewritten(e, row)
  <2>1. row.part = ret[e].part /\ row.status \in {ret[e].status, "SHIPPED", "CREDITED", "CLOSED"}
      BY <1>5 DEF Rewritten
  <2> QED
      BY <1>2, <1>3, <2>1 DEF RowPutBack
<1> QED
    BY <1>4, <1>5

(* A return that is closed puts back what its claim has read.               *)
LEMMA ClosePosts ==
    ASSUME Typed, NEW w \in Workers, CommitClose(w), ~overlapped'
    PROVE  /\ req[w].ret \in Returns /\ onOrder' = onOrder
           /\ \A r \in Returns : r # req[w].ret => ret'[r] = ret[r] /\ restocks'[r] = restocks[r]
           /\ \A p \in Parts : onHand'[p] = onHand[p]
                 + (RowPutBack(ret'[req[w].ret], restocks'[req[w].ret], p)
                    - RowPutBack(ret[req[w].ret], restocks[req[w].ret], p))
<1>1. Shapes
    BY DEF Typed
<1>2. PICK c : c = req[w]
    OBVIOUS
<1>3. PICK e : e = c.ret
    OBVIOUS
<1>4. /\ e \in Returns /\ c.qty \in Nat /\ onOrder' = onOrder
      /\ \A p \in Parts : onHand'[p] = onHand[p] + (IF ret[e].part = p THEN c.qty ELSE 0)
    BY <1>2, <1>3, CloseMoves
<1>5. /\ ret'[e].part = ret[e].part
      /\ restocks'[e].qty = restocks[e].qty + c.qty
      /\ \A r \in Returns : r # e => ret'[r] = ret[r] /\ restocks'[r] = restocks[r]
    BY <1>1, <1>2, <1>3, ClosedMoves
<1>6. restocks[e].qty \in Nat
    BY <1>1, <1>4 DEF Shapes, RetTypeOK
<1>7. ASSUME NEW p \in Parts
      PROVE  (IF ret[e].part = p THEN c.qty ELSE 0)
               = RowPutBack(ret'[e], restocks'[e], p) - RowPutBack(ret[e], restocks[e], p)
    BY <1>4, <1>5, <1>6 DEF RowPutBack
<1> QED
    BY <1>2, <1>3, <1>4, <1>5, <1>7

LEMMA InitAccounts == Init => AccountInv
<1> SUFFICES ASSUME Init PROVE AccountInv
    OBVIOUS
<1>1. Typed /\ StatusInv
    BY InitTyped, InitStatus
<1>2. /\ \A o \in Orders : po[o] = NoOrder /\ receipts[o] = [s \in Slots |-> 0]
      /\ \A r \in Returns : restocks[r].qty = 0
      /\ \A w \in Workers : req[w].at = "idle"
      /\ onHand = InitialOnHand /\ onOrder = InitialOnOrder
      /\ \A l \in Links : link[l].received = 0 /\ link[l].ordered = 0
    BY DEF Init, ShelfInit, POInit, RetInit, Idle
<1>3. \A w \in Workers : Asks(req[w])
    BY <1>2 DEF Asks
<1>4. IsFiniteSet(Orders) /\ IsFiniteSet(Returns)
    BY PurchaseOrderAssumption, PartReturnAssumption
<1>5. /\ \A o \in Orders : \A slots : Total(receipts[o], slots) = 0
      /\ \A o \in Orders : po[o].status = "ABSENT"
      /\ \A o \in Orders, s \in Slots : po[o].lines[s].received = 0
  <2>1. \A o \in Orders, s \in Slots : receipts[o][s] = 0
      BY <1>2
  <2> QED
      BY <1>2, <2>1, TotalOfZeros DEF NoOrder, NoLine
<1>6. ASSUME NEW p \in Parts
      PROVE  /\ SumOn(OwedBy(po, p), Orders) = 0
             /\ SumOn(CameFrom(po, receipts, p), Orders) = 0
             /\ SumOn(PutBack(ret, restocks, p), Returns) = 0
  <2>1. /\ \A o \in Orders : OwedBy(po, p)[o] = 0 /\ CameFrom(po, receipts, p)[o] = 0
        /\ \A r \in Returns : PutBack(ret, restocks, p)[r] = 0
      BY <1>2, <1>5 DEF OwedBy, CameFrom, PutBack, RowOwes, RowCame, RowPutBack, Open
  <2> QED
      BY <1>4, <2>1, SumOfZeros
<1>7. ASSUME NEW l \in Links
      PROVE  /\ SumOn(LinkCame(po, receipts, l), Orders) = 0
             /\ SumOn(LinkOrders(po, l), Orders) = 0
  <2>1. \A o \in Orders : LinkCame(po, receipts, l)[o] = 0
      BY <1>5 DEF LinkCame, RowLinkCame
  <2>2. \A o \in Orders : LinkOrders(po, l)[o] = 0
    <3> SUFFICES ASSUME NEW o \in Orders PROVE RowLinkOrders(po[o], l) = 0
        BY DEF LinkOrders
    <3> QED
        BY <1>5, TotalOfZeros DEF RowLinkOrders, Open
  <2> QED
      BY <1>4, <2>1, <2>2, SumOfZeros
<1>8. InitialOnHand \in [Parts -> Nat] /\ InitialOnOrder \in [Parts -> Nat]
    BY StockroomAssumption, ShelfAssumption
<1>9. ShelfAccounts /\ LinkAccounts
    BY <1>2, <1>6, <1>7, <1>8 DEF ShelfAccounts, LinkAccounts
<1> QED
    BY <1>1, <1>2, <1>3, <1>9 DEF AccountInv

LEMMA AsksStay ==
    ASSUME Shapes, [Next]_vars, NEW v \in Workers, Asks(req[v]) PROVE Asks(req[v])'
<1> USE DEF OrderAt
<1> DEFINE Goal == Asks(req[v])'
<1> SUFFICES Goal
    OBVIOUS
<1> HIDE DEF Goal
<1>1. Shaped(req[v]) /\ po \in [Orders -> POs]
    BY DEF Shapes
<1>2. ASSUME req'[v].at # "read" PROVE Goal
    BY <1>2 DEF Asks, Goal
<1>3. CASE req'[v] = req[v]
    BY <1>3 DEF Asks, Goal
<1>4. CASE req'[v].at \notin Writing
    BY <1>2, <1>4 DEF Writing
<1>5. ASSUME NEW o \in Orders, CheckOrder(v, o) \/ CheckCancel(v, o)
      PROVE  Goal
  <2>1. req'[v].at \in {"ordering", "cancelling"}
      BY <1>5 DEF CheckOrder, CheckCancel, Shapes
  <2> QED
      BY <1>2, <2>1
<1>6. ASSUME NEW o \in Orders, NEW qty \in Deliveries, CheckReceive(v, o, qty)
      PROVE  Goal
  <2>1. req'[v].at = "receiving"
      BY <1>6 DEF CheckReceive, Shapes
  <2> QED
      BY <1>2, <2>1
<1>7. CASE ReadForOrder(v)
  <2>1. PICK seen \in POs : seen = req[v].seen
      BY <1>1, <1>7, ShapeOfOrderRequest DEF ReadForOrder
  <2>2. [s \in Slots |-> seen.lines[s].ordered] \in [Slots -> Nat]
      BY <2>1, PurchaseOrderAssumption DEF POs, Lines
  <2>3. HaveRead(v, "order", seen, [s \in Slots |-> seen.lines[s].ordered])
      BY <1>7, <2>1 DEF ReadForOrder
  <2>4. req[v].at = "ordering"
      BY <1>7 DEF ReadForOrder
  <2>5. /\ req'[v].kind = "order" /\ req'[v].seen = seen
        /\ req'[v].units = [s \in Slots |-> seen.lines[s].ordered]
      BY <2>2, <2>3, <2>4, HaveReadMoves
  <2> QED
      BY <2>5 DEF Asks, Goal
<1>8. CASE ReadForCancel(v)
  <2>1. PICK seen \in POs : seen = req[v].seen
      BY <1>1, <1>8, ShapeOfOrderRequest DEF ReadForCancel
  <2>2. Outstanding(seen.lines) \in [Slots -> Nat]
      BY <2>1, PurchaseOrderAssumption DEF POs, Lines, Outstanding, Remaining
  <2>3. HaveRead(v, "cancel", seen, Outstanding(seen.lines))
      BY <1>8, <2>1 DEF ReadForCancel
  <2>4. req[v].at = "cancelling"
      BY <1>8 DEF ReadForCancel
  <2>5. /\ req'[v].kind = "cancel" /\ req'[v].seen = seen
        /\ req'[v].units = Outstanding(seen.lines)
      BY <2>2, <2>3, <2>4, HaveReadMoves
  <2> QED
      BY <2>5 DEF Asks, Goal
<1>9. CASE ReadForReceive(v)
  <2>1. PICK c : c = req[v]
      OBVIOUS
  <2>2. c.at = "receiving" /\ c.order \in Orders /\ c.units \in [Slots -> Nat]
      BY <1>1, <1>9, <2>1, ShapeOfOrderRequest DEF ReadForReceive
  <2>3. CASE Finish(v)
    <3>1. req'[v].at = "idle"
        BY <2>3, FinishMoves DEF Idle
    <3> QED
        BY <1>2, <3>1
  <2>4. CASE HaveRead(v, "receive", po[c.order], c.units)
    <3>1. po[c.order] \in POs
        BY <1>1, <2>2
    <3>2. req'[v].kind = "receive"
        BY <2>1, <2>2, <2>4, <3>1, HaveReadMoves
    <3> QED
        BY <3>2 DEF Asks, Goal
  <2> QED
      BY <1>9, <2>1, <2>3, <2>4 DEF ReadForReceive
<1>10. CASE CountReceived(v)
  <2>1. req'[v].at = "counted"
      BY <1>10, CountedMoves
  <2> QED
      BY <1>2, <2>1
<1> QED
    BY <1>3, <1>4, <1>5, <1>6, <1>7, <1>8, <1>9, <1>10, WriterMoves

(* The accounts are an invariant: every step that leaves reads fresh posts  *)
(* to them what it changes.                                                 *)
LEMMA StepAccounts == AccountInv /\ [Next]_vars => AccountInv'
<1> SUFFICES ASSUME AccountInv, [Next]_vars PROVE AccountInv'
    OBVIOUS
<1>1. Typed /\ StatusInv /\ Shapes
    BY DEF AccountInv, Typed
<1>2. Typed' /\ StatusInv'
    BY <1>1, StepTyped, StepStatus
<1>3. \A w \in Workers : Asks(req[w])'
    BY <1>1, AsksStay DEF AccountInv
<1>4. \A r \in Returns : ret'[r].status = "ABSENT" => restocks'[r].qty = 0
  <2>1. CASE UNCHANGED <<ret, restocks>>
      BY <2>1 DEF AccountInv
  <2>2. ASSUME NEW e \in Returns, NEW row \in ReturnRows, Created(e, row) \/ Rewritten(e, row)
        PROVE  \A r \in Returns : ret'[r].status = "ABSENT" => restocks'[r].qty = 0
      BY <2>2, RewrittenPosts DEF AccountInv
  <2>3. ASSUME NEW w \in Workers, CommitClose(w)
        PROVE  \A r \in Returns : ret'[r].status = "ABSENT" => restocks'[r].qty = 0
    <3>1. PICK e : e = req[w].ret
        OBVIOUS
    <3>2. /\ ret'[e].status = "CLOSED"
          /\ \A r \in Returns : r # e => ret'[r] = ret[r] /\ restocks'[r] = restocks[r]
        BY <1>1, <2>3, <3>1, ClosedMoves
    <3> QED
        BY <3>2 DEF AccountInv
  <2> QED
      BY <1>1, <2>1, <2>2, <2>3, ReturnMoves
<1>5. ASSUME ~overlapped' PROVE ShelfAccounts' /\ LinkAccounts'
  <2>1. ~overlapped
      BY <1>1, <1>5, CleanMoves
  <2>2. ShelfAccounts /\ LinkAccounts
      BY <2>1 DEF AccountInv
  <2>3. CASE UNCHANGED <<onHand, onOrder, link, receipts, po, ret, restocks>>
    <3> HIDE DEF ShelfAccounts, LinkAccounts
    <3>1. ShelfAccounts'
        BY <2>2, <2>3 DEF ShelfAccounts
    <3>2. LinkAccounts'
        BY <2>2, <2>3, LinksKept
    <3> QED
        BY <3>1, <3>2
  <2>4. ASSUME NEW q \in Orders, NEW lines \in LineInputs, Drafted(q, lines),
               UNCHANGED <<onHand, onOrder, link, receipts, ret, restocks>>
        PROVE  ShelfAccounts' /\ LinkAccounts'
    <3>1. Posting(q)
        BY <1>1, <2>1, <2>4, DraftPosts
    <3> QED
        BY <1>1, <1>2, <2>2, <2>4, <3>1, PostingKeepsAccounts
  <2>5. ASSUME NEW e \in Returns, NEW row \in ReturnRows, Created(e, row) \/ Rewritten(e, row),
               UNCHANGED <<onHand, onOrder, link, receipts, po>>
        PROVE  ShelfAccounts' /\ LinkAccounts'
    <3>1. /\ \A r \in Returns : r # e => ret'[r] = ret[r] /\ restocks'[r] = restocks[r]
          /\ \A p : RowPutBack(ret'[e], restocks'[e], p) = RowPutBack(ret[e], restocks[e], p)
        BY <2>5, RewrittenPosts
    <3>2. \A p \in Parts : onHand[p] \in Int /\ RowPutBack(ret[e], restocks[e], p) \in Int
        BY <1>1 DEF Typed, Shapes, RetTypeOK, RowPutBack
    <3>3. \A p \in Parts : onHand'[p] = onHand[p] + (RowPutBack(ret'[e], restocks'[e], p)
                                                     - RowPutBack(ret[e], restocks[e], p))
        BY <2>5, <3>1, <3>2
    <3>4. ShelfAccounts'
        BY <1>1, <1>2, <2>2, <2>5, <3>1, <3>3, ReturnPosted
    <3> QED
        BY <2>2, <2>5, <3>4, LinksKept
  <2>6. ASSUME NEW w \in Workers, Posts(w), UNCHANGED retVars
        PROVE  ShelfAccounts' /\ LinkAccounts'
    <3>1. req[w].order \in Orders /\ Posting(req[w].order)
        BY <1>2, <1>5, <2>6, CommitOrderPosts, CommitReceivePosts, CommitCancelPosts DEF Posts
    <3>2. PICK q \in Orders : q = req[w].order
        BY <3>1
    <3>3. Posting(q) /\ UNCHANGED <<ret, restocks>>
        BY <2>6, <3>1, <3>2 DEF retVars
    <3> QED
        BY <1>1, <1>2, <2>2, <3>3, PostingKeepsAccounts
  <2>7. ASSUME NEW w \in Workers, CommitClose(w), UNCHANGED poVars
        PROVE  ShelfAccounts' /\ LinkAccounts'
    <3>1. PICK e : e = req[w].ret
        OBVIOUS
    <3>2. /\ e \in Returns /\ onOrder' = onOrder
          /\ \A r \in Returns : r # e => ret'[r] = ret[r] /\ restocks'[r] = restocks[r]
          /\ \A p \in Parts : onHand'[p] = onHand[p]
                + (RowPutBack(ret'[e], restocks'[e], p) - RowPutBack(ret[e], restocks[e], p))
        BY <1>1, <1>5, <2>7, <3>1, ClosePosts
    <3>3. UNCHANGED <<po, receipts, link>>
        BY <2>7 DEF poVars
    <3>4. ShelfAccounts'
        BY <1>1, <1>2, <2>2, <3>2, <3>3, ReturnPosted
    <3> QED
        BY <2>2, <3>3, <3>4, LinksKept
  <2> QED
      BY <1>1, <2>3, <2>4, <2>5, <2>6, <2>7, ShelfMoves
<1> QED
    BY <1>2, <1>3, <1>4, <1>5 DEF AccountInv

(* Until requests overlap, the quantity on order of every part is what open *)
(* purchase orders still owe of it.                                         *)
THEOREM OnOrderIsAlwaysOwed == Spec => []OnOrderIsOwed
<1>1. AccountInv => OnOrderIsOwed
    BY AccountsAreProperties DEF AccountInv, Typed
<1> QED
    BY <1>1, InitAccounts, StepAccounts, PTL DEF Spec

(* Until requests overlap, the shelf holds exactly what receipts and        *)
(* returns to inventory have put on it.                                     *)
THEOREM ShelfAccountsHold == Spec => []ShelfAccountsForDeliveries
<1>1. AccountInv => ShelfAccountsForDeliveries
    BY AccountsAreProperties DEF AccountInv, Typed
<1> QED
    BY <1>1, InitAccounts, StepAccounts, PTL DEF Spec

(* Until requests overlap, a linked repair-order part line has on order and *)
(* has received what the lines linked to it say.                            *)
THEOREM LinksAreOwed == Spec => []LinksFollowOrders
<1>1. AccountInv => LinksFollowOrders
    BY AccountsAreProperties DEF AccountInv, Typed
<1> QED
    BY <1>1, InitAccounts, StepAccounts, PTL DEF Spec
=============================================================================
