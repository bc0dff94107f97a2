-------------------------- MODULE GreedySearch_proofs --------------------------
(***************************************************************************)
(* GreedySearch implements IndependentDecoding: for any sentences, any     *)
(* number of hypotheses, any vocabulary and any decoder, what is done to a *)
(* batch gives each hypothesis a token that it could get alone; every      *)
(* sentence is answered when the batch is empty; and the callback gets the *)
(* tokens of these answers.                                                *)
(***************************************************************************)
EXTENDS GreedySearch, Decoding_proofs, SequenceTheorems

-----------------------------------------------------------------------------
(* The digest of what a decoder has seen is a word.                        *)

IsDigest(f, l, tokens, n) ==
  f = [k \in 0 .. l |-> IF k = 0 THEN 0 ELSE (2 * f[k - 1] + tokens[k] + 1) % n]

LEMMA DigestExists ==
  ASSUME NEW l \in Nat, NEW tokens, NEW n
  PROVE  \E f : IsDigest(f, l, tokens, n)
<1> DEFINE E == {m \in 0 .. l : \E f : IsDigest(f, m, tokens, n)}
           Item(h, k) == IF k = 0 THEN 0 ELSE (2 * h[k - 1] + tokens[k] + 1) % n
<1>1. 0 \in E
  <2> DEFINE f == [k \in 0 .. 0 |-> 0]
  <2>1. f = [k \in 0 .. 0 |-> Item(f, k)]
    OBVIOUS
  <2>2. IsDigest(f, 0, tokens, n)
    BY <2>1 DEF IsDigest
  <2> QED
    BY <2>2
<1>2. ASSUME NEW m \in 0 .. l - 1, m \in E PROVE m + 1 \in E
  <2>1. PICK f : IsDigest(f, m, tokens, n)
    BY <1>2
  <2>2. f = [k \in 0 .. m |-> Item(f, k)]
    BY <2>1 DEF IsDigest
  <2> DEFINE g == [k \in 0 .. m + 1 |-> IF k = m + 1 THEN Item(f, m + 1) ELSE f[k]]
  <2>3. ASSUME NEW k \in 0 .. m + 1 PROVE g[k] = Item(g, k)
    <3>1. CASE k = m + 1
      BY <3>1
    <3>2. CASE k # m + 1
      <4>1. k \in 0 .. m /\ g[k] = f[k]
        BY <3>2
      <4>2. k # 0 => g[k - 1] = f[k - 1]
        BY <4>1
      <4>3. f[k] = Item(f, k)
        BY <2>2, <4>1
      <4> QED
        BY <4>1, <4>2, <4>3
    <3> QED
      BY <3>1, <3>2
  <2>4. g = [k \in 0 .. m + 1 |-> Item(g, k)]
    BY <2>3
  <2>5. IsDigest(g, m + 1, tokens, n)
    BY <2>4 DEF IsDigest
  <2>6. m + 1 \in 0 .. l
    OBVIOUS
  <2> HIDE DEF g
  <2> QED
    BY <2>5, <2>6
<1>3. l \in E
  <2> HIDE DEF E
  <2>1. \A m \in 0 .. l : m \in E
    BY <1>1, <1>2, Induction
  <2> QED
    BY <2>1
<1> QED
  BY <1>3

LEMMA DigestIsWord ==
  ASSUME NEW tokens \in Seq(Int)
  PROVE  Digest(tokens, VocabularySize) \in Words
<1> DEFINE L == Len(tokens)
           n == VocabularySize
           Sum == CHOOSE Sum : Sum = [k \in 0 .. L |->
                    IF k = 0 THEN 0 ELSE (2 * Sum[k - 1] + tokens[k] + 1) % n]
           E == {m \in 0 .. L : Sum[m] \in Words}
<1>1. L \in Nat /\ n \in Nat \ {0} /\ \A k \in 1 .. L : tokens[k] \in Int
  BY OutputLayerAssumption
<1>2. \E f : f = [k \in 0 .. L |-> IF k = 0 THEN 0 ELSE (2 * f[k - 1] + tokens[k] + 1) % n]
  <2>1. \E f : IsDigest(f, L, tokens, n)
    BY <1>1, DigestExists
  <2> QED
    BY <2>1, Zenon DEF IsDigest
<1>3. Sum = [k \in 0 .. L |-> IF k = 0 THEN 0 ELSE (2 * Sum[k - 1] + tokens[k] + 1) % n]
  BY <1>2, Zenon
<1>4. Digest(tokens, n) = Sum[L]
  BY DEF Digest
<1> HIDE DEF Sum, L
<1>5. Words = 0 .. n - 1
  BY DEF Words
<1> HIDE DEF n
<1>6. \A k \in 0 .. L : Sum[k] = IF k = 0 THEN 0 ELSE (2 * Sum[k - 1] + tokens[k] + 1) % n
  BY <1>3
<1>7. 0 \in E
  BY <1>1, <1>5, <1>6
<1>8. ASSUME NEW m \in 0 .. L - 1, m \in E PROVE m + 1 \in E
  <2>1. m + 1 \in 1 .. L /\ (m + 1) - 1 = m
    BY <1>1
  <2>2. Sum[m + 1] = (2 * Sum[m] + tokens[m + 1] + 1) % n
    BY <1>1, <1>6, <2>1
  <2>3. PICK a \in Int : a = 2 * Sum[m] + tokens[m + 1] + 1
    BY <1>1, <1>5, <1>8, <2>1
  <2>4. a % n \in 0 .. n - 1
    BY <1>1
  <2> QED
    BY <1>1, <1>5, <2>1, <2>2, <2>3, <2>4
<1>9. \A m \in 0 .. L : m \in E
  <2> HIDE DEF E
  <2> QED
    BY <1>1, <1>7, <1>8, Induction
<1> QED
  BY <1>1, <1>4, <1>9 DEF n

-----------------------------------------------------------------------------
(* The output layer after requests with one set of words.                  *)

Full == [n \in 1 .. VocabularySize |-> n - 1]
Zeros(size, multiple) == [n \in 1 .. Padding(size, multiple) |-> 0]
Padded(ids, multiple) == ids \o Zeros(Len(ids), multiple)

(* The layer that a selection makes of a whole layer, and the one that a   *)
(* request gets if the others are like it.                                 *)
Selected(ids, multiple, hasBias) ==
  Select(WholeLayer, Padded(ids, multiple), Padding(Len(ids), multiple), hasBias)

Ideal(ids, multiple, hasBias) ==
  IF ids = <<>>
    THEN IF Padding(VocabularySize, multiple) = 0 THEN WholeLayer ELSE Selected(Full, multiple, hasBias)
    ELSE Selected(ids, multiple, hasBias)

LEMMA PaddingIsNumber ==
  ASSUME NEW size \in Nat, NEW multiple \in Nat \ {0}
  PROVE  Padding(size, multiple) \in Nat
<1>1. PICK a \in 1 .. multiple : a = multiple - (size % multiple)
  <2>1. size % multiple \in 0 .. multiple - 1
    OBVIOUS
  <2> QED
    BY <2>1
<1>2. a % multiple \in Nat
  OBVIOUS
<1> QED
  BY <1>1, <1>2 DEF Padding

LEMMA PaddedIs ==
  ASSUME NEW ids \in Seq(Words), NEW multiple \in Nat \ {0}
  PROVE  /\ Padded(ids, multiple) \in Seq(Words)
         /\ Len(Padded(ids, multiple)) = Len(ids) + Padding(Len(ids), multiple)
         /\ \A n \in 1 .. Len(ids) : Padded(ids, multiple)[n] = ids[n]
         /\ \A n \in Len(ids) + 1 .. Len(Padded(ids, multiple)) : Padded(ids, multiple)[n] = 0
<1> DEFINE z == Zeros(Len(ids), multiple)
           p == Padding(Len(ids), multiple)
<1>1. p \in Nat /\ 0 \in Words
  BY PaddingIsNumber, OutputLayerAssumption DEF Words
<1>2. z \in Seq(Words) /\ Len(z) = p /\ \A n \in 1 .. p : z[n] = 0
  <2> HIDE DEF p
  <2>1. [n \in 1 .. p |-> 0] \in Seq(Words)
    BY <1>1
  <2>2. z = [n \in 1 .. p |-> 0]
    BY DEF Zeros, p
  <2> HIDE DEF z
  <2> QED
    BY <1>1, <2>1, <2>2
<1>3. Padded(ids, multiple) = ids \o z
  BY DEF Padded
<1> HIDE DEF z, p
<1>4. Len(ids) \in Nat /\ ids \o z \in Seq(Words) /\ Len(ids \o z) = Len(ids) + p
  BY <1>1, <1>2
<1>5. \A n \in 1 .. Len(ids) : (ids \o z)[n] = ids[n]
  BY <1>2
<1>6. ASSUME NEW n \in Len(ids) + 1 .. Len(ids) + p PROVE (ids \o z)[n] = 0
  <2>1. n - Len(ids) \in 1 .. p
    BY <1>1, <1>4
  <2> QED
    BY <1>1, <1>2, <1>4, <2>1
<1> QED
  BY <1>3, <1>4, <1>5, <1>6 DEF p

LEMMA FullIs ==
  /\ Full \in Seq(Words) /\ Len(Full) = VocabularySize /\ Full # <<>>
  /\ IsInjective(Full) /\ Range(Full) = Words
<1>1. Full \in Seq(Words) /\ Len(Full) = VocabularySize
  BY OutputLayerAssumption DEF Full, Words
<1>2. DOMAIN Full = 1 .. VocabularySize /\ \A n \in 1 .. VocabularySize : Full[n] = n - 1
  BY DEF Full
<1>3. IsInjective(Full)
  BY <1>2, OutputLayerAssumption DEF IsInjective
<1>4. \A w \in Words : w + 1 \in 1 .. VocabularySize /\ (w + 1) - 1 = w
  BY OutputLayerAssumption DEF Words
<1>5. Range(Full) = Words
  <2>1. \A n \in DOMAIN Full : Full[n] \in Words
    BY <1>1
  <2>2. \A w \in Words : w + 1 \in DOMAIN Full /\ Full[w + 1] = w
    BY <1>2, <1>4
  <2> QED
    BY <2>1, <2>2, Zenon DEF Range
<1> QED
  BY <1>1, <1>3, <1>5, OutputLayerAssumption

(* A request after one like it leaves the layer alone.                     *)
LEMMA SelectAgain ==
  ASSUME NEW ids, NEW multiple, NEW hasBias \in BOOLEAN
  PROVE  Select(Selected(ids, multiple, hasBias), Padded(ids, multiple),
                Padding(Len(ids), multiple), hasBias)
           = Selected(ids, multiple, hasBias)
<1> DEFINE all == Padded(ids, multiple)
           p == Padding(Len(ids), multiple)
           l == Selected(ids, multiple, hasBias)
<1>1. l.words = all /\ l.masked = Masked(WholeLayer, Len(all), p, hasBias)
        /\ l.outputs = Emplaced(<<>>, all)
  BY DEF Selected, Select, WholeLayer
<1>2. DOMAIN Emplaced(<<>>, all) = Range(all)
  BY DEF Emplaced
<1>3. Emplaced(Emplaced(<<>>, all), all) = Emplaced(<<>>, all)
  <2>1. Emplaced(Emplaced(<<>>, all), all) = [w \in Range(all) |-> Emplaced(<<>>, all)[w]]
    BY <1>2 DEF Emplaced
  <2>2. \A t : DOMAIN Emplaced(t, all) = DOMAIN t \cup Range(all)
    BY DEF Emplaced
  <2>3. Emplaced(<<>>, all) = [w \in Range(all) |-> Emplaced(<<>>, all)[w]]
    BY <1>2 DEF Emplaced
  <2> QED
    BY <2>1, <2>3
<1>4. Masked(l, Len(all), p, hasBias) = l.masked
  BY <1>1 DEF Masked, WholeLayer
<1> HIDE DEF l, all, p
<1>5. Select(l, all, p, hasBias) = [words |-> all, masked |-> l.masked, outputs |-> l.outputs]
  BY <1>1, <1>3, <1>4 DEF Select
<1>6. l = [words |-> all, masked |-> l.masked, outputs |-> l.outputs]
  BY <1>1 DEF l, Selected, Select, all, p
<1> QED
  BY <1>5, <1>6 DEF l, all, p

LEMMA UpdateSelects ==
  ASSUME NEW l, NEW multiple, NEW hasBias, NEW ids, ids # <<>>
  PROVE  UpdateOutputLayer(l, multiple, ids, hasBias)
           = Select(l, Padded(ids, multiple), Padding(Len(ids), multiple), hasBias)
BY DEF UpdateOutputLayer, Padded, Zeros

LEMMA UpdateWidens ==
  ASSUME NEW l, NEW multiple, NEW hasBias
  PROVE  LET p == Padding(VocabularySize, multiple)
         IN  UpdateOutputLayer(l, multiple, <<>>, hasBias)
               = IF Len(Padded(Full, multiple)) = OutputSize(l) THEN l
                 ELSE IF p = 0 THEN WholeLayer
                 ELSE Select(l, Padded(Full, multiple), p, hasBias)
BY FullIs DEF UpdateOutputLayer, Padded, Zeros, Full

LEMMA UpdateFromWhole ==
  ASSUME NEW multiple \in Nat \ {0}, NEW hasBias \in BOOLEAN, NEW ids \in Seq(Words)
  PROVE  UpdateOutputLayer(WholeLayer, multiple, ids, hasBias) = Ideal(ids, multiple, hasBias)
<1> DEFINE p == Padding(VocabularySize, multiple)
<1>1. CASE ids # <<>>
  BY <1>1, UpdateSelects DEF Ideal, Selected
<1>2. CASE ids = <<>>
  <2>1. p \in Nat /\ Len(Padded(Full, multiple)) = VocabularySize + p
    BY FullIs, PaddedIs, PaddingIsNumber, OutputLayerAssumption
  <2>2. OutputSize(WholeLayer) = VocabularySize
    BY DEF OutputSize, IsUpdated, WholeLayer
  <2>3. Len(Padded(Full, multiple)) = OutputSize(WholeLayer) <=> p = 0
    BY <2>1, <2>2, OutputLayerAssumption
  <2>4. UpdateOutputLayer(WholeLayer, multiple, <<>>, hasBias)
          = IF p = 0 THEN WholeLayer ELSE Select(WholeLayer, Padded(Full, multiple), p, hasBias)
    <3> HIDE DEF p
    <3>1. UpdateOutputLayer(WholeLayer, multiple, <<>>, hasBias)
            = IF Len(Padded(Full, multiple)) = OutputSize(WholeLayer) THEN WholeLayer
              ELSE IF p = 0 THEN WholeLayer
              ELSE Select(WholeLayer, Padded(Full, multiple), p, hasBias)
      BY UpdateWidens DEF p
    <3> QED
      BY <3>1, <2>3
  <2> QED
    BY <1>2, <2>4, FullIs DEF Ideal, Selected
<1> QED
  BY <1>1, <1>2

LEMMA UpdateAgain ==
  ASSUME NEW multiple \in Nat \ {0}, NEW hasBias \in BOOLEAN, NEW ids \in Seq(Words)
  PROVE  UpdateOutputLayer(Ideal(ids, multiple, hasBias), multiple, ids, hasBias)
           = Ideal(ids, multiple, hasBias)
<1> DEFINE p == Padding(VocabularySize, multiple)
           wide == Selected(Full, multiple, hasBias)
<1>1. CASE ids # <<>>
  BY <1>1, UpdateSelects, SelectAgain DEF Ideal
<1>2. CASE ids = <<>> /\ p = 0
  BY <1>2, UpdateFromWhole DEF Ideal
<1>3. CASE ids = <<>> /\ p # 0
  <2>1. Len(Padded(Full, multiple)) = VocabularySize + p /\ p \in Nat
    BY FullIs, PaddedIs, PaddingIsNumber, OutputLayerAssumption
  <2>2. wide.words = Padded(Full, multiple)
    BY DEF Selected, Select
  <2>3. wide.words # <<>>
    BY <2>1, <2>2, OutputLayerAssumption
  <2>4. OutputSize(wide) = Len(Padded(Full, multiple))
    BY <2>2, <2>3 DEF OutputSize, IsUpdated
  <2>5. UpdateOutputLayer(wide, multiple, <<>>, hasBias) = wide
    BY <2>4, UpdateWidens
  <2> QED
    BY <1>3, <2>5 DEF Ideal
<1> QED
  BY <1>1, <1>2, <1>3

(* A layer that is not padded becomes whole again.                         *)
LEMMA UpdateBack ==
  ASSUME NEW multiple \in Nat \ {0}, NEW hasBias \in BOOLEAN, NEW ids \in Seq(Words), ids # <<>>,
         Padding(VocabularySize, multiple) = 0
  PROVE  LET l == Selected(ids, multiple, hasBias)
             same == Len(ids) + Padding(Len(ids), multiple) = VocabularySize
         IN  UpdateOutputLayer(l, multiple, <<>>, hasBias) = IF same THEN l ELSE WholeLayer
<1> DEFINE l == Selected(ids, multiple, hasBias)
<1>1. l.words = Padded(ids, multiple)
  BY DEF Selected, Select
<1>2. Len(Padded(ids, multiple)) = Len(ids) + Padding(Len(ids), multiple)
        /\ Len(Padded(Full, multiple)) = VocabularySize
  BY FullIs, PaddedIs, OutputLayerAssumption
<1>3. Padding(Len(ids), multiple) \in Nat
  BY PaddingIsNumber
<1>4. l.words # <<>>
  BY <1>1, <1>2, <1>3
<1>5. OutputSize(l) = Len(ids) + Padding(Len(ids), multiple)
  BY <1>1, <1>2, <1>4 DEF OutputSize, IsUpdated
<1> HIDE DEF l
<1> QED
  BY <1>2, <1>5, UpdateWidens DEF l

(* The layers after the requests, one by one.                              *)
AreLayers(f, l, restrictions, multiple, hasBias) ==
  f = [n \in 0 .. l |->
         IF n = 0 THEN WholeLayer
         ELSE UpdateOutputLayer(f[n - 1], multiple, restrictions[n], hasBias)]

LEMMA LayersExist ==
  ASSUME NEW l \in Nat, NEW restrictions, NEW multiple, NEW hasBias
  PROVE  \E f : AreLayers(f, l, restrictions, multiple, hasBias)
<1> DEFINE E == {m \in 0 .. l : \E f : AreLayers(f, m, restrictions, multiple, hasBias)}
           Item(h, n) == IF n = 0 THEN WholeLayer
                         ELSE UpdateOutputLayer(h[n - 1], multiple, restrictions[n], hasBias)
<1>1. 0 \in E
  <2> DEFINE f == [n \in 0 .. 0 |-> WholeLayer]
  <2>1. f = [n \in 0 .. 0 |-> Item(f, n)]
    OBVIOUS
  <2>2. AreLayers(f, 0, restrictions, multiple, hasBias)
    BY <2>1 DEF AreLayers
  <2> QED
    BY <2>2
<1>2. ASSUME NEW m \in 0 .. l - 1, m \in E PROVE m + 1 \in E
  <2>1. PICK f : AreLayers(f, m, restrictions, multiple, hasBias)
    BY <1>2
  <2>2. f = [n \in 0 .. m |-> Item(f, n)]
    BY <2>1 DEF AreLayers
  <2> DEFINE g == [n \in 0 .. m + 1 |-> IF n = m + 1 THEN Item(f, m + 1) ELSE f[n]]
  <2>3. ASSUME NEW n \in 0 .. m + 1 PROVE g[n] = Item(g, n)
    <3>1. CASE n = m + 1
      BY <3>1
    <3>2. CASE n # m + 1
      <4>1. n \in 0 .. m /\ g[n] = f[n]
        BY <3>2
      <4>2. n # 0 => g[n - 1] = f[n - 1]
        BY <4>1
      <4>3. f[n] = Item(f, n)
        BY <2>2, <4>1
      <4> QED
        BY <4>1, <4>2, <4>3
    <3> QED
      BY <3>1, <3>2
  <2>4. g = [n \in 0 .. m + 1 |-> Item(g, n)]
    BY <2>3
  <2>5. AreLayers(g, m + 1, restrictions, multiple, hasBias)
    BY <2>4 DEF AreLayers
  <2>6. m + 1 \in 0 .. l
    OBVIOUS
  <2> HIDE DEF g
  <2> QED
    BY <2>5, <2>6
<1>3. l \in E
  <2> HIDE DEF E
  <2>1. \A m \in 0 .. l : m \in E
    BY <1>1, <1>2, Induction
  <2> QED
    BY <2>1
<1> QED
  BY <1>3

LEMMA LayerAfterIs ==
  ASSUME NEW restrictions, Len(restrictions) \in Nat, NEW multiple, NEW hasBias
  PROVE  \E f : /\ AreLayers(f, Len(restrictions), restrictions, multiple, hasBias)
               /\ LayerAfter(restrictions, multiple, hasBias) = f[Len(restrictions)]
<1> DEFINE L == Len(restrictions)
           After == CHOOSE After : After = [n \in 0 .. L |->
                      IF n = 0 THEN WholeLayer
                      ELSE UpdateOutputLayer(After[n - 1], multiple, restrictions[n], hasBias)]
<1>1. \E f : AreLayers(f, L, restrictions, multiple, hasBias)
  BY LayersExist
<1>2. AreLayers(After, L, restrictions, multiple, hasBias)
  BY <1>1, Zenon DEF AreLayers
<1>3. LayerAfter(restrictions, multiple, hasBias) = After[L]
  BY DEF LayerAfter
<1> QED
  BY <1>2, <1>3

(* After requests with one set of words, the layer is the one of this set. *)
LEMMA LayerIsIdeal ==
  ASSUME NEW r \in AllRequests, RestrictionsAreOne(r)
  PROVE  LayerAfter(r.restrictions, r.multiple, r.hasBias)
           = Ideal(Last(r.restrictions), r.multiple, r.hasBias)
<1> DEFINE x == r.restrictions
           L == Len(x)
           m == r.multiple
           b == r.hasBias
           Size(y) == Len(y) + Padding(Len(y), m)
<1>1. x \in Seq(Seq(Words)) /\ L \in Nat \ {0} /\ m \in Nat \ {0} /\ b \in BOOLEAN
  BY GreedySearchAssumption DEF IsRequest
<1>2. PICK f : AreLayers(f, L, x, m, b) /\ LayerAfter(x, m, b) = f[L]
  BY <1>1, LayerAfterIs
<1>3. f[0] = WholeLayer /\ \A n \in 1 .. L : f[n] = UpdateOutputLayer(f[n - 1], m, x[n], b)
  BY <1>1, <1>2 DEF AreLayers
<1>4. \A n \in 1 .. L : x[n] \in Range(x) /\ x[n] \in Seq(Words)
  BY <1>1 DEF Range
<1>5. Last(x) = x[L] /\ L \in 1 .. L
  BY <1>1 DEF Last
<1> HIDE DEF L
<1>6. CASE Range(x) = {Last(x)}
  <2> DEFINE y == Last(x)
             E == {n \in 0 .. L : n = 0 \/ f[n] = Ideal(y, m, b)}
  <2>1. \A n \in 1 .. L : x[n] = y
    BY <1>4, <1>6
  <2>2. y \in Seq(Words)
    BY <1>4, <1>5
  <2> HIDE DEF y
  <2>3. 0 \in E
    BY <1>1
  <2>4. ASSUME NEW n \in 0 .. L - 1, n \in E PROVE n + 1 \in E
    <3>1. n + 1 \in 1 .. L /\ (n + 1) - 1 = n
      BY <1>1
    <3>2. f[n + 1] = UpdateOutputLayer(f[n], m, y, b)
      BY <1>3, <2>1, <3>1
    <3>3. f[n + 1] = Ideal(y, m, b)
      <4>1. CASE n = 0
        BY <1>1, <1>3, <2>2, <3>2, <4>1, UpdateFromWhole
      <4>2. CASE n # 0
        BY <1>1, <2>2, <2>4, <3>2, <4>2, UpdateAgain
      <4> QED
        BY <4>1, <4>2
    <3> QED
      BY <1>1, <3>1, <3>3
  <2>5. \A n \in 0 .. L : n \in E
    <3> HIDE DEF E
    <3> QED
      BY <1>1, <2>3, <2>4, Induction
  <2> QED
    BY <1>1, <1>2, <2>5 DEF y
<1>7. CASE /\ Padding(VocabularySize, m) = 0
           /\ \E y \in Range(x) \ {<<>>} :
                Range(x) \subseteq {y, <<>>} /\ (Last(x) = y \/ Size(y) # VocabularySize)
  <2>1. PICK y \in Range(x) \ {<<>>} :
          Range(x) \subseteq {y, <<>>} /\ (Last(x) = y \/ Size(y) # VocabularySize)
    BY <1>7
  <2> DEFINE narrow == Selected(y, m, b)
             E == {n \in 0 .. L : f[n] \in {WholeLayer, narrow}}
  <2>2. y \in Seq(Words) /\ y # <<>>
    BY <1>1, <2>1 DEF Range
  <2>3. \A n \in 1 .. L : x[n] = y \/ x[n] = <<>>
    BY <1>4, <2>1
  <2>4. Ideal(<<>>, m, b) = WholeLayer /\ Ideal(y, m, b) = narrow
    BY <1>7, <2>2 DEF Ideal
  <2>5. <<>> \in Seq(Words)
    OBVIOUS
  <2>6. UpdateOutputLayer(WholeLayer, m, <<>>, b) = WholeLayer
          /\ UpdateOutputLayer(WholeLayer, m, y, b) = narrow
          /\ UpdateOutputLayer(narrow, m, y, b) = narrow
    <3> HIDE DEF narrow
    <3>1. \A ids \in Seq(Words) :
            /\ UpdateOutputLayer(WholeLayer, m, ids, b) = Ideal(ids, m, b)
            /\ UpdateOutputLayer(Ideal(ids, m, b), m, ids, b) = Ideal(ids, m, b)
      BY <1>1, UpdateFromWhole, UpdateAgain
    <3> QED
      BY <2>2, <2>4, <2>5, <3>1
  <2>7. UpdateOutputLayer(narrow, m, <<>>, b) = IF Size(y) = VocabularySize THEN narrow ELSE WholeLayer
    BY <1>1, <1>7, <2>2, UpdateBack
  <2>8. 0 \in E
    BY <1>1, <1>3
  <2> HIDE DEF narrow, Size
  <2>9. ASSUME NEW n \in 0 .. L - 1, n \in E PROVE n + 1 \in E
    <3>1. n + 1 \in 1 .. L /\ (n + 1) - 1 = n
      BY <1>1
    <3>2. f[n + 1] = UpdateOutputLayer(f[n], m, x[n + 1], b) /\ (x[n + 1] = y \/ x[n + 1] = <<>>)
      BY <1>3, <2>3, <3>1
    <3> QED
      BY <1>1, <2>6, <2>7, <2>9, <3>1, <3>2
  <2>10. \A n \in 0 .. L : n \in E
    <3> HIDE DEF E
    <3> QED
      BY <1>1, <2>8, <2>9, Induction
  <2>11. L - 1 \in 0 .. L
    BY <1>1
  <2>12. f[L - 1] \in {WholeLayer, narrow} /\ f[L] = UpdateOutputLayer(f[L - 1], m, Last(x), b)
    BY <1>3, <1>5, <2>10, <2>11
  <2>13. Last(x) = y \/ (Last(x) = <<>> /\ Size(y) # VocabularySize)
    BY <1>4, <1>5, <2>1, <2>3
  <2>14. f[L] = Ideal(Last(x), m, b)
    BY <2>4, <2>6, <2>7, <2>12, <2>13
  <2> QED
    BY <1>2, <2>14
<1> QED
  BY <1>6, <1>7 DEF RestrictionsAreOne

-----------------------------------------------------------------------------
(* A layer that knows the words of a request and no others.                *)

Free(l) == Outputs(l) \ l.masked

Fits(l, known) ==
  /\ known \subseteq Words
  /\ \A o \in Outputs(l) : o \in Nat /\ ToOriginal(l, o) \in Words
  /\ \A o \in Free(l) : ToOriginal(l, o) \in known
  /\ \A w \in known : \E o \in Free(l) : ToOriginal(l, o) = w
  /\ \A o, u \in Free(l) : ToOriginal(l, o) = ToOriginal(l, u) => o = u
  /\ IsUpdated(l) => \A w \in known : /\ w \in DOMAIN l.outputs /\ l.outputs[w] \in Free(l)
                                      /\ ToOriginal(l, l.outputs[w]) = w
  /\ IsUpdated(l) => \A w \in DOMAIN l.outputs \ known : l.outputs[w] \in l.masked
  /\ ~IsUpdated(l) => known = Words
  /\ IsFiniteSet(Outputs(l))

LEMMA WholeFits == Fits(WholeLayer, Words)
<1>1. ~IsUpdated(WholeLayer) /\ WholeLayer.masked = {}
  BY DEF IsUpdated, WholeLayer
<1>2. Outputs(WholeLayer) = Words /\ Free(WholeLayer) = Words
  BY <1>1 DEF Outputs, OutputSize, Free, Words
<1>3. \A o : ToOriginal(WholeLayer, o) = o
  BY <1>1 DEF ToOriginal
<1>4. IsFiniteSet(Words) /\ \A o \in Words : o \in Nat
  <2>1. 0 \in Int /\ VocabularySize - 1 \in Int
    BY OutputLayerAssumption
  <2> QED
    BY <2>1, FS_Interval, OutputLayerAssumption DEF Words
<1> QED
  BY <1>1, <1>2, <1>3, <1>4 DEF Fits

LEMMA MinIs ==
  ASSUME NEW S \in SUBSET Nat, NEW m \in S, \A n \in S : m <= n
  PROVE  Min(S) = m
<1>1. \A x \in S : (\A y \in S : x <= y) => x = m
  <2> SUFFICES ASSUME NEW x \in S, \A y \in S : x <= y PROVE x = m
    OBVIOUS
  <2>1. x <= m /\ m <= x /\ x \in Nat /\ m \in Nat
    OBVIOUS
  <2> QED
    BY <2>1
<1> QED
  BY <1>1 DEF Min

LEMMA SelectedFits ==
  ASSUME NEW ids \in Seq(Words), ids # <<>>, IsInjective(ids), NEW multiple \in Nat \ {0},
         NEW hasBias \in BOOLEAN
  PROVE  Fits(Selected(ids, multiple, hasBias), Range(ids))
<1> DEFINE l == Selected(ids, multiple, hasBias)
           all == Padded(ids, multiple)
           p == Padding(Len(ids), multiple)
           size == Len(ids)
           places(w) == {n \in DOMAIN all : all[n] = w}
<1>1. /\ all \in Seq(Words) /\ Len(all) = size + p /\ p \in Nat /\ size \in Nat \ {0}
      /\ DOMAIN all = 1 .. size + p
      /\ \A n \in 1 .. size : all[n] = ids[n]
      /\ \A n \in size + 1 .. size + p : all[n] = 0
  <2>1. size \in Nat \ {0}
    OBVIOUS
  <2>2. p \in Nat
    BY <2>1, PaddingIsNumber
  <2>3. all \in Seq(Words) /\ Len(all) = size + p
    BY PaddedIs
  <2>4. DOMAIN all = 1 .. size + p
    <3> HIDE DEF all, p
    <3> QED
      BY <2>3
  <2> QED
    BY <2>1, <2>2, <2>3, <2>4, PaddedIs
<1>2. l.words = all /\ l.masked = Masked(WholeLayer, Len(all), p, hasBias)
        /\ l.outputs = Emplaced(<<>>, all)
  BY DEF Selected, Select, WholeLayer
<1>3. DOMAIN ids = 1 .. size
  OBVIOUS
<1> HIDE DEF l, all, p
<1>4. l.masked = size .. size + p - 1
  <2>1. CASE p > 0
    <3>1. (size + p) - p = size
      BY <1>1
    <3> QED
      BY <1>1, <1>2, <2>1, <3>1 DEF Masked
  <2>2. CASE p = 0
    <3>1. l.masked = {}
      BY <1>1, <1>2, <2>2 DEF Masked, WholeLayer
    <3> QED
      BY <1>1, <2>2, <3>1
  <2> QED
    BY <1>1, <2>1, <2>2
<1>5. IsUpdated(l) /\ Outputs(l) = 0 .. size + p - 1
  <2>1. all # <<>>
    BY <1>1
  <2> QED
    BY <1>1, <1>2, <2>1 DEF IsUpdated, Outputs, OutputSize
<1>6. Free(l) = 0 .. size - 1
  BY <1>1, <1>4, <1>5 DEF Free
<1>7. \A o : ToOriginal(l, o) = all[o + 1]
  BY <1>2, <1>5 DEF ToOriginal
<1>8. \A o \in 0 .. size - 1 : ToOriginal(l, o) = ids[o + 1] /\ o + 1 \in 1 .. size
  BY <1>1, <1>7
<1>9. DOMAIN l.outputs = Range(all)
        /\ \A w \in Range(all) : l.outputs[w] = Min(places(w)) - 1
  <2>1. Emplaced(<<>>, all) = [w \in Range(all) |-> Min({n \in DOMAIN all : all[n] = w}) - 1]
    BY DEF Emplaced
  <2> QED
    BY <1>2, <2>1
<1>10. \A m, n \in 1 .. size : ids[m] = ids[n] => m = n
  BY <1>3 DEF IsInjective
<1>11. \A w \in Range(ids) : \E m \in 1 .. size : ids[m] = w
  BY <1>3 DEF Range
<1>12. ASSUME NEW m \in 1 .. size PROVE Min(places(ids[m])) = m
  <2>1. m \in places(ids[m]) /\ places(ids[m]) \in SUBSET Nat
    BY <1>1
  <2>2. ASSUME NEW n \in places(ids[m]) PROVE m <= n
    <3>1. n \in 1 .. size + p /\ all[n] = ids[m]
      BY <1>1
    <3>2. n \in 1 .. size => n = m
      BY <1>1, <1>10, <3>1
    <3> QED
      BY <1>1, <3>1, <3>2
  <2> HIDE DEF places
  <2> QED
    BY <2>1, <2>2, MinIs
<1>13. ASSUME NEW w \in Range(ids)
       PROVE  w \in DOMAIN l.outputs /\ l.outputs[w] \in Free(l) /\ ToOriginal(l, l.outputs[w]) = w
  <2>1. PICK m \in 1 .. size : ids[m] = w
    BY <1>11
  <2>2. w \in Range(all)
    <3>1. m \in DOMAIN all /\ all[m] = w
      BY <1>1, <2>1
    <3> QED
      BY <3>1 DEF Range
  <2>3. l.outputs[w] = m - 1
    BY <1>9, <1>12, <2>1, <2>2
  <2>4. m - 1 \in 0 .. size - 1 /\ (m - 1) + 1 = m
    BY <1>1
  <2> QED
    BY <1>6, <1>8, <1>9, <2>1, <2>2, <2>3, <2>4
<1>14. ASSUME NEW w \in DOMAIN l.outputs \ Range(ids) PROVE l.outputs[w] \in l.masked
  <2>1. w \in Range(all)
    BY <1>9
  <2>2. PICK n \in 1 .. size + p : all[n] = w
    BY <1>1, <2>1 DEF Range
  <2>3. ASSUME NEW k \in places(w) PROVE k \in size + 1 .. size + p
    <3>1. k \in 1 .. size + p /\ all[k] = w
      BY <1>1
    <3>2. k \notin 1 .. size
      BY <1>1, <1>3, <3>1 DEF Range
    <3> QED
      BY <1>1, <3>1, <3>2
  <2>4. w = 0
    <3>1. n \in size + 1 .. size + p
      BY <1>1, <2>2, <2>3
    <3> QED
      BY <1>1, <2>2, <3>1
  <2>5. p \in Nat \ {0} /\ size + 1 \in places(w)
    <3>1. n \in size + 1 .. size + p
      BY <1>1, <2>2, <2>3
    <3>2. p \in Nat \ {0} /\ size + 1 \in size + 1 .. size + p /\ size + 1 \in 1 .. size + p
      BY <1>1, <3>1
    <3> QED
      BY <1>1, <2>4, <3>2
  <2>6. Min(places(w)) = size + 1
    <3>1. places(w) \in SUBSET Nat /\ \A k \in places(w) : size + 1 <= k
      BY <1>1, <2>3
    <3> HIDE DEF places
    <3> QED
      BY <2>5, <3>1, MinIs
  <2>7. l.outputs[w] = size
    BY <1>1, <1>9, <2>1, <2>6
  <2> QED
    BY <1>1, <1>4, <2>5, <2>7
<1>15. Range(ids) \subseteq Words /\ \A m \in 1 .. size : ids[m] \in Range(ids)
  BY <1>3 DEF Range
<1>16. \A o \in Outputs(l) : o \in Nat /\ ToOriginal(l, o) \in Words
  <2>1. \A o \in 0 .. size + p - 1 : o \in Nat /\ o + 1 \in 1 .. size + p
    BY <1>1
  <2> QED
    BY <1>1, <1>5, <1>7, <2>1
<1>17. \A o \in Free(l) : ToOriginal(l, o) \in Range(ids)
  BY <1>6, <1>8, <1>15
<1>18. \A w \in Range(ids) : \E o \in Free(l) : ToOriginal(l, o) = w
  BY <1>13
<1>19. ASSUME NEW o \in Free(l), NEW u \in Free(l), ToOriginal(l, o) = ToOriginal(l, u) PROVE o = u
  <2>1. o + 1 = u + 1
    BY <1>6, <1>8, <1>10, <1>19
  <2> QED
    BY <1>1, <1>6, <2>1
<1>20. IsFiniteSet(Outputs(l))
  <2>1. 0 \in Int /\ size + p - 1 \in Int
    BY <1>1
  <2> QED
    BY <1>5, <2>1, FS_Interval
<1>21. Fits(l, Range(ids))
  BY <1>5, <1>13, <1>14, <1>15, <1>16, <1>17, <1>18, <1>19, <1>20 DEF Fits
<1> QED
  BY <1>21 DEF l

(* The words of a request. *)
Known(r) == IF Last(r.restrictions) = <<>> THEN Words ELSE Range(Last(r.restrictions))

LEMMA LayerFits ==
  ASSUME NEW r \in AllRequests, RestrictionsAreOne(r)
  PROVE  Fits(LayerAfter(r.restrictions, r.multiple, r.hasBias), Known(r))
<1> DEFINE y == Last(r.restrictions)
<1>1. /\ r.restrictions \in Seq(Seq(Words)) \ {<<>>} /\ r.multiple \in Nat \ {0}
      /\ r.hasBias \in BOOLEAN /\ \A n \in DOMAIN r.restrictions : IsInjective(r.restrictions[n])
  BY GreedySearchAssumption DEF IsRequest
<1>2. y \in Seq(Words) /\ IsInjective(y)
  <2>1. Len(r.restrictions) \in DOMAIN r.restrictions
    BY <1>1
  <2> QED
    BY <1>1, <2>1 DEF Last
<1>3. Fits(Ideal(y, r.multiple, r.hasBias), Known(r))
  <2>1. CASE y # <<>>
    BY <1>1, <1>2, <2>1, SelectedFits DEF Ideal, Known
  <2>2. CASE y = <<>> /\ Padding(VocabularySize, r.multiple) = 0
    BY <2>2, WholeFits DEF Ideal, Known
  <2>3. CASE y = <<>> /\ Padding(VocabularySize, r.multiple) # 0
    BY <1>1, <2>3, FullIs, SelectedFits DEF Ideal, Known
  <2> QED
    BY <2>1, <2>2, <2>3
<1> QED
  BY <1>3, LayerIsIdeal

-----------------------------------------------------------------------------
(* Words and outputs.                                                      *)

(* Sequences are equal if they have the same entries.                      *)
LEMMA SameSequence ==
  ASSUME NEW S, NEW s \in Seq(S), NEW T, NEW t \in Seq(T), Len(s) = Len(t),
         \A n \in 1 .. Len(s) : s[n] = t[n]
  PROVE  s = t
<1>1. s = [n \in 1 .. Len(s) |-> s[n]] /\ t = [n \in 1 .. Len(t) |-> t[n]]
  OBVIOUS
<1> QED
  BY <1>1

LEMMA ToOutputsKnown ==
  ASSUME NEW l, NEW known, Fits(l, known), NEW s \in Seq(known)
  PROVE  /\ ToOutputs(l, s) \in Seq(Free(l)) /\ Len(ToOutputs(l, s)) = Len(s)
         /\ \A n \in 1 .. Len(s) : ToOriginal(l, ToOutputs(l, s)[n]) = s[n]
<1> DEFINE L == Len(s)
<1>1. L \in Nat /\ \A n \in 1 .. L : s[n] \in known
  OBVIOUS
<1>2. CASE IsUpdated(l)
  <2> DEFINE out == [n \in 1 .. L |-> l.outputs[s[n]]]
  <2>1. {n \in DOMAIN s : s[n] \in DOMAIN l.outputs} = 1 .. L
    BY <1>1, <1>2 DEF Fits
  <2>2. Ascending(1 .. L) = [n \in 1 .. L |-> n]
    BY <1>1, AscendingInterval
  <2>3. ToOutputs(l, s) = out
    BY <1>2, <2>1, <2>2 DEF ToOutputs
  <2>4. \A n \in 1 .. L : out[n] \in Free(l) /\ ToOriginal(l, out[n]) = s[n]
    BY <1>1, <1>2 DEF Fits
  <2>5. out \in Seq(Free(l)) /\ Len(out) = L
    <3>1. out \in [1 .. L -> Free(l)] /\ DOMAIN out = 1 .. L
      BY <2>4
    <3> HIDE DEF out, L
    <3> QED
      BY <1>1, <3>1
  <2> QED
    BY <2>3, <2>4, <2>5
<1>3. CASE ~IsUpdated(l)
  <2>1. ToOutputs(l, s) = s /\ \A o : ToOriginal(l, o) = o
    BY <1>3 DEF ToOutputs, ToOriginal
  <2>2. \A w \in known : w \in Free(l)
    BY <2>1 DEF Fits
  <2>3. s \in Seq(Free(l))
    <3>1. s \in [1 .. L -> Free(l)]
      BY <1>1, <2>2
    <3> QED
      BY <1>1, <3>1
  <2> QED
    BY <2>1, <2>3
<1> QED
  BY <1>2, <1>3

LEMMA SetToSeqIs ==
  ASSUME NEW S, IsFiniteSet(S)
  PROVE  /\ SetToSeq(S) \in Seq(S) /\ Len(SetToSeq(S)) = Cardinality(S)
         /\ \A x \in S : \E n \in 1 .. Len(SetToSeq(S)) : SetToSeq(S)[n] = x
<1> DEFINE c == Cardinality(S)
           s == SetToSeq(S)
<1>1. c \in Nat /\ Bijection(1 .. c, S) # {}
  BY FS_CardinalityType DEF ExistsBijection
<1>2. PICK f : f \in Bijection(1 .. c, S)
  BY <1>1
<1>3. f \in [1 .. c -> S] /\ IsInjective(f)
  BY <1>2 DEF Bijection, Injection
<1>4. s \in [1 .. c -> S] /\ IsInjective(s)
  BY <1>3 DEF SetToSeq
<1> HIDE DEF s
<1>5. s \in Injection(1 .. c, S)
  BY <1>4 DEF Injection
<1>6. IsFiniteSet(1 .. c) /\ Cardinality(1 .. c) = c
  <2>1. 1 \in Int /\ c \in Int /\ (IF 1 > c THEN 0 ELSE c - 1 + 1) = c
    BY <1>1
  <2> QED
    BY <2>1, FS_Interval
<1>7. s \in Surjection(1 .. c, S)
  BY <1>5, <1>6, FS_Injection
<1>8. s \in Seq(S) /\ Len(s) = c
  BY <1>1, <1>4
<1>9. \A x \in S : \E n \in 1 .. c : s[n] = x
  BY <1>7 DEF Surjection
<1> QED
  BY <1>8, <1>9 DEF s, c

(* An output that is free is one of these outputs if its word is one of    *)
(* these words: the others become no output, or one of the padding.        *)
LEMMA ToOutputSetIs ==
  ASSUME NEW l, NEW known, Fits(l, known), NEW ids \in SUBSET Words, NEW o \in Free(l)
  PROVE  o \in ToOutputSet(l, ids) <=> ToOriginal(l, o) \in ids
<1> DEFINE s == SetToSeq(ids)
           kept == {n \in DOMAIN s : s[n] \in DOMAIN l.outputs}
           order == Ascending(kept)
<1>1. IsFiniteSet(ids)
  <2>1. 0 \in Int /\ VocabularySize - 1 \in Int
    BY OutputLayerAssumption
  <2>2. IsFiniteSet(Words)
    BY <2>1, FS_Interval DEF Words
  <2> QED
    BY <2>2, FS_Subset
<1>2. s \in Seq(ids) /\ DOMAIN s = 1 .. Len(s) /\ Len(s) \in Nat
  BY <1>1, SetToSeqIs
<1>3. \A x \in ids : \E n \in DOMAIN s : s[n] = x
  BY <1>1, <1>2, SetToSeqIs
<1>4. \A n \in DOMAIN s : s[n] \in ids
  BY <1>2
<1> HIDE DEF s
<1>5. CASE ~IsUpdated(l)
  <2>1. ToOutputSet(l, ids) = Range(s) /\ ToOriginal(l, o) = o
    BY <1>5 DEF ToOutputSet, ToOutputs, ToOriginal, s
  <2> QED
    BY <1>3, <1>4, <2>1 DEF Range
<1>6. CASE IsUpdated(l)
  <2>1. IsFiniteSet(DOMAIN s)
    <3>1. 1 \in Int /\ Len(s) \in Int
      BY <1>2
    <3> QED
      BY <1>2, <3>1, FS_Interval
  <2>2. kept \in SUBSET Int /\ IsFiniteSet(kept)
    <3>1. kept \in SUBSET (DOMAIN s)
      OBVIOUS
    <3>2. kept \in SUBSET Int
      BY <1>2
    <3> HIDE DEF kept
    <3> QED
      BY <2>1, <3>1, <3>2, FS_Subset
  <2>3. /\ order \in [1 .. Cardinality(kept) -> kept]
        /\ \A x \in kept : \E n \in DOMAIN order : order[n] = x
    <3> HIDE DEF kept
    <3>1. order \in [1 .. Cardinality(kept) -> kept]
            /\ \A x \in kept : \E n \in 1 .. Cardinality(kept) : order[n] = x
      BY <2>2, AscendingIs
    <3> HIDE DEF order
    <3>2. DOMAIN order = 1 .. Cardinality(kept)
      BY <3>1
    <3> QED
      BY <3>1, <3>2
  <2>4. ToOutputSet(l, ids) = Range([n \in DOMAIN order |-> l.outputs[s[order[n]]]])
    BY <1>6 DEF ToOutputSet, ToOutputs, s
  <2> HIDE DEF order
  <2>5. \A n \in DOMAIN order : order[n] \in kept
    BY <2>3
  <2>6. o \in ToOutputSet(l, ids) <=> \E n \in kept : l.outputs[s[n]] = o
    <3>1. o \in ToOutputSet(l, ids) <=> \E n \in DOMAIN order : l.outputs[s[order[n]]] = o
      BY <2>4 DEF Range
    <3> HIDE DEF kept
    <3> QED
      BY <2>3, <2>5, <3>1
  <2>7. ASSUME NEW n \in kept, l.outputs[s[n]] = o PROVE ToOriginal(l, o) \in ids
    <3>1. s[n] \in DOMAIN l.outputs /\ s[n] \in ids
      BY <1>4
    <3>2. s[n] \in known
      BY <1>6, <2>7, <3>1 DEF Fits, Free
    <3>3. ToOriginal(l, o) = s[n]
      BY <1>6, <2>7, <3>2 DEF Fits
    <3> QED
      BY <3>1, <3>3
  <2>8. ASSUME ToOriginal(l, o) \in ids PROVE \E n \in kept : l.outputs[s[n]] = o
    <3>1. PICK w \in known : w = ToOriginal(l, o)
      BY DEF Fits
    <3>2. PICK n \in DOMAIN s : s[n] = w
      BY <1>3, <2>8, <3>1
    <3>3. w \in DOMAIN l.outputs /\ l.outputs[w] \in Free(l) /\ ToOriginal(l, l.outputs[w]) = w
      BY <1>6 DEF Fits
    <3>4. l.outputs[w] = o
      BY <3>1, <3>3 DEF Fits
    <3> QED
      BY <3>2, <3>3, <3>4
  <2> QED
    BY <2>6, <2>7, <2>8
<1> QED
  BY <1>5, <1>6

-----------------------------------------------------------------------------
(* The sentences that are run, and their prompts.                          *)

LEMMA RunIs ==
  ASSUME NEW r \in AllRequests
  PROVE  IndexToRun(r) \in Seq(Sentences(r)) /\ Sentences(r) = 1 .. Len(r.prompts)
<1> DEFINE S == Sentences(r) \ r.skipped
<1>1. Sentences(r) = 1 .. Len(r.prompts) /\ Len(r.prompts) \in Nat
  BY GreedySearchAssumption DEF IsRequest, Sentences
<1>2. S \in SUBSET Int /\ S \in SUBSET (1 .. Len(r.prompts))
  BY <1>1
<1>3. IsFiniteSet(S)
  <2>1. 1 \in Int /\ Len(r.prompts) \in Int
    BY <1>1
  <2> HIDE DEF S
  <2> QED
    BY <1>2, <2>1, FS_Interval, FS_Subset
<1>4. Cardinality(S) \in Nat /\ Ascending(S) \in [1 .. Cardinality(S) -> S]
  <2> HIDE DEF S
  <2> QED
    BY <1>2, <1>3, AscendingIs
<1>5. Ascending(S) \in Seq(S)
  <2> HIDE DEF S
  <2>1. PICK c \in Nat : Ascending(S) \in [1 .. c -> S]
    BY <1>4
  <2> QED
    BY <2>1
<1>6. \A s \in Seq(S) : s \in Seq(Sentences(r))
  OBVIOUS
<1> QED
  BY <1>1, <1>5, <1>6 DEF IndexToRun

LEMMA ForwardLengthIs ==
  ASSUME NEW r \in AllRequests
  PROVE  /\ ForwardLength(r) \in Nat
         /\ \A b \in Sentences(r) : ForwardLength(r) < Len(r.prompts[b])
         /\ \A b \in Sentences(r) : r.prompts[b] \in Seq(Words) /\ r.prompts[b] # <<>>
<1> DEFINE lens == {Len(r.prompts[b]) : b \in Sentences(r)}
<1>1. /\ r.prompts \in Seq(Seq(Words) \ {<<>>}) \ {<<>>} /\ r.promptLength \in Nat \ {0}
      /\ r.kind \in {"translate", "generate", "transcribe"}
      /\ r.kind = "transcribe" => \A b \in Sentences(r) : r.promptLength <= Len(r.prompts[b])
  BY GreedySearchAssumption DEF IsRequest
<1>2. \A b \in Sentences(r) : r.prompts[b] \in Seq(Words) /\ r.prompts[b] # <<>>
  BY <1>1 DEF Sentences
<1>3. \A b \in Sentences(r) : Len(r.prompts[b]) \in Nat \ {0}
  BY <1>2
<1>4. CASE r.kind = "generate" /\ ~r.includePrompt
  <2>1. lens \in SUBSET Nat /\ lens # {}
    <3>1. 1 \in Sentences(r)
      BY <1>1 DEF Sentences
    <3> QED
      BY <1>3, <3>1
  <2>2. PICK m \in lens : \A y \in lens : m <= y
    BY <2>1, LeastNumber
  <2>3. Min(lens) = m
    <3> HIDE DEF lens
    <3> QED
      BY <2>1, <2>2, MinIs
  <2>4. ForwardLength(r) = m - 1
    BY <1>4, <2>3 DEF ForwardLength
  <2>5. m \in Nat \ {0} /\ \A b \in Sentences(r) : m <= Len(r.prompts[b])
    BY <1>3, <2>2
  <2> QED
    BY <1>2, <1>3, <2>4, <2>5
<1>5. CASE r.kind = "transcribe"
  <2>1. ForwardLength(r) = r.promptLength - 1
    BY <1>5 DEF ForwardLength
  <2> QED
    BY <1>1, <1>2, <1>3, <1>5, <2>1
<1>6. CASE ~(r.kind = "generate" /\ ~r.includePrompt) /\ r.kind # "transcribe"
  <2>1. ForwardLength(r) = 0
    BY <1>6 DEF ForwardLength
  <2> QED
    BY <1>2, <1>3, <2>1
<1> QED
  BY <1>4, <1>5, <1>6

-----------------------------------------------------------------------------
(* The rules about the text.                                               *)

(* Two parts of a sequence.                                                *)
LEMMA SameParts ==
  ASSUME NEW S, NEW s \in Seq(S), NEW d \in Nat, NEW a \in 1 .. Len(s) + 1,
         NEW b \in 1 .. Len(s) + 1, a + d <= Len(s) + 1, b + d <= Len(s) + 1
  PROVE  SubSeq(s, a, a + d - 1) = SubSeq(s, b, b + d - 1)
           <=> \A q \in 0 .. d - 1 : s[a + q] = s[b + q]
<1> DEFINE x == SubSeq(s, a, a + d - 1)
           y == SubSeq(s, b, b + d - 1)
<1>1. \A c \in 1 .. Len(s) + 1 : c + d <= Len(s) + 1 =>
        /\ SubSeq(s, c, c + d - 1) \in Seq(S) /\ Len(SubSeq(s, c, c + d - 1)) = d
        /\ \A q \in 0 .. d - 1 : SubSeq(s, c, c + d - 1)[q + 1] = s[c + q]
  <2> SUFFICES ASSUME NEW c \in 1 .. Len(s) + 1, c + d <= Len(s) + 1
               PROVE  /\ SubSeq(s, c, c + d - 1) \in Seq(S) /\ Len(SubSeq(s, c, c + d - 1)) = d
                      /\ \A q \in 0 .. d - 1 : SubSeq(s, c, c + d - 1)[q + 1] = s[c + q]
    OBVIOUS
  <2>1. PICK e \in Int : e = c + d - 1
    OBVIOUS
  <2>2. \A i \in c .. e : s[i] \in S
    BY <2>1
  <2>3. /\ SubSeq(s, c, e) \in Seq(S)
        /\ Len(SubSeq(s, c, e)) = IF c <= e THEN e - c + 1 ELSE 0
        /\ \A i \in 1 .. e - c + 1 : SubSeq(s, c, e)[i] = s[c + i - 1]
    BY <2>2, SubSeqProperties
  <2>4. Len(SubSeq(s, c, e)) = d
    BY <2>1, <2>3
  <2>5. ASSUME NEW q \in 0 .. d - 1 PROVE SubSeq(s, c, e)[q + 1] = s[c + q]
    <3>1. q + 1 \in 1 .. e - c + 1 /\ c + (q + 1) - 1 = c + q
      BY <2>1
    <3> QED
      BY <2>3, <3>1
  <2> QED
    BY <2>1, <2>3, <2>4, <2>5
<1>2. x \in Seq(S) /\ y \in Seq(S) /\ Len(x) = d /\ Len(y) = d
        /\ \A q \in 0 .. d - 1 : x[q + 1] = s[a + q] /\ y[q + 1] = s[b + q]
  BY <1>1
<1> HIDE DEF x, y
<1>3. ASSUME \A q \in 0 .. d - 1 : s[a + q] = s[b + q] PROVE x = y
  <2>1. ASSUME NEW i \in 1 .. d PROVE x[i] = y[i]
    <3>1. i - 1 \in 0 .. d - 1 /\ (i - 1) + 1 = i
      OBVIOUS
    <3> QED
      BY <1>2, <1>3, <3>1
  <2> QED
    BY <1>2, <2>1, SameSequence
<1>4. ASSUME x = y, NEW q \in 0 .. d - 1 PROVE s[a + q] = s[b + q]
  BY <1>2, <1>4
<1> QED
  BY <1>3, <1>4 DEF x, y

EndsWith(s, t) ==
  Len(s) <= Len(t) /\ \A q \in 0 .. Len(s) - 1 : s[Len(s) - q] = t[Len(t) - q]

LEMMA SuffixIs ==
  ASSUME NEW S, NEW s \in Seq(S), NEW T, NEW t \in Seq(T)
  PROVE  IsSuffix(s, t) <=> EndsWith(s, t)
<1> DEFINE u == Reverse(s)
           v == Reverse(t)
           x == SubSeq(u, 1, Len(s))
           y == SubSeq(v, 1, Len(s))
<1>1. /\ u \in Seq(S) /\ Len(u) = Len(s) /\ \A q \in 0 .. Len(s) - 1 : u[q + 1] = s[Len(s) - q]
      /\ v \in Seq(T) /\ Len(v) = Len(t) /\ \A q \in 0 .. Len(t) - 1 : v[q + 1] = t[Len(t) - q]
  <2>1. \A X : \A w \in Seq(X) :
          /\ Reverse(w) \in Seq(X) /\ Len(Reverse(w)) = Len(w)
          /\ \A q \in 0 .. Len(w) - 1 : Reverse(w)[q + 1] = w[Len(w) - q]
    <3> SUFFICES ASSUME NEW X, NEW w \in Seq(X)
                 PROVE  /\ Reverse(w) \in Seq(X) /\ Len(Reverse(w)) = Len(w)
                        /\ \A q \in 0 .. Len(w) - 1 : Reverse(w)[q + 1] = w[Len(w) - q]
      OBVIOUS
    <3>1. PICK n \in Nat : n = Len(w)
      OBVIOUS
    <3>2. \A i \in 1 .. n : (n - i) + 1 \in 1 .. n /\ w[(n - i) + 1] \in X
      BY <3>1
    <3>3. Reverse(w) = [i \in 1 .. n |-> w[(n - i) + 1]]
      BY <3>1 DEF Reverse
    <3>4. Reverse(w) \in [1 .. n -> X]
      BY <3>2, <3>3
    <3>5. \A q \in 0 .. n - 1 : q + 1 \in 1 .. n /\ (n - (q + 1)) + 1 = n - q
      OBVIOUS
    <3>6. \A q \in 0 .. n - 1 : Reverse(w)[q + 1] = w[n - q]
      BY <3>3, <3>5
    <3>7. Reverse(w) \in Seq(X) /\ Len(Reverse(w)) = n
      BY <3>4
    <3> QED
      BY <3>1, <3>6, <3>7
  <2> QED
    BY <2>1
<1>2. IsSuffix(s, t) <=> Len(s) <= Len(t) /\ x = y
  BY <1>1 DEF IsSuffix, IsPrefix
<1> HIDE DEF u, v
<1>3. CASE Len(s) <= Len(t)
  <2>1. PICK n \in Nat : n = Len(s) /\ n <= Len(t) /\ Len(t) \in Nat
    BY <1>3
  <2>2. \A i \in 1 .. n : u[i] \in S /\ v[i] \in T
    BY <1>1, <2>1
  <2>3. /\ x \in Seq(S) /\ Len(x) = IF 1 <= n THEN n - 1 + 1 ELSE 0
        /\ \A i \in 1 .. n - 1 + 1 : x[i] = u[1 + i - 1]
        /\ y \in Seq(T) /\ Len(y) = IF 1 <= n THEN n - 1 + 1 ELSE 0
        /\ \A i \in 1 .. n - 1 + 1 : y[i] = v[1 + i - 1]
    BY <2>1, <2>2, SubSeqProperties
  <2>4. /\ Len(x) = n /\ Len(y) = n
        /\ \A i \in 1 .. n : x[i] = u[i] /\ y[i] = v[i]
    <3>1. n - 1 + 1 = n /\ \A i \in 1 .. n : 1 + i - 1 = i
      OBVIOUS
    <3> QED
      BY <2>3, <3>1
  <2> HIDE DEF x, y
  <2>5. ASSUME x = y, NEW q \in 0 .. n - 1 PROVE s[n - q] = t[Len(t) - q]
    <3>1. q + 1 \in 1 .. n /\ q \in 0 .. Len(t) - 1
      BY <2>1
    <3> QED
      BY <1>1, <2>1, <2>4, <2>5, <3>1
  <2>6. ASSUME \A q \in 0 .. n - 1 : s[n - q] = t[Len(t) - q] PROVE x = y
    <3>1. ASSUME NEW i \in 1 .. n PROVE x[i] = y[i]
      <4>1. i - 1 \in 0 .. n - 1 /\ (i - 1) + 1 = i /\ i - 1 \in 0 .. Len(t) - 1
        BY <2>1
      <4> QED
        BY <1>1, <2>1, <2>4, <2>6, <4>1
    <3> QED
      BY <2>3, <2>4, <3>1, SameSequence
  <2> QED
    BY <1>2, <1>3, <2>1, <2>5, <2>6 DEF EndsWith
<1> QED
  BY <1>2, <1>3 DEF EndsWith

(* The words of these outputs.                                             *)
MapBack(l, s) == [n \in 1 .. Len(s) |-> ToOriginal(l, s[n])]

(* A text with its next token.                                             *)
LEMMA TextIs ==
  ASSUME NEW l, NEW known, Fits(l, known), NEW s \in Seq(Free(l)), NEW o \in Free(l)
  PROVE  LET text == Append(MapBack(l, s), ToOriginal(l, o))
         IN  /\ text \in Seq(known) /\ Len(text) = Len(s) + 1 /\ Len(s) \in Nat
             /\ text[Len(s) + 1] = ToOriginal(l, o)
             /\ \A n \in 1 .. Len(s) : s[n] \in Free(l) /\ text[n] = ToOriginal(l, s[n])
             /\ MapBack(l, s) \in Seq(known)
<1>1. PICK n \in Nat : n = Len(s)
  OBVIOUS
<1>2. \A i \in 1 .. n : s[i] \in Free(l) /\ ToOriginal(l, s[i]) \in known
  BY <1>1 DEF Fits
<1>3. MapBack(l, s) = [i \in 1 .. n |-> ToOriginal(l, s[i])]
  BY <1>1 DEF MapBack
<1>4. MapBack(l, s) \in Seq(known) /\ Len(MapBack(l, s)) = n
        /\ \A i \in 1 .. n : MapBack(l, s)[i] = ToOriginal(l, s[i])
  <2>1. MapBack(l, s) \in [1 .. n -> known]
    BY <1>2, <1>3
  <2> QED
    BY <1>3, <2>1
<1>5. ToOriginal(l, o) \in known
  BY DEF Fits
<1> HIDE DEF MapBack
<1>6. PICK w \in known : w = ToOriginal(l, o)
  BY <1>5
<1>7. PICK x \in Seq(known) : x = MapBack(l, s) /\ Len(x) = n
  BY <1>4
<1>8. Append(x, w) \in Seq(known) /\ Len(Append(x, w)) = n + 1 /\ Append(x, w)[n + 1] = w
        /\ \A i \in 1 .. n : Append(x, w)[i] = x[i]
  BY <1>7
<1> QED
  BY <1>1, <1>2, <1>4, <1>6, <1>7, <1>8

(* The tokens that would repeat an ngram of the text.                      *)
EndsRepeated(text, n) ==
  \E m \in 1 .. Len(text) - n :
    SubSeq(text, m, m + n - 1) = SubSeq(text, Len(text) - n + 1, (Len(text) - n + 1) + n - 1)

LEMMA NgramIs ==
  ASSUME NEW l, NEW known, Fits(l, known), NEW s \in Seq(Free(l)), NEW o \in Free(l),
         NEW n \in Nat \ {0}, NEW text, text = Append(MapBack(l, s), ToOriginal(l, o))
  PROVE  o \in NgramFinalTokens(s, n) <=> EndsRepeated(text, n)
<1> DEFINE length == Len(s)
           Part(m) == SubSeq(text, m, m + n - 1)
           Same(m) == \A q \in 0 .. n - 2 : s[m + q] = s[length - n + 2 + q]
<1>1. /\ text \in Seq(known) /\ Len(text) = length + 1 /\ length \in Nat
      /\ text[length + 1] = ToOriginal(l, o)
      /\ \A i \in 1 .. length : s[i] \in Free(l) /\ text[i] = ToOriginal(l, s[i])
  BY TextIs
<1>2. \A u, v \in Free(l) : ToOriginal(l, u) = ToOriginal(l, v) <=> u = v
  BY DEF Fits
<1>3. CASE length < n
  BY <1>1, <1>3 DEF NgramFinalTokens, EndsRepeated
<1>4. CASE n <= length
  <2>1. ASSUME NEW m \in 1 .. length - n + 1
        PROVE  SubSeq(s, m, m + n - 2) = SubSeq(s, length - n + 2, length) <=> Same(m)
    <3>1. PICK d \in Nat : d = n - 1
      OBVIOUS
    <3>a. length - n + 2 \in 1 .. Len(s) + 1
      BY <1>1, <1>4
    <3>2. PICK b \in 1 .. Len(s) + 1 : b = length - n + 2
      BY <3>a
    <3>3. /\ m \in 1 .. Len(s) + 1 /\ m + d <= Len(s) + 1 /\ b + d <= Len(s) + 1
          /\ m + n - 2 = m + d - 1 /\ length = b + d - 1 /\ n - 2 = d - 1
      BY <1>1, <1>4, <3>1, <3>2
    <3>4. SubSeq(s, m, m + d - 1) = SubSeq(s, b, b + d - 1)
            <=> \A q \in 0 .. d - 1 : s[m + q] = s[b + q]
      BY <3>3, SameParts
    <3> QED
      BY <3>2, <3>3, <3>4
  <2>2. ASSUME NEW m \in 1 .. length - n + 1
        PROVE  Part(m) = Part(length - n + 2) <=> Same(m) /\ s[m + n - 1] = o
    <3>a. length - n + 2 \in 1 .. Len(text) + 1
      BY <1>1, <1>4
    <3>1. PICK b \in 1 .. Len(text) + 1 : b = length - n + 2
      BY <3>a
    <3>2. n \in Nat /\ m \in 1 .. Len(text) + 1 /\ m + n <= Len(text) + 1 /\ b + n <= Len(text) + 1
      BY <1>1, <1>4, <3>1
    <3>3. Part(m) = Part(b) <=> \A q \in 0 .. n - 1 : text[m + q] = text[b + q]
      <4>1. text \in Seq(known)
        BY <1>1
      <4> QED
        BY <3>2, <4>1, SameParts
    <3>4. ASSUME NEW q \in 0 .. n - 2
          PROVE  text[m + q] = text[b + q] <=> s[m + q] = s[length - n + 2 + q]
      <4>1. m + q \in 1 .. length /\ b + q \in 1 .. length /\ b + q = length - n + 2 + q
        BY <1>1, <1>4, <3>1
      <4> QED
        BY <1>1, <1>2, <4>1
    <3>5. text[m + (n - 1)] = text[b + (n - 1)] <=> s[m + n - 1] = o
      <4>1. m + (n - 1) \in 1 .. length /\ m + (n - 1) = m + n - 1 /\ b + (n - 1) = length + 1
        BY <1>1, <1>4, <3>1
      <4>2. PICK j \in 1 .. length : j = m + n - 1
        BY <4>1
      <4>3. s[j] \in Free(l) /\ text[j] = ToOriginal(l, s[j]) /\ text[b + (n - 1)] = ToOriginal(l, o)
        BY <1>1, <4>1
      <4> QED
        BY <1>2, <4>1, <4>2, <4>3
    <3>6. \A q : q \in 0 .. n - 1 <=> q \in 0 .. n - 2 \/ q = n - 1
      OBVIOUS
    <3>7. (\A q \in 0 .. n - 1 : text[m + q] = text[b + q]) <=> Same(m) /\ s[m + n - 1] = o
      BY <3>4, <3>5, <3>6
    <3> QED
      BY <3>1, <3>3, <3>7
  <2>3. o \in NgramFinalTokens(s, n) <=> \E m \in 1 .. length - n + 1 :
          SubSeq(s, m, m + n - 2) = SubSeq(s, length - n + 2, length) /\ s[m + n - 1] = o
    <3>1. n # 0 /\ ~(length < n)
      BY <1>1, <1>4
    <3> QED
      BY <3>1, Zenon DEF NgramFinalTokens
  <2>4. Len(text) - n = length - n + 1 /\ Len(text) - n + 1 = length - n + 2
    BY <1>1
  <2>5. (\E m \in 1 .. length - n + 1 : Part(m) = Part(length - n + 2))
          <=> \E m \in 1 .. length - n + 1 :
                SubSeq(s, m, m + n - 2) = SubSeq(s, length - n + 2, length) /\ s[m + n - 1] = o
    <3> HIDE DEF Part, Same, length
    <3> QED
      BY <2>1, <2>2
  <2> QED
    BY <2>3, <2>4, <2>5 DEF EndsRepeated
<1>5. length < n \/ n <= length
  BY <1>1
<1> QED
  BY <1>3, <1>4, <1>5

(* The tokens that would complete a suppressed sequence.                   *)
EndsBanned(text, banned) == \E x \in banned \ {<<>>} : IsSuffix(x, text)

LEMMA BannedIs ==
  ASSUME NEW l, NEW known, Fits(l, known), NEW s \in Seq(Free(l)), NEW o \in Free(l),
         NEW banned \in SUBSET Seq(known), NEW text, text = Append(MapBack(l, s), ToOriginal(l, o))
  PROVE  o \in BannedTokens(s, {ToOutputs(l, x) : x \in banned}) <=> EndsBanned(text, banned)
<1>1. /\ text \in Seq(known) /\ Len(text) = Len(s) + 1 /\ Len(s) \in Nat
      /\ text[Len(s) + 1] = ToOriginal(l, o)
      /\ \A i \in 1 .. Len(s) : s[i] \in Free(l) /\ text[i] = ToOriginal(l, s[i])
  BY TextIs
<1>2. \A u, v \in Free(l) : ToOriginal(l, u) = ToOriginal(l, v) <=> u = v
  BY DEF Fits
<1>3. ASSUME NEW x \in banned
      PROVE  LET y == ToOutputs(l, x)
             IN  y # <<>> /\ IsSuffix(Front(y), s) /\ Last(y) = o <=> x # <<>> /\ IsSuffix(x, text)
  <2> DEFINE y == ToOutputs(l, x)
  <2>1. x \in Seq(known)
    OBVIOUS
  <2>2. y \in Seq(Free(l)) /\ Len(y) = Len(x) /\ \A n \in 1 .. Len(x) : ToOriginal(l, y[n]) = x[n]
    BY <2>1, ToOutputsKnown
  <2>3. y # <<>> <=> x # <<>>
    BY <2>1, <2>2
  <2> HIDE DEF y
  <2>4. CASE x = <<>>
    BY <2>3, <2>4 DEF y
  <2>5. CASE x # <<>>
    <3>1. PICK n \in Nat : Len(x) = n + 1 /\ Len(y) = n + 1
      BY <2>1, <2>2, <2>5
    <3>2. \A i \in 1 .. n + 1 : y[i] \in Free(l) /\ x[i] \in known /\ ToOriginal(l, y[i]) = x[i]
      BY <2>1, <2>2, <3>1
    <3>3. Front(y) \in Seq(Free(l)) /\ Len(Front(y)) = n /\ \A i \in 1 .. n : Front(y)[i] = y[i]
      <4>1. Front(y) = SubSeq(y, 1, n)
        BY <3>1 DEF Front
      <4>2. \A i \in 1 .. n : y[i] \in Free(l)
        BY <3>2
      <4>3. /\ SubSeq(y, 1, n) \in Seq(Free(l))
            /\ Len(SubSeq(y, 1, n)) = IF 1 <= n THEN n - 1 + 1 ELSE 0
            /\ \A i \in 1 .. n - 1 + 1 : SubSeq(y, 1, n)[i] = y[1 + i - 1]
        BY <4>2, SubSeqProperties
      <4>4. n - 1 + 1 = n /\ \A i \in 1 .. n : 1 + i - 1 = i
        OBVIOUS
      <4> QED
        BY <4>1, <4>3, <4>4
    <3>4. IsSuffix(Front(y), s) <=> n <= Len(s) /\ \A q \in 0 .. n - 1 : y[n - q] = s[Len(s) - q]
      <4>1. IsSuffix(Front(y), s) <=>
              n <= Len(s) /\ \A q \in 0 .. n - 1 : Front(y)[n - q] = s[Len(s) - q]
        <5>1. PICK f \in Seq(Free(l)) : f = Front(y) /\ Len(f) = n
          BY <3>3
        <5>2. IsSuffix(f, s) <=> EndsWith(f, s)
          BY <5>1, SuffixIs
        <5> QED
          BY <5>1, <5>2 DEF EndsWith
      <4>2. \A q \in 0 .. n - 1 : n - q \in 1 .. n
        OBVIOUS
      <4> QED
        BY <3>3, <4>1, <4>2
    <3>5. IsSuffix(x, text) <=>
            n + 1 <= Len(s) + 1
              /\ \A q \in 0 .. (n + 1) - 1 : x[n + 1 - q] = text[Len(s) + 1 - q]
      <4>1. text \in Seq(known)
        BY <1>1
      <4>2. IsSuffix(x, text) <=> EndsWith(x, text)
        BY <2>1, <4>1, SuffixIs
      <4> QED
        BY <1>1, <3>1, <4>2 DEF EndsWith
    <3>6. Last(y) = o <=> x[n + 1] = text[Len(s) + 1]
      <4>1. n + 1 \in 1 .. n + 1
        OBVIOUS
      <4>2. y[n + 1] \in Free(l) /\ ToOriginal(l, y[n + 1]) = x[n + 1]
        BY <3>2, <4>1
      <4> QED
        BY <1>1, <1>2, <3>1, <4>2 DEF Last
    <3>7. ASSUME n <= Len(s), NEW q \in 0 .. n - 1
          PROVE  y[n - q] = s[Len(s) - q] <=> x[n - q] = text[Len(s) - q]
      <4>1. PICK i \in 1 .. n + 1, k \in 1 .. Len(s) : i = n - q /\ k = Len(s) - q
        <5>1. PICK length \in Nat : length = Len(s)
          BY <1>1
        <5>2. n - q \in 1 .. n + 1 /\ length - q \in 1 .. length
          BY <3>7, <5>1
        <5> QED
          BY <5>1, <5>2
      <4>2. y[i] \in Free(l) /\ ToOriginal(l, y[i]) = x[i]
        BY <3>2
      <4>3. s[k] \in Free(l) /\ text[k] = ToOriginal(l, s[k])
        BY <1>1
      <4>4. x[i] = text[k] <=> y[i] = s[k]
        BY <1>2, <4>2, <4>3
      <4> QED
        BY <4>1, <4>4
    <3>8. (\A q \in 0 .. (n + 1) - 1 : x[n + 1 - q] = text[Len(s) + 1 - q])
            <=> /\ x[n + 1] = text[Len(s) + 1]
                /\ \A q \in 0 .. n - 1 : x[n - q] = text[Len(s) - q]
      <4>1. ASSUME \A q \in 0 .. (n + 1) - 1 : x[n + 1 - q] = text[Len(s) + 1 - q]
            PROVE  /\ x[n + 1] = text[Len(s) + 1]
                   /\ \A q \in 0 .. n - 1 : x[n - q] = text[Len(s) - q]
        <5>1. x[n + 1 - 0] = text[Len(s) + 1 - 0] /\ n + 1 - 0 = n + 1 /\ Len(s) + 1 - 0 = Len(s) + 1
          BY <1>1, <4>1
        <5>2. ASSUME NEW q \in 0 .. n - 1 PROVE x[n - q] = text[Len(s) - q]
          <6>1. /\ q + 1 \in 0 .. (n + 1) - 1 /\ n + 1 - (q + 1) = n - q
                /\ Len(s) + 1 - (q + 1) = Len(s) - q
            BY <1>1
          <6> QED
            BY <4>1, <6>1
        <5> QED
          BY <5>1, <5>2
      <4>2. ASSUME x[n + 1] = text[Len(s) + 1],
                   \A q \in 0 .. n - 1 : x[n - q] = text[Len(s) - q],
                   NEW q \in 0 .. (n + 1) - 1
            PROVE  x[n + 1 - q] = text[Len(s) + 1 - q]
        <5>1. CASE q = 0
          BY <1>1, <4>2, <5>1
        <5>2. CASE q # 0
          <6>1. q - 1 \in 0 .. n - 1 /\ n - (q - 1) = n + 1 - q /\ Len(s) - (q - 1) = Len(s) + 1 - q
            BY <1>1, <5>2
          <6> QED
            BY <4>2, <6>1
        <5> QED
          BY <5>1, <5>2
      <4> QED
        BY <4>1, <4>2
    <3>9. n + 1 <= Len(s) + 1 <=> n <= Len(s)
      BY <1>1
    <3>10. y # <<>> /\ IsSuffix(Front(y), s) /\ Last(y) = o <=> x # <<>> /\ IsSuffix(x, text)
      BY <2>3, <2>5, <3>4, <3>5, <3>6, <3>7, <3>8, <3>9
    <3> QED
      BY <3>10 DEF y
  <2> QED
    BY <2>4, <2>5 DEF y
<1>4. o \in BannedTokens(s, {ToOutputs(l, x) : x \in banned}) <=>
        \E x \in banned : /\ ToOutputs(l, x) # <<>> /\ IsSuffix(Front(ToOutputs(l, x)), s)
                          /\ Last(ToOutputs(l, x)) = o
  <2> DEFINE all == {ToOutputs(l, x) : x \in banned}
  <2>1. \A y : y \in all <=> \E x \in banned : y = ToOutputs(l, x)
    OBVIOUS
  <2> HIDE DEF all
  <2>2. o \in BannedTokens(s, all) <=> \E y \in all : y # <<>> /\ IsSuffix(Front(y), s) /\ Last(y) = o
    BY Zenon DEF BannedTokens
  <2> QED
    BY <2>1, <2>2, Zenon DEF all
<1> QED
  BY <1>3, <1>4 DEF EndsBanned

-----------------------------------------------------------------------------
(* What stays as it is: the request, its layer, and what the search is     *)
(* given of each sentence.                                                 *)

Setup ==
  /\ request \in AllRequests
  /\ layer = LayerAfter(request.restrictions, request.multiple, request.hasBias)
  /\ options = Arguments(request, layer)
  /\ model \in Models

Given(k) == request.prompts[Run[k]]

PromptIs(k) ==
  /\ Run[k] \in Sentences(request)
  /\ Given(k) \in Seq(Known(request)) /\ ForwardLength(request) < Len(Given(k))
  /\ options.startIds[k] \in Free(layer)
  /\ ToOriginal(layer, options.startIds[k]) = Given(k)[ForwardLength(request) + 1]
  /\ options.prefixes[k] \in Seq(Free(layer))
  /\ Len(options.prefixes[k]) = Len(Given(k)) - ForwardLength(request) - 1
  /\ \A n \in 1 .. Len(options.prefixes[k]) :
       ToOriginal(layer, options.prefixes[k][n]) = Given(k)[ForwardLength(request) + 1 + n]
  /\ options.forwarded[k] = request.static \o SubSeq(Given(k), 1, ForwardLength(request))

LEMMA SetupFits ==
  ASSUME Setup, DecodesAlone(request)
  PROVE  Fits(layer, Known(request))
BY LayerFits DEF Setup, DecodesAlone

LEMMA ArgumentsAre ==
  ASSUME Setup
  PROVE  /\ Run \in Seq(Sentences(request)) /\ Len(Run) \in Nat /\ DOMAIN Run = 1 .. Len(Run)
         /\ Len(options.prefixes) = Len(Run) /\ Len(options.startIds) = Len(Run)
         /\ Batch = 1 .. Len(Run)
         /\ options.numHypotheses = request.numHypotheses /\ request.numHypotheses \in Nat \ {0}
         /\ options.returnPrefix = ReturnPrefix(request)
         /\ options.endIds = ToOutputSet(layer, request.endIds)
         /\ options.maxLength = request.maxLength /\ options.minLength = request.minLength
         /\ options.topk = request.topk /\ options.callback = request.callback
         /\ options.disableIds = ToOutputSet(layer, request.disableIds)
         /\ options.disableBegin = ToOutputSet(layer, request.disableBegin)
         /\ options.disableSequences = {ToOutputs(layer, s) : s \in request.suppress}
         /\ options.noRepeat = request.noRepeat /\ options.repetition = request.repetition
<1>1. Run \in Seq(Sentences(request)) /\ request.numHypotheses \in Nat \ {0}
  BY RunIs, GreedySearchAssumption DEF Setup, Run, IsRequest
<1>2. PICK n \in Nat : n = Len(Run) /\ DOMAIN Run = 1 .. n
  BY <1>1
<1>3. /\ DOMAIN options.prefixes = 1 .. n /\ DOMAIN options.startIds = 1 .. n
      /\ \E f : options.prefixes = [k \in 1 .. n |-> f[k]]
      /\ \E f : options.startIds = [k \in 1 .. n |-> f[k]]
  <2>1. IndexToRun(request) = Run
    BY DEF Run
  <2> DEFINE start == [k \in DOMAIN Run |-> StartTokens(request, layer, Run[k])]
  <2>2. options.prefixes = [k \in 1 .. n |-> Tail(start[k])]
          /\ options.startIds = [k \in 1 .. n |-> Head(start[k])]
    BY <1>2, <2>1 DEF Setup, Arguments
  <2> HIDE DEF start
  <2>3. /\ options.prefixes = [k \in 1 .. n |-> [j \in 1 .. n |-> Tail(start[j])][k]]
        /\ options.startIds = [k \in 1 .. n |-> [j \in 1 .. n |-> Head(start[j])][k]]
    BY <2>2
  <2> QED
    BY <2>2, <2>3
<1>4. Len(options.prefixes) = n /\ Len(options.startIds) = n
  BY <1>3
<1>5. Batch = 1 .. n
  BY <1>3 DEF Batch
<1> QED
  BY <1>1, <1>2, <1>4, <1>5 DEF Setup, Arguments

(* What is left to decode of a prompt are its words from there on.         *)
LEMMA PromptsAre ==
  ASSUME Setup, DecodesAlone(request), NEW k \in 1 .. Len(Run)
  PROVE  PromptIs(k) /\ ForwardLength(request) \in Nat
<1> DEFINE b == Run[k]
           p == request.prompts[b]
           rest == SubSeq(p, ForwardLength(request) + 1, Len(p))
           start == ToOutputs(layer, rest)
<1>1. Run \in Seq(Sentences(request)) /\ DOMAIN Run = 1 .. Len(Run)
  BY ArgumentsAre
<1>2. b \in Sentences(request)
  BY <1>1
<1>3. PICK from \in Nat : from = ForwardLength(request)
  BY ForwardLengthIs DEF Setup
<1>4. from < Len(p) /\ p \in Seq(Words)
  BY <1>2, <1>3, ForwardLengthIs DEF Setup
<1>5. PICK l \in Nat : l = Len(p)
  BY <1>4
<1>6. \A n \in 1 .. l : p[n] \in Known(request)
  <2>1. Range(p) \subseteq Known(request)
    BY <1>2 DEF DecodesAlone, PromptsAreKnown, Known
  <2>2. \A n \in 1 .. l : p[n] \in Range(p)
    BY <1>4, <1>5 DEF Range
  <2> QED
    BY <2>1, <2>2
<1> HIDE DEF p
<1>7. p \in Seq(Known(request))
  <2>1. p \in [1 .. l -> Known(request)]
    BY <1>4, <1>5, <1>6
  <2> QED
    BY <2>1
<1>8. /\ rest \in Seq(Known(request)) /\ Len(rest) = l - from
      /\ \A n \in 1 .. l - from : rest[n] = p[from + n]
  <2>1. \A n \in from + 1 .. l : p[n] \in Known(request)
    BY <1>6
  <2>2. PICK a \in Int : a = from + 1
    OBVIOUS
  <2>3. /\ SubSeq(p, a, l) \in Seq(Known(request))
        /\ Len(SubSeq(p, a, l)) = IF a <= l THEN l - a + 1 ELSE 0
        /\ \A i \in 1 .. l - a + 1 : SubSeq(p, a, l)[i] = p[a + i - 1]
    BY <2>1, <2>2, SubSeqProperties
  <2>4. a <= l /\ l - a + 1 = l - from /\ \A i \in 1 .. l - from : a + i - 1 = from + i
    BY <1>4, <1>5, <2>2
  <2>5. rest = SubSeq(p, a, l)
    BY <1>3, <1>5, <2>2
  <2> QED
    BY <2>3, <2>4, <2>5
<1> HIDE DEF rest
<1>9. /\ start \in Seq(Free(layer)) /\ Len(start) = l - from
      /\ \A n \in 1 .. l - from : ToOriginal(layer, start[n]) = p[from + n]
  BY <1>8, SetupFits, ToOutputsKnown
<1>10. options.startIds[k] = Head(start) /\ options.prefixes[k] = Tail(start)
         /\ options.forwarded[k] = request.static \o SubSeq(p, 1, ForwardLength(request))
  <2>1. IndexToRun(request) = Run
    BY DEF Run
  <2> QED
    BY <1>1, <2>1 DEF Setup, Arguments, StartTokens, Forwarded, p, rest
<1> HIDE DEF start
<1>11. start # <<>>
  BY <1>4, <1>5, <1>9
<1>12. /\ Head(start) = start[1] /\ Tail(start) \in Seq(Free(layer))
       /\ Len(Tail(start)) = (l - from) - 1
       /\ \A n \in 1 .. (l - from) - 1 : Tail(start)[n] = start[n + 1]
  BY <1>9, <1>11, HeadTailProperties
<1>13. 1 \in 1 .. l - from /\ \A n \in 1 .. (l - from) - 1 : n + 1 \in 1 .. l - from
  BY <1>4, <1>5
<1>14. start[1] \in Free(layer) /\ ToOriginal(layer, start[1]) = p[from + 1]
  BY <1>9, <1>13
<1>15. ASSUME NEW n \in 1 .. (l - from) - 1
       PROVE  ToOriginal(layer, Tail(start)[n]) = p[from + 1 + n]
  <2>1. from + (n + 1) = from + 1 + n
    OBVIOUS
  <2> QED
    BY <1>9, <1>12, <1>13, <2>1
<1>16. p = Given(k)
  BY DEF p, Given
<1> QED
  BY <1>2, <1>3, <1>4, <1>5, <1>7, <1>10, <1>12, <1>14, <1>15, <1>16 DEF PromptIs

(* The sentence of a hypothesis is one that is run.                        *)
LEMMA SentenceIs ==
  ASSUME NEW l \in Nat, NEW n \in Nat \ {0}, NEW h \in 1 .. l * n
  PROVE  SentenceOf(h, n) \in 1 .. l
<1> DEFINE q == (h - 1) \div n
           m == (h - 1) % n
<1>1. l * n \in Nat /\ h \in Nat \ {0} /\ h <= l * n
  <2>1. l * n \in Nat
    OBVIOUS
  <2> QED
    BY <2>1
<1>2. q \in Nat /\ m \in 0 .. n - 1 /\ h - 1 = n * q + m
  <2>1. PICK x \in Nat : x = h - 1
    BY <1>1
  <2>2. x \div n \in Nat /\ x % n \in 0 .. n - 1 /\ x = n * (x \div n) + (x % n)
    OBVIOUS
  <2> QED
    BY <2>1, <2>2
<1> HIDE DEF q, m
<1>3. n * q < l * n
  <2>1. n * q \in Nat
    BY <1>2
  <2> QED
    BY <1>1, <1>2, <2>1
<1>4. q < l
  <2>1. SUFFICES ASSUME l <= q PROVE FALSE
    BY <1>2
  <2>2. l * n <= n * q
    BY <1>2, <2>1
  <2> QED
    BY <1>1, <1>2, <1>3, <2>2
<1> QED
  BY <1>2, <1>4 DEF SentenceOf, q

LEMMA HypothesesAre ==
  ASSUME Setup
  PROVE  /\ Hypotheses = 1 .. Len(Run) * request.numHypotheses
         /\ \A h \in Hypotheses : Sentence(h) \in 1 .. Len(Run)
<1>1. /\ Len(Run) \in Nat /\ request.numHypotheses \in Nat \ {0}
      /\ Len(options.prefixes) = Len(Run) /\ options.numHypotheses = request.numHypotheses
  BY ArgumentsAre
<1>2. Hypotheses = 1 .. Len(Run) * request.numHypotheses
  BY <1>1 DEF Hypotheses
<1>3. ASSUME NEW h \in Hypotheses PROVE Sentence(h) \in 1 .. Len(Run)
  <2>1. PICK l \in Nat : l = Len(Run)
    BY <1>1
  <2>2. PICK n \in Nat \ {0} : n = request.numHypotheses
    BY <1>1
  <2>3. h \in 1 .. l * n
    BY <1>2, <2>1, <2>2
  <2>4. SentenceOf(h, n) \in 1 .. l
    BY <2>3, SentenceIs
  <2> QED
    BY <1>1, <2>1, <2>2, <2>4 DEF Sentence
<1> QED
  BY <1>2, <1>3

-----------------------------------------------------------------------------
(* The abstract search has its own copies of these operators.              *)

LEMMA SameCardinality == \A S : Alone!Cardinality(S) = Cardinality(S)
BY DEF Cardinality, Alone!Cardinality

LEMMA SameAscending == \A S : Alone!Ascending(S) = Ascending(S)
BY SameCardinality DEF Ascending, Alone!Ascending

LEMMA SameRun == \A r : Alone!IndexToRun(r) = IndexToRun(r)
BY SameAscending DEF IndexToRun, Alone!IndexToRun, Sentences, Alone!Sentences

LEMMA SameDigest == \A s, n : Alone!Digest(s, n) = Digest(s, n)
BY DEF Digest, Alone!Digest

LEMMA SameSuffix == \A s, t : Alone!IsSuffix(s, t) = IsSuffix(s, t)
BY DEF Alone!IsSuffix, IsSuffix, Alone!IsPrefix, IsPrefix, Alone!Reverse, Reverse

LEMMA SameVocabulary == Alone!Vocabulary = Known(request)
BY DEF Alone!Vocabulary, Alone!Last, Last, Alone!Range, Range, Alone!Words, Words, Known

-----------------------------------------------------------------------------
(* A position of the batch and the hypothesis that it decodes.             *)

(* What the decoder has seen when the next token is chosen.                *)
Seen(h) == request.static \o <<Head(Given(Sentence(h)))>> \o Whole(h)

PositionInv(i) ==
  LET h == batchOffset[i]
  IN  /\ h \in Hypotheses
      /\ aliveSeq[i] \in Seq(Free(layer)) /\ Len(aliveSeq[i]) = step
      /\ generated[h] = MapBack(layer, aliveSeq[i])
      /\ Fed[i] = [batch |-> Run[Sentence(h)], tokens |-> Seen(h)]

(* The tokens of a hypothesis, those that were forwarded included.         *)
LEMMA WholeIs ==
  ASSUME Setup, DecodesAlone(request), NEW h \in Hypotheses, generated[h] \in Seq(Known(request))
  PROVE  /\ Whole(h) \in Seq(Known(request))
         /\ Len(Whole(h)) = ForwardLength(request) + Len(generated[h])
         /\ ForwardLength(request) = request.promptLength - 1
              => SubSeq(Whole(h), request.promptLength, Len(Whole(h))) = generated[h]
<1> DEFINE p == Given(Sentence(h))
           first == SubSeq(p, 2, ForwardLength(request) + 1)
<1>1. /\ Sentence(h) \in 1 .. Len(Run) /\ ForwardLength(request) \in Nat
      /\ p \in Seq(Known(request)) /\ ForwardLength(request) < Len(p)
  BY HypothesesAre, PromptsAre DEF PromptIs
<1>2. PICK from \in Nat : from = ForwardLength(request)
  BY <1>1
<1> HIDE DEF p
<1>3. first \in Seq(Known(request)) /\ Len(first) = from
  <2>1. PICK e \in Int : e = from + 1
    OBVIOUS
  <2>2. \A i \in 2 .. e : p[i] \in Known(request)
    BY <1>1, <1>2, <2>1
  <2>3. /\ SubSeq(p, 2, e) \in Seq(Known(request))
        /\ Len(SubSeq(p, 2, e)) = IF 2 <= e THEN e - 2 + 1 ELSE 0
    BY <2>2, SubSeqProperties
  <2> QED
    BY <1>2, <2>1, <2>3
<1>4. Whole(h) = first \o generated[h]
  BY DEF Whole, Given, p
<1> HIDE DEF first
<1>5. PICK g \in Seq(Known(request)) : g = generated[h]
  OBVIOUS
<1>6. PICK w \in Seq(Known(request)) :
        /\ w = Whole(h) /\ Len(w) = from + Len(g)
        /\ \A i \in 1 .. from + Len(g) : w[i] = IF i <= from THEN first[i] ELSE g[i - from]
  <2>1. PICK f \in Seq(Known(request)) : f = first /\ Len(f) = from
    BY <1>3
  <2>2. /\ f \o g \in Seq(Known(request)) /\ Len(f \o g) = Len(f) + Len(g)
        /\ \A i \in 1 .. Len(f) + Len(g) : (f \o g)[i] = IF i <= Len(f) THEN f[i] ELSE g[i - Len(f)]
    BY ConcatProperties
  <2>3. Whole(h) = f \o g
    BY <1>4, <1>5, <2>1
  <2> QED
    BY <2>1, <2>2, <2>3
<1>7. PICK n \in Nat : n = Len(g)
  OBVIOUS
<1>8. SubSeq(w, from + 1, from + n) = g
  <2>1. PICK a \in Int : a = from + 1
    OBVIOUS
  <2>2. PICK e \in Int : e = from + n
    OBVIOUS
  <2>3. \A i \in a .. e : w[i] \in Known(request)
    BY <1>6, <1>7, <2>1, <2>2
  <2>4. /\ SubSeq(w, a, e) \in Seq(Known(request))
        /\ Len(SubSeq(w, a, e)) = IF a <= e THEN e - a + 1 ELSE 0
        /\ \A i \in 1 .. e - a + 1 : SubSeq(w, a, e)[i] = w[a + i - 1]
    BY <2>3, SubSeqProperties
  <2>5. Len(SubSeq(w, a, e)) = n /\ e - a + 1 = n
    BY <2>1, <2>2, <2>4
  <2>6. ASSUME NEW i \in 1 .. n PROVE SubSeq(w, a, e)[i] = g[i]
    <3>1. a + i - 1 = from + i /\ from + i - from = i
      BY <2>1
    <3>2. from + i \in 1 .. from + Len(g) /\ ~(from + i <= from)
      BY <1>7
    <3>3. w[from + i] = g[from + i - from]
      BY <1>6, <3>2
    <3>4. SubSeq(w, a, e)[i] = w[a + i - 1]
      BY <2>4, <2>5
    <3> QED
      BY <3>1, <3>3, <3>4
  <2> QED
    BY <1>7, <2>1, <2>2, <2>4, <2>5, <2>6, SeqEqual
<1>9. ASSUME ForwardLength(request) = request.promptLength - 1 PROVE request.promptLength = from + 1
  <2>1. request.promptLength \in Nat
    BY GreedySearchAssumption DEF Setup, IsRequest
  <2> QED
    BY <1>2, <1>9, <2>1
<1> QED
  BY <1>2, <1>5, <1>6, <1>7, <1>8, <1>9

(* What the abstract search reads of a hypothesis.                         *)
LEMMA AloneIs ==
  ASSUME Setup, DecodesAlone(request), NEW h \in Hypotheses
  PROVE  LET p == Given(Sentence(h))
         IN  /\ Alone!Sentence(h) = Run[Sentence(h)] /\ Alone!Prompt(h) = p
             /\ Alone!Forced(h) = Tail(p) /\ Len(Alone!Forced(h)) = Len(p) - 1
             /\ \A n \in 1 .. Len(p) - 1 : Alone!Forced(h)[n] = p[n + 1]
             /\ Alone!Hypotheses = Hypotheses
             /\ Alone!History(h) = SubSeq(Whole(h), request.promptLength, Len(Whole(h)))
<1>1. Alone!Sentence(h) = Run[Sentence(h)]
  BY SameRun, ArgumentsAre DEF Alone!Sentence, Alone!SentenceOf, Sentence, SentenceOf, Run
<1>2. Alone!Prompt(h) = Given(Sentence(h))
  BY <1>1 DEF Alone!Prompt, Given
<1>3. Alone!Forced(h) = Tail(Given(Sentence(h)))
  BY <1>2 DEF Alone!Forced
<1>4. Given(Sentence(h)) \in Seq(Known(request)) /\ Given(Sentence(h)) # <<>>
  <2>1. /\ Given(Sentence(h)) \in Seq(Known(request)) /\ ForwardLength(request) \in Nat
        /\ ForwardLength(request) < Len(Given(Sentence(h)))
    BY HypothesesAre, PromptsAre DEF PromptIs
  <2> QED
    BY <2>1
<1>5. Alone!Hypotheses = Hypotheses
  BY DEF Alone!Hypotheses
<1>6. Alone!History(h) = SubSeq(Whole(h), request.promptLength, Len(Whole(h)))
  BY DEF Alone!History
<1>7. Len(Tail(Given(Sentence(h)))) = Len(Given(Sentence(h))) - 1
        /\ \A n \in 1 .. Len(Tail(Given(Sentence(h)))) :
             Tail(Given(Sentence(h)))[n] = Given(Sentence(h))[n + 1]
  BY <1>4, HeadTailProperties
<1> QED
  BY <1>1, <1>2, <1>3, <1>5, <1>6, <1>7

(* The lengths of a position count the tokens that the request counts.     *)
LEMMA CountIs ==
  ASSUME Setup, DecodesAlone(request), NEW i \in Positions, batchOffset[i] \in Hypotheses
  PROVE  /\ PrefixLength(i) \in Nat /\ ForwardLength(request) \in Nat
         /\ ForwardLength(request) + PrefixLength(i) = Len(Alone!Forced(batchOffset[i]))
         /\ Alone!Uncounted(batchOffset[i])
              = ForwardLength(request) + (IF options.returnPrefix THEN 0 ELSE PrefixLength(i))
<1>1. PICK h \in Hypotheses : h = batchOffset[i]
  OBVIOUS
<1>2. PICK k \in 1 .. Len(Run) : k = Sentence(h)
  BY HypothesesAre
<1>3. PICK from \in Nat : from = ForwardLength(request)
  BY PromptsAre
<1>4. PromptIs(k)
  BY PromptsAre
<1>5. PICK l \in Nat : l = Len(Given(k))
  BY <1>4 DEF PromptIs
<1>6. from < l /\ PrefixLength(i) = l - from - 1
  BY <1>1, <1>2, <1>3, <1>4, <1>5 DEF PromptIs, PrefixLength, Prefix
<1>7. Len(Alone!Forced(h)) = l - 1
  BY <1>2, <1>5, AloneIs
<1>8. Alone!Uncounted(h) = from + (IF options.returnPrefix THEN 0 ELSE l - from - 1)
  <2>1. /\ request.kind \in {"translate", "generate", "transcribe"}
        /\ request.promptLength \in Nat
    BY GreedySearchAssumption DEF Setup, IsRequest
  <2>2. options.returnPrefix = (request.kind # "generate" \/ from = 0)
    BY <1>3, ArgumentsAre DEF ReturnPrefix
  <2> DEFINE extra == IF options.returnPrefix THEN 0 ELSE l - from - 1
  <2>a. /\ request.kind # "generate" \/ from = 0 => extra = 0
        /\ request.kind = "generate" /\ from # 0 => extra = l - from - 1
    BY <2>2, Zenon
  <2> HIDE DEF extra
  <2>3. CASE request.kind = "translate"
    <3>1. from = 0 /\ Alone!Uncounted(h) = 0
      BY <1>3, <2>3 DEF Alone!Uncounted, ForwardLength
    <3> QED
      BY <2>a, <2>3, <3>1 DEF extra
  <2>4. CASE request.kind = "transcribe"
    <3>1. from = request.promptLength - 1 /\ Alone!Uncounted(h) = request.promptLength - 1
      BY <1>3, <2>4 DEF Alone!Uncounted, ForwardLength
    <3> QED
      BY <2>1, <2>a, <2>4, <3>1 DEF extra
  <2>5. CASE request.kind = "generate" /\ request.includePrompt
    <3>1. from = 0 /\ Alone!Uncounted(h) = 0
      BY <1>3, <2>5 DEF Alone!Uncounted, ForwardLength
    <3> QED
      BY <2>a, <2>5, <3>1 DEF extra
  <2>6. CASE request.kind = "generate" /\ ~request.includePrompt
    <3>1. Alone!Uncounted(h) = l - 1
      BY <1>7, <2>6 DEF Alone!Uncounted
    <3>2. CASE from = 0
      <4>1. \A b \in Sentences(request) : Len(request.prompts[b]) = 1
        BY <1>3, <2>6, <3>2 DEF DecodesAlone, RulesSeeTheText
      <4>2. l = 1
        BY <1>4, <1>5, <4>1 DEF PromptIs, Given
      <4> QED
        BY <2>a, <3>1, <3>2, <4>2 DEF extra
    <3>3. CASE from # 0
      <4>1. extra = l - from - 1
        BY <2>a, <2>6, <3>3
      <4> QED
        BY <1>6, <3>1, <4>1 DEF extra
    <3> QED
      BY <3>2, <3>3
  <2> QED
    BY <2>1, <2>3, <2>4, <2>5, <2>6
<1> QED
  BY <1>1, <1>3, <1>6, <1>7, <1>8

(* A position ends where its hypothesis does.                              *)
LEMMA EndsAre ==
  ASSUME Setup, DecodesAlone(request), NEW i \in Positions, PositionInv(i), step \in Nat,
         NEW o \in Free(layer)
  PROVE  IsFinished(i, o) <=> Alone!Ended(batchOffset[i], ToOriginal(layer, o))
<1> DEFINE h == batchOffset[i]
<1>1. h \in Hypotheses /\ generated[h] \in Seq(Known(request)) /\ Len(generated[h]) = step
  BY SetupFits, TextIs DEF PositionInv
<1>2. Len(Whole(h)) = ForwardLength(request) + step
  BY <1>1, WholeIs
<1>3. /\ PrefixLength(i) \in Nat /\ ForwardLength(request) \in Nat
      /\ ForwardLength(request) + PrefixLength(i) = Len(Alone!Forced(h))
      /\ Alone!Uncounted(h)
           = ForwardLength(request) + (IF options.returnPrefix THEN 0 ELSE PrefixLength(i))
  BY <1>1, CountIs
<1>4. request.maxLength \in Nat /\ request.endIds \in SUBSET Words
  BY GreedySearchAssumption DEF Setup, IsRequest
<1>5. IsEos(o) <=> ToOriginal(layer, o) \in request.endIds
  BY <1>4, SetupFits, ToOutputSetIs, ArgumentsAre DEF IsEos
<1>6. step >= PrefixLength(i) <=> Len(Whole(h)) >= Len(Alone!Forced(h))
  BY <1>2, <1>3
<1>7. IsLastStep(i) <=> Len(Whole(h)) + 1 = request.maxLength + Alone!Uncounted(h)
  <2> DEFINE extra == IF options.returnPrefix THEN 0 ELSE PrefixLength(i)
  <2>1. extra \in Nat /\ Alone!Uncounted(h) = ForwardLength(request) + extra
    BY <1>3
  <2>2. IsLastStep(i) <=> step + 1 = request.maxLength + extra
    BY ArgumentsAre DEF IsLastStep, LastStep
  <2>3. PICK from \in Nat : from = ForwardLength(request)
    BY <1>3
  <2>4. PICK max \in Nat : max = request.maxLength
    BY <1>4
  <2>5. PICK more \in Nat : more = extra
    BY <2>1
  <2>6. step + 1 = max + more <=> from + step + 1 = max + (from + more)
    BY <2>3, <2>4, <2>5
  <2> HIDE DEF extra, h
  <2> QED
    BY <1>2, <2>1, <2>2, <2>3, <2>4, <2>5, <2>6
<1>8. Alone!Ended(h, ToOriginal(layer, o)) <=>
        \/ ToOriginal(layer, o) \in request.endIds /\ Len(Whole(h)) >= Len(Alone!Forced(h))
        \/ Len(Whole(h)) + 1 = request.maxLength + Alone!Uncounted(h)
  BY <1>1 DEF Alone!Ended
<1> QED
  BY <1>5, <1>6, <1>7, <1>8 DEF IsFinished

(* The tokens that are disabled are those that the request forbids.        *)
LEMMA RulesAre ==
  ASSUME Setup, DecodesAlone(request), NEW i \in Positions, PositionInv(i), step \in Nat,
         NEW o \in Free(layer)
  PROVE  o \in Disabled(i) <=> Alone!Forbidden(batchOffset[i], ToOriginal(layer, o))
<1> DEFINE h == batchOffset[i]
           t == ToOriginal(layer, o)
           n == request.noRepeat
           text == Append(Alone!History(h), t)
           Repeated == n > 0 /\ EndsRepeated(text, n)
           Suppressed == EndsBanned(text, request.suppress)
           Early == t \in request.endIds
                      /\ Len(Whole(h)) < Alone!Uncounted(h) + request.minLength
           First == t \in request.disableBegin /\ Len(Whole(h)) = Len(Alone!Forced(h))
<1>1. h \in Hypotheses /\ generated[h] \in Seq(Known(request)) /\ Len(generated[h]) = step
        /\ generated[h] = MapBack(layer, aliveSeq[i]) /\ aliveSeq[i] \in Seq(Free(layer))
  BY SetupFits, TextIs DEF PositionInv
<1>2. Len(Whole(h)) = ForwardLength(request) + step
  BY <1>1, WholeIs
<1>3. /\ PrefixLength(i) \in Nat /\ ForwardLength(request) \in Nat
      /\ ForwardLength(request) + PrefixLength(i) = Len(Alone!Forced(h))
      /\ Alone!Uncounted(h)
           = ForwardLength(request) + (IF options.returnPrefix THEN 0 ELSE PrefixLength(i))
  BY <1>1, CountIs
<1>4. /\ request.minLength \in Nat /\ n \in Nat /\ request.endIds \in SUBSET Words
      /\ request.disableIds \in SUBSET Words /\ request.disableBegin \in SUBSET Words
      /\ request.suppress \in SUBSET Seq(Words)
  BY GreedySearchAssumption DEF Setup, IsRequest
<1>5. \A ids \in SUBSET Words : o \in ToOutputSet(layer, ids) <=> t \in ids
  BY SetupFits, ToOutputSetIs
<1>6. (EndsDisabled(i) /\ o \in options.endIds) <=> Early
  <2>1. PICK from \in Nat : from = ForwardLength(request)
    BY <1>3
  <2>2. PICK min \in Nat : min = request.minLength
    BY <1>4
  <2>3. PICK more \in Nat : more = PrefixLength(i)
    BY <1>3
  <2>4. EndsDisabled(i) <=> Len(Whole(h)) < Alone!Uncounted(h) + request.minLength
    <3>1. CASE options.returnPrefix
      <4>1. EndsDisabled(i) <=> step < min
        BY <2>2, <3>1, ArgumentsAre DEF EndsDisabled
      <4>2. Alone!Uncounted(h) = from
        BY <1>3, <2>1, <3>1
      <4> HIDE DEF h
      <4> QED
        BY <1>2, <2>1, <2>2, <4>1, <4>2
    <3>2. CASE ~options.returnPrefix
      <4>1. EndsDisabled(i) <=> step < more + min
        BY <2>2, <2>3, <3>2, ArgumentsAre DEF EndsDisabled
      <4>2. Alone!Uncounted(h) = from + more
        BY <1>3, <2>1, <2>3, <3>2
      <4> HIDE DEF h
      <4> QED
        BY <1>2, <2>1, <2>2, <4>1, <4>2
    <3> QED
      BY <3>1, <3>2
  <2>5. o \in options.endIds <=> t \in request.endIds
    BY <1>4, <1>5, ArgumentsAre
  <2> QED
    BY <2>4, <2>5
<1>7. o \in options.disableIds <=> t \in request.disableIds
  BY <1>4, <1>5, ArgumentsAre
<1>8. (step = PrefixLength(i) /\ o \in options.disableBegin) <=> First
  <2>1. o \in options.disableBegin <=> t \in request.disableBegin
    BY <1>4, <1>5, ArgumentsAre
  <2>2. step = PrefixLength(i) <=> Len(Whole(h)) = Len(Alone!Forced(h))
    <3> HIDE DEF h
    <3> QED
      BY <1>2, <1>3
  <2> QED
    BY <2>1, <2>2
<1>9. n # 0 \/ request.suppress # {} => text = Append(MapBack(layer, aliveSeq[i]), t)
  <2> SUFFICES ASSUME n # 0 \/ request.suppress # {}
               PROVE  text = Append(MapBack(layer, aliveSeq[i]), t)
    OBVIOUS
  <2>1. ForwardLength(request) = request.promptLength - 1
    BY DEF DecodesAlone, RulesSeeTheText
  <2>2. Alone!History(h) = generated[h]
    BY <1>1, <2>1, AloneIs, WholeIs
  <2> QED
    BY <1>1, <2>2
<1>10. o \in NgramFinalTokens(aliveSeq[i], options.noRepeat) <=> Repeated
  <2>1. options.noRepeat = n
    BY ArgumentsAre
  <2>2. CASE n = 0
    BY <2>1, <2>2 DEF NgramFinalTokens
  <2>3. CASE n # 0
    <3>1. n \in Nat \ {0} /\ n > 0
      BY <1>4, <2>3
    <3>2. text = Append(MapBack(layer, aliveSeq[i]), t)
      BY <1>9, <2>3
    <3> HIDE DEF text, n
    <3>3. o \in NgramFinalTokens(aliveSeq[i], n)
            <=> EndsRepeated(text, n)
      BY <1>1, <3>1, <3>2, SetupFits, NgramIs
    <3> QED
      BY <2>1, <3>1, <3>3
  <2> QED
    BY <2>2, <2>3
<1>11. o \in BannedTokens(aliveSeq[i], options.disableSequences) <=> Suppressed
  <2>1. options.disableSequences = {ToOutputs(layer, s) : s \in request.suppress}
    BY ArgumentsAre
  <2>2. CASE request.suppress = {}
    <3>1. options.disableSequences = {}
      BY <2>1, <2>2
    <3> QED
      BY <2>2, <3>1 DEF BannedTokens, EndsBanned
  <2>3. CASE request.suppress # {}
    <3>1. text = Append(MapBack(layer, aliveSeq[i]), t)
      BY <1>9, <2>3
    <3>2. request.suppress \in SUBSET Seq(Known(request))
      <4>1. ASSUME NEW s \in request.suppress PROVE s \in Seq(Known(request))
        <5>1. Range(s) \subseteq Known(request)
          BY DEF DecodesAlone, PromptsAreKnown, Known
        <5>2. s \in Seq(Words)
          BY <1>4
        <5>3. PICK l \in Nat : l = Len(s)
          BY <5>2
        <5>4. \A m \in 1 .. l : s[m] \in Known(request)
          BY <5>1, <5>2, <5>3 DEF Range
        <5>5. s \in [1 .. l -> Known(request)]
          BY <5>2, <5>3, <5>4
        <5> QED
          BY <5>5
      <4> QED
        BY <4>1
    <3> HIDE DEF text
    <3>3. o \in BannedTokens(aliveSeq[i], {ToOutputs(layer, x) : x \in request.suppress})
            <=> EndsBanned(text, request.suppress)
      BY <1>1, <3>1, <3>2, SetupFits, BannedIs
    <3> QED
      BY <2>1, <3>3
  <2> QED
    BY <2>2, <2>3
<1>12. Alone!Forbidden(h, t) <=>
         Early \/ t \in request.disableIds \/ First \/ Suppressed \/ Repeated
  <2>1. \A x, y : Alone!IsSuffix(x, y) <=> IsSuffix(x, y)
    BY SameSuffix
  <2>2. [g \in Hypotheses |-> Whole(g)][h] = Whole(h)
    BY <1>1
  <2> QED
    BY <2>1, <2>2 DEF Alone!Forbidden, EndsBanned, EndsRepeated
<1>13. o \in Disabled(i) <=>
         \/ EndsDisabled(i) /\ o \in options.endIds
         \/ o \in options.disableIds
         \/ step = PrefixLength(i) /\ o \in options.disableBegin
         \/ o \in NgramFinalTokens(aliveSeq[i], options.noRepeat)
         \/ o \in BannedTokens(aliveSeq[i], options.disableSequences)
  BY DEF Disabled
<1> HIDE DEF Early, First, Repeated, Suppressed
<1>14. o \in Disabled(i) <=> Alone!Forbidden(h, t)
  BY <1>6, <1>7, <1>8, <1>10, <1>11, <1>12, <1>13
<1> QED
  BY <1>14

-----------------------------------------------------------------------------
(* The tokens that a position may be given.                                *)

(* Penalties lower a score.                                                *)
LEMMA LowerScores ==
  ASSUME NEW a \in Int, a < 0, NEW r \in Nat \ {0}
  PROVE  a * r \in Int /\ a * r <= a /\ r * a = a * r /\ a * 1 = a
<1>1. PICK q \in Nat : r = q + 1
  <2>1. r - 1 \in Nat /\ r = (r - 1) + 1
    OBVIOUS
  <2> QED
    BY <2>1
<1>2. a * q \in Int /\ a * q <= 0
  OBVIOUS
<1>3. a * r = a * q + a
  BY <1>1
<1> QED
  BY <1>2, <1>3

(* The log probability of a word, as the abstract search has it.           *)
LogProbOf(h, w) == model[Run[Sentence(h)]][Digest(Seen(h), VocabularySize)][w]

Chance(h, w) ==
  IF w \in Range(Alone!History(h)) THEN request.repetition * LogProbOf(h, w) ELSE LogProbOf(h, w)

LEMMA BestIs ==
  ASSUME Setup, DecodesAlone(request), NEW h \in Hypotheses
  PROVE  Alone!Best(h) =
           {t \in Alone!Allowed(h) :
              Cardinality({u \in Alone!Allowed(h) : Chance(h, u) > Chance(h, t)}) < request.topk}
<1>1. Alone!Prompt(h) = Given(Sentence(h)) /\ Alone!Sentence(h) = Run[Sentence(h)]
  BY AloneIs
<1>2. [g \in Hypotheses |-> Whole(g)][h] = Whole(h)
  OBVIOUS
<1>3. \A w : Chance(h, w) =
        LET seen == request.static \o <<Head(Alone!Prompt(h))>> \o [g \in Hypotheses |-> Whole(g)][h]
            LogProb(t) == model[Alone!Sentence(h)][Alone!Digest(seen, VocabularySize)][t]
        IN  IF w \in Alone!Range(Alone!History(h)) THEN request.repetition * LogProb(w) ELSE LogProb(w)
  BY <1>1, <1>2, SameDigest DEF Chance, LogProbOf, Seen, Range, Alone!Range
<1> QED
  BY <1>3, SameCardinality DEF Alone!Best

(* What the decoder knows of a word is a log probability.                  *)
LEMMA LogProbIs ==
  ASSUME Setup, DecodesAlone(request), NEW h \in Hypotheses, generated[h] \in Seq(Known(request)),
         NEW w \in Words
  PROVE  /\ LogProbOf(h, w) \in Int /\ LogProbOf(h, w) < 0
         /\ LogProbOf(h, w) * request.repetition > Penalised
         /\ request.repetition \in Nat \ {0}
<1> DEFINE p == Given(Sentence(h))
<1>1. /\ Sentence(h) \in 1 .. Len(Run) /\ ForwardLength(request) \in Nat
      /\ p \in Seq(Known(request)) /\ ForwardLength(request) < Len(p)
      /\ Run[Sentence(h)] \in Sentences(request)
  BY HypothesesAre, PromptsAre DEF PromptIs
<1>2. Known(request) \subseteq Int
  <2>1. Known(request) \subseteq Words
    BY SetupFits DEF Fits
  <2> QED
    BY <2>1 DEF Words
<1>3. Head(p) \in Int
  <2> HIDE DEF p
  <2>1. p # <<>>
    BY <1>1
  <2>2. Head(p) \in Known(request)
    BY <1>1, <2>1, HeadTailProperties
  <2> QED
    BY <1>2, <2>2
<1>4. request.static \in Seq(Int)
  <2>1. request.static \in Seq(Words) /\ Words \subseteq Int
    BY GreedySearchAssumption DEF Setup, IsRequest, Words
  <2> QED
    BY <2>1, SeqMonotonic
<1>5. Whole(h) \in Seq(Int)
  BY <1>2, WholeIs, SeqMonotonic
<1>6. Seen(h) \in Seq(Int)
  <2>1. PICK x \in Int : x = Head(p)
    BY <1>3
  <2>2. PICK a \in Seq(Int) : a = request.static
    BY <1>4
  <2>3. PICK c \in Seq(Int) : c = Whole(h)
    BY <1>5
  <2>4. a \o <<x>> \o c \in Seq(Int)
    OBVIOUS
  <2> QED
    BY <2>1, <2>2, <2>3, <2>4 DEF Seen
<1>7. PICK d \in Words : d = Digest(Seen(h), VocabularySize)
  BY <1>6, DigestIsWord
<1>8. request.repetition \in Nat \ {0}
  BY GreedySearchAssumption DEF Setup, IsRequest
<1>9. LogProbOf(h, w) = model[Run[Sentence(h)]][d][w]
  BY <1>7 DEF LogProbOf
<1> QED
  BY <1>1, <1>8, <1>9, GreedySearchAssumption DEF Setup

(* An output that is neither masked nor disabled has the score of its word,*)
(* and the others have none.                                               *)
LEMMA ScoresAre ==
  ASSUME Setup, DecodesAlone(request), NEW i \in Positions, PositionInv(i), step \in Nat,
         NEW o \in Outputs(layer)
  PROVE  LET open_ == o \in Free(layer) /\ ~Alone!Forbidden(batchOffset[i], ToOriginal(layer, o))
         IN  /\ Score(i, o) \in Int
             /\ Score(i, o) > Penalised <=> open_
             /\ open_ => Score(i, o) = Chance(batchOffset[i], ToOriginal(layer, o))
<1> DEFINE h == batchOffset[i]
           w == ToOriginal(layer, o)
           r == request.repetition
           a == LogProbOf(h, w)
           biased == Biased(layer, o, a)
<1>1. h \in Hypotheses /\ generated[h] \in Seq(Known(request)) /\ Len(generated[h]) = step
        /\ generated[h] = MapBack(layer, aliveSeq[i]) /\ aliveSeq[i] \in Seq(Free(layer))
  <2>1. h \in Hypotheses /\ generated[h] = MapBack(layer, aliveSeq[i])
          /\ aliveSeq[i] \in Seq(Free(layer)) /\ Len(aliveSeq[i]) = step
    BY DEF PositionInv
  <2>2. \E u : u \in Free(layer)
    <3>1. Known(request) # {}
      <4>1. PromptIs(Sentence(h)) /\ ForwardLength(request) \in Nat
        BY <2>1, HypothesesAre, PromptsAre
      <4>2. Given(Sentence(h)) \in Seq(Known(request)) /\ Len(Given(Sentence(h))) \in Nat \ {0}
        BY <4>1 DEF PromptIs
      <4>3. Given(Sentence(h))[1] \in Known(request)
        BY <4>2
      <4> QED
        BY <4>3
    <3> QED
      BY <3>1, SetupFits DEF Fits
  <2>3. MapBack(layer, aliveSeq[i]) \in Seq(Known(request))
    BY <2>1, <2>2, SetupFits, TextIs
  <2>4. Len(MapBack(layer, aliveSeq[i])) = step
    BY <2>1 DEF MapBack
  <2> QED
    BY <2>1, <2>3, <2>4
<1>2. w \in Words
  BY SetupFits DEF Fits
<1>3. a \in Int /\ a < 0 /\ a * r > Penalised /\ r \in Nat \ {0}
  BY <1>1, <1>2, LogProbIs
<1>4. Score(i, o) = IF o \in Disabled(i) THEN Lowest
                    ELSE PenalizeRepeated(biased, o, aliveSeq[i], r)
  <2>1. Fed[i].batch = Run[Sentence(h)] /\ Fed[i].tokens = Seen(h)
    BY DEF PositionInv
  <2>2. options.repetition = r
    BY ArgumentsAre
  <2> QED
    BY <2>1, <2>2 DEF Score, LogProbOf
<1>5. Penalised = -100000 /\ Lowest = -1000000
  BY DEF Penalised, Lowest
<1>6. Penalised \in Int /\ Penalised < 0 /\ Lowest \in Int /\ Lowest < Penalised
  BY <1>5
<1> HIDE DEF a, w, r
<1>7. /\ a * r \in Int /\ a * r <= a /\ r * a = a * r /\ a * 1 = a
      /\ Penalised * r \in Int /\ Penalised * r <= Penalised
  BY <1>3, <1>6, LowerScores
<1>8. a > Penalised
  BY <1>3, <1>6, <1>7
<1>9. CASE o \in Disabled(i)
  <2>1. Score(i, o) = Lowest
    BY <1>4, <1>9
  <2>2. ~(Score(i, o) > Penalised)
    BY <1>6, <2>1
  <2>3. o \in Free(layer) => Alone!Forbidden(h, ToOriginal(layer, o))
    BY <1>9, RulesAre
  <2> QED
    BY <1>6, <2>1, <2>2, <2>3
<1>10. CASE o \notin Disabled(i) /\ o \in layer.masked
  <2>1. biased = Penalised
    BY <1>10 DEF Biased
  <2>2. Score(i, o) = Penalised * r \/ Score(i, o) = Penalised
    BY <1>4, <1>10, <2>1 DEF PenalizeRepeated
  <2>3. Score(i, o) \in Int /\ ~(Score(i, o) > Penalised)
    BY <1>6, <1>7, <2>2
  <2>4. o \notin Free(layer)
    BY <1>10 DEF Free
  <2> QED
    BY <2>3, <2>4
<1>11. CASE o \notin Disabled(i) /\ o \notin layer.masked
  <2>1. biased = a
    BY <1>11 DEF Biased
  <2>2. o \in Free(layer)
    BY <1>11 DEF Free
  <2>3. ~Alone!Forbidden(h, ToOriginal(layer, o))
    BY <1>11, <2>2, RulesAre
  <2>4. Score(i, o) = IF o \in Range(aliveSeq[i]) THEN a * r ELSE a
    BY <1>4, <1>11, <2>1 DEF PenalizeRepeated
  <2>5. Score(i, o) \in Int /\ Score(i, o) > Penalised
    BY <1>3, <1>7, <1>8, <2>4
  <2>6. Score(i, o) = Chance(h, w)
    <3>1. CASE r = 1
      <4>1. Score(i, o) = a
        BY <1>7, <2>4, <3>1
      <4>2. Chance(h, w) = a
        BY <1>7, <3>1 DEF Chance, a, r
      <4> QED
        BY <4>1, <4>2
    <3>2. CASE r # 1
      <4>1. ForwardLength(request) = request.promptLength - 1
        BY <3>2 DEF DecodesAlone, RulesSeeTheText, r
      <4>2. Alone!History(h) = MapBack(layer, aliveSeq[i])
        BY <1>1, <4>1, AloneIs, WholeIs
      <4>3. o \in Range(aliveSeq[i]) <=> w \in Range(Alone!History(h))
        <5>1. PICK s \in Seq(Free(layer)) : s = aliveSeq[i]
          BY <1>1
        <5>2. DOMAIN s = 1 .. Len(s) /\ \A n \in 1 .. Len(s) : s[n] \in Free(layer)
          OBVIOUS
        <5>3. \A n \in 1 .. Len(s) : s[n] = o <=> ToOriginal(layer, s[n]) = w
          BY <2>2, <5>2, SetupFits DEF Fits, w
        <5>4. o \in Range(s) <=> \E n \in 1 .. Len(s) : s[n] = o
          BY <5>2 DEF Range
        <5>5. w \in Range(MapBack(layer, s)) <=> \E n \in 1 .. Len(s) : ToOriginal(layer, s[n]) = w
          BY DEF Range, MapBack
        <5> QED
          BY <4>2, <5>1, <5>3, <5>4, <5>5
      <4>4. Chance(h, w) = IF o \in Range(aliveSeq[i]) THEN a * r ELSE a
        <5>1. Chance(h, w) = IF w \in Range(Alone!History(h)) THEN r * a ELSE a
          BY DEF Chance, a, r
        <5> QED
          BY <1>7, <4>3, <5>1
      <4> QED
        BY <2>4, <4>4
    <3> QED
      BY <3>1, <3>2
  <2> QED
    BY <2>2, <2>3, <2>5, <2>6 DEF w
<1> QED
  BY <1>9, <1>10, <1>11

(* As many words are better than the one of an output as outputs are.      *)
LEMMA SampledAre ==
  ASSUME Setup, DecodesAlone(request), NEW i \in Positions, PositionInv(i), step \in Nat,
         NEW o \in Sampled(i)
  PROVE  o \in Free(layer) /\ ToOriginal(layer, o) \in Alone!Best(batchOffset[i])
<1> DEFINE h == batchOffset[i]
           t == ToOriginal(layer, o)
           U == {u \in Outputs(layer) : Score(i, u) > Score(i, o)}
           V == {w \in Alone!Allowed(h) : Chance(h, w) > Chance(h, t)}
           f == [u \in U |-> ToOriginal(layer, u)]
<1>1. h \in Hypotheses
  BY DEF PositionInv
<1>2. o \in Outputs(layer) /\ Score(i, o) > Penalised /\ Cardinality(U) < request.topk
  BY ArgumentsAre DEF Sampled
<1>3. \A u \in Outputs(layer) :
        /\ Score(i, u) \in Int
        /\ Score(i, u) > Penalised <=> u \in Free(layer) /\ ~Alone!Forbidden(h, ToOriginal(layer, u))
        /\ u \in Free(layer) /\ ~Alone!Forbidden(h, ToOriginal(layer, u))
             => Score(i, u) = Chance(h, ToOriginal(layer, u))
  BY ScoresAre
<1> HIDE DEF h
<1>4. \A w : w \in Alone!Allowed(h) <=> w \in Known(request) /\ ~Alone!Forbidden(h, w)
  BY SameVocabulary DEF Alone!Allowed
<1>5. Fits(layer, Known(request))
  BY SetupFits
<1>6. /\ \A u \in Free(layer) : u \in Outputs(layer) /\ ToOriginal(layer, u) \in Known(request)
      /\ \A w \in Known(request) : \E u \in Free(layer) : ToOriginal(layer, u) = w
      /\ IsFiniteSet(Outputs(layer))
  BY <1>5 DEF Fits, Free
<1>7. o \in Free(layer) /\ t \in Alone!Allowed(h) /\ Score(i, o) = Chance(h, t)
  BY <1>2, <1>3, <1>4, <1>6
<1>8. Penalised \in Int /\ Score(i, o) \in Int
  BY <1>2, <1>3 DEF Penalised
<1>9. ASSUME NEW u \in U PROVE ToOriginal(layer, u) \in V
  <2>1. u \in Outputs(layer) /\ Score(i, u) \in Int /\ Score(i, u) > Score(i, o)
    BY <1>3
  <2>2. Score(i, u) > Penalised
    BY <1>2, <1>8, <2>1
  <2> QED
    BY <1>3, <1>4, <1>6, <1>7, <2>1, <2>2
<1>10. ASSUME NEW w \in V PROVE \E u \in U : f[u] = w
  <2>1. w \in Known(request) /\ ~Alone!Forbidden(h, w) /\ Chance(h, w) > Chance(h, t)
    BY <1>4
  <2>2. PICK u \in Free(layer) : ToOriginal(layer, u) = w
    BY <1>6, <2>1
  <2>3. u \in Outputs(layer) /\ Score(i, u) = Chance(h, w)
    BY <1>3, <1>6, <2>1, <2>2
  <2>4. u \in U
    BY <1>7, <2>1, <2>3
  <2> QED
    BY <2>2, <2>4
<1>11. f \in Surjection(U, V)
  <2>1. f \in [U -> V]
    BY <1>9
  <2> HIDE DEF f, U, V
  <2> QED
    BY <1>10, <2>1 DEF Surjection
<1>12. IsFiniteSet(U)
  <2>1. U \in SUBSET Outputs(layer)
    OBVIOUS
  <2> HIDE DEF U
  <2> QED
    BY <1>6, <2>1, FS_Subset
<1>13. Cardinality(V) < request.topk
  <2> HIDE DEF f, U, V
  <2>1. IsFiniteSet(V) /\ Cardinality(V) <= Cardinality(U)
    BY <1>11, <1>12, FS_Surjection
  <2>2. Cardinality(V) \in Nat /\ Cardinality(U) \in Nat
    BY <1>12, <2>1, FS_CardinalityType
  <2>3. request.topk \in Nat
    BY GreedySearchAssumption DEF Setup, IsRequest
  <2> QED
    BY <1>2, <2>1, <2>2, <2>3 DEF U
<1>14. t \in Alone!Best(h)
  BY <1>1, <1>7, <1>13, BestIs
<1> QED
  BY <1>7, <1>14 DEF h

(* A position is given a token that its hypothesis could get alone.        *)
LEMMA ChoicesAre ==
  ASSUME Setup, DecodesAlone(request), NEW i \in Positions, PositionInv(i), step \in Nat,
         NEW o \in WordChoices(i)
  PROVE  o \in Free(layer) /\ ToOriginal(layer, o) \in Alone!NextTokens(batchOffset[i])
<1>1. PICK h \in Hypotheses : h = batchOffset[i]
  BY DEF PositionInv
<1>2. generated[h] = MapBack(layer, aliveSeq[i]) /\ aliveSeq[i] \in Seq(Free(layer))
        /\ Len(aliveSeq[i]) = step
  BY <1>1 DEF PositionInv
<1>3. PICK from \in Nat : from = ForwardLength(request)
  BY <1>1, CountIs
<1>4. PICK more \in Nat : more = PrefixLength(i)
  BY <1>1, CountIs
<1>5. Len(Alone!Forced(h)) = from + more
  BY <1>1, <1>3, <1>4, CountIs
<1>6. PICK k \in 1 .. Len(Run) : k = Sentence(h)
  BY HypothesesAre
<1>7. PromptIs(k)
  BY PromptsAre
<1>8. ASSUME NEW u \in Free(layer) PROVE Len(Whole(h)) = from + step
  BY <1>2, <1>3, SetupFits, TextIs, WholeIs
<1>9. Alone!NextTokens(h) = IF Len(Whole(h)) < Len(Alone!Forced(h))
                            THEN {Alone!Forced(h)[Len(Whole(h)) + 1]} ELSE Alone!Best(h)
  BY DEF Alone!NextTokens
<1>10. CASE step < more
  <2>1. o = options.prefixes[k][step + 1]
    BY <1>1, <1>4, <1>6, <1>10 DEF WordChoices, Prefix
  <2>2. Len(options.prefixes[k]) = more
    BY <1>1, <1>4, <1>6 DEF PrefixLength, Prefix
  <2>3. step + 1 \in 1 .. more
    BY <1>10
  <2>4. o \in Free(layer) /\ ToOriginal(layer, o) = Given(k)[from + 1 + (step + 1)]
    <3>1. /\ options.prefixes[k] \in Seq(Free(layer))
          /\ \A n \in 1 .. Len(options.prefixes[k]) :
               ToOriginal(layer, options.prefixes[k][n]) = Given(k)[ForwardLength(request) + 1 + n]
      BY <1>7 DEF PromptIs
    <3>2. PICK n \in 1 .. more : n = step + 1
      BY <2>3
    <3>3. options.prefixes[k][n] \in Free(layer)
            /\ ToOriginal(layer, options.prefixes[k][n]) = Given(k)[from + 1 + n]
      BY <1>3, <2>2, <3>1
    <3> QED
      BY <2>1, <3>2, <3>3
  <2>5. Len(Whole(h)) = from + step
    BY <1>8, <2>4
  <2>6. \A n \in 1 .. Len(Given(k)) - 1 : Alone!Forced(h)[n] = Given(k)[n + 1]
    BY <1>6, AloneIs
  <2>7. Len(Alone!Forced(h)) = Len(Given(k)) - 1
    BY <1>6, AloneIs
  <2>8. from + step + 1 \in 1 .. Len(Given(k)) - 1 /\ (from + step + 1) + 1 = from + 1 + (step + 1)
    BY <1>5, <1>10, <2>7
  <2>9. Alone!Forced(h)[from + step + 1] = ToOriginal(layer, o)
    BY <2>4, <2>6, <2>8
  <2>10. Len(Whole(h)) < Len(Alone!Forced(h))
    BY <1>5, <1>10, <2>5
  <2> QED
    BY <1>1, <1>9, <2>4, <2>5, <2>9, <2>10
<1>11. CASE ~(step < more)
  <2>1. o \in Sampled(i)
    BY <1>4, <1>11 DEF WordChoices
  <2>2. o \in Free(layer) /\ ToOriginal(layer, o) \in Alone!Best(h)
    BY <1>1, <2>1, SampledAre
  <2>3. Len(Whole(h)) = from + step
    BY <1>8, <2>2
  <2>4. ~(Len(Whole(h)) < Len(Alone!Forced(h)))
    BY <1>5, <1>11, <2>3
  <2> QED
    BY <1>1, <1>9, <2>2, <2>4
<1> QED
  BY <1>10, <1>11

-----------------------------------------------------------------------------
(* The steps.                                                              *)

AliveInv ==
  stage = "searching" =>
    /\ batchOffset \in Seq(Hypotheses) /\ IsInjective(batchOffset) /\ batchOffset # <<>>
    /\ Range(batchOffset) = Hypotheses \ finalized
    /\ \A i \in Positions : PositionInv(i)

SearchInv == Setup /\ step \in Nat /\ finalized \subseteq Hypotheses /\ AliveInv

LEMMA AppendToWhole ==
  ASSUME NEW S, NEW s \in Seq(S), NEW t \in Seq(S), NEW w \in S
  PROVE  s \o Append(t, w) = Append(s \o t, w)
<1>1. s \o Append(t, w) \in Seq(S) /\ Append(s \o t, w) \in Seq(S)
  OBVIOUS
<1>2. Len(s \o Append(t, w)) = Len(s) + Len(t) + 1 /\ Len(Append(s \o t, w)) = Len(s) + Len(t) + 1
  OBVIOUS
<1>3. ASSUME NEW i \in 1 .. Len(s) + Len(t) + 1
      PROVE  (s \o Append(t, w))[i] = Append(s \o t, w)[i]
  OBVIOUS
<1> QED
  BY <1>1, <1>2, <1>3, SeqEqual

LEMMA MapBackOne ==
  ASSUME NEW l, NEW known, Fits(l, known), NEW s \in Seq(Free(l)), NEW o \in Free(l)
  PROVE  /\ MapBack(l, Append(s, o)) = Append(MapBack(l, s), ToOriginal(l, o))
         /\ MapBack(l, s) \in Seq(known) /\ ToOriginal(l, o) \in known
<1> DEFINE x == MapBack(l, Append(s, o))
           y == Append(MapBack(l, s), ToOriginal(l, o))
<1>1. /\ y \in Seq(known) /\ Len(y) = Len(s) + 1 /\ Len(s) \in Nat
      /\ y[Len(s) + 1] = ToOriginal(l, o) /\ MapBack(l, s) \in Seq(known)
      /\ \A n \in 1 .. Len(s) : y[n] = ToOriginal(l, s[n])
  BY TextIs
<1>2. PICK a \in Seq(Free(l)) : /\ a = Append(s, o) /\ Len(a) = Len(s) + 1 /\ a[Len(s) + 1] = o
                                /\ \A n \in 1 .. Len(s) : a[n] = s[n]
  <2>1. Append(s, o) \in Seq(Free(l))
    OBVIOUS
  <2>2. Len(Append(s, o)) = Len(s) + 1 /\ Append(s, o)[Len(s) + 1] = o
    OBVIOUS
  <2>3. \A n \in 1 .. Len(s) : Append(s, o)[n] = s[n]
    OBVIOUS
  <2> QED
    BY <2>1, <2>2, <2>3
<1>3. x = [n \in 1 .. Len(s) + 1 |-> ToOriginal(l, a[n])]
  BY <1>2 DEF MapBack
<1> HIDE DEF x, y
<1>4. ASSUME NEW n \in 1 .. Len(s) + 1 PROVE ToOriginal(l, a[n]) = y[n]
  <2>1. CASE n = Len(s) + 1
    BY <1>1, <1>2, <2>1
  <2>2. CASE n # Len(s) + 1
    <3>1. n \in 1 .. Len(s)
      BY <1>1, <2>2
    <3> QED
      BY <1>1, <1>2, <3>1
  <2> QED
    BY <2>1, <2>2
<1>5. y = [n \in 1 .. Len(s) + 1 |-> y[n]]
  BY <1>1
<1>6. x = y
  BY <1>3, <1>4, <1>5
<1>7. ToOriginal(l, o) \in known
  BY DEF Fits
<1> QED
  BY <1>1, <1>6, <1>7 DEF x, y

(* The positions that go on, each of them once.                            *)
IsKept(kept, words, stops) ==
  /\ Len(kept) \in Nat /\ DOMAIN kept = 1 .. Len(kept)
  /\ \A q \in 1 .. Len(kept) :
       kept[q] \in Positions /\ ~IsFinished(kept[q], words[kept[q]]) /\ kept[q] \notin stops
  /\ \A i \in Positions : ~IsFinished(i, words[i]) /\ i \notin stops
                           => \E q \in 1 .. Len(kept) : kept[q] = i
  /\ \A q, r \in 1 .. Len(kept) : kept[q] = kept[r] => q = r
  /\ kept = <<>> <=> Len(kept) = 0

LEMMA KeptIs ==
  ASSUME NEW words, NEW stops, Len(batchOffset) \in Nat
  PROVE  IsKept(Kept(words, stops), words, stops)
<1> DEFINE S == {i \in Positions : ~IsFinished(i, words[i]) /\ i \notin stops}
           kept == Kept(words, stops)
<1>1. S \in SUBSET (1 .. Len(batchOffset)) /\ S \in SUBSET Int
  BY DEF Positions
<1>2. \A i : i \in S <=> i \in Positions /\ ~IsFinished(i, words[i]) /\ i \notin stops
  OBVIOUS
<1>3. kept = Ascending(S)
  BY DEF Kept
<1> HIDE DEF S, kept
<1>4. IsFiniteSet(S)
  <2>1. 1 \in Int /\ Len(batchOffset) \in Int
    OBVIOUS
  <2> QED
    BY <1>1, <2>1, FS_Interval, FS_Subset
<1>5. PICK c \in Nat :
        /\ kept \in [1 .. c -> S] /\ \A x \in S : \E n \in 1 .. c : kept[n] = x
        /\ \A m, n \in 1 .. c : kept[m] = kept[n] => m = n
  BY <1>1, <1>3, <1>4, AscendingIs
<1>6. Len(kept) = c /\ DOMAIN kept = 1 .. c
  BY <1>5
<1>7. kept = <<>> <=> c = 0
  BY <1>5, <1>6
<1> QED
  BY <1>2, <1>5, <1>6, <1>7 DEF kept, IsKept

(* What a step does not change.                                            *)
LEMMA Constants ==
  ASSUME UNCHANGED constantVars
  PROVE  /\ request' = request /\ layer' = layer /\ options' = options /\ model' = model
         /\ Run' = Run /\ Hypotheses' = Hypotheses /\ Setup' = Setup
         /\ \A k : Given(k)' = Given(k)
         /\ \A h : Sentence(h)' = Sentence(h)
BY DEF constantVars, Run, Hypotheses, Setup, Given, Sentence

(* A step gives each hypothesis that is alive the token of its position.   *)
LEMMA WordsAreGiven ==
  ASSUME SearchInv, DecodesAlone(request), stage = "searching", NEW words, NEW stops,
         GiveWords(words, stops), \A i \in Positions : words[i] \in WordChoices(i)
  PROVE  /\ UNCHANGED constantVars
         /\ \A h \in Hypotheses : h \in finalized => Whole(h)' = Whole(h)
         /\ \A i \in Positions, h \in Hypotheses : h = batchOffset[i] =>
              LET w == ToOriginal(layer, words[i])
              IN  /\ words[i] \in Free(layer)
                  /\ generated'[h] = Append(generated[h], w)
                  /\ Whole(h)' = Append(Whole(h), w) /\ Seen(h)' = Append(Seen(h), w)
<1>1. UNCHANGED constantVars
  BY DEF GiveWords
<1>2. /\ request' = request /\ layer' = layer /\ Run' = Run /\ Hypotheses' = Hypotheses
      /\ (\A k : Given(k)' = Given(k)) /\ (\A h : Sentence(h)' = Sentence(h))
  BY <1>1, Constants
<1>3. /\ batchOffset \in Seq(Hypotheses) /\ IsInjective(batchOffset)
      /\ Range(batchOffset) = Hypotheses \ finalized
      /\ \A i \in Positions : PositionInv(i)
  BY DEF SearchInv, AliveInv
<1>4. Positions = DOMAIN batchOffset
  BY <1>3 DEF Positions
<1>5. \A i \in Positions : batchOffset[i] \in Range(batchOffset) /\ PositionOf(batchOffset[i]) = i
  BY <1>3, <1>4 DEF PositionOf, IsInjective, Range
<1>6. \A h \in Hypotheses : generated'[h] =
        IF h \in Range(batchOffset)
          THEN Append(generated[h], ToOriginal(layer, words[PositionOf(h)])) ELSE generated[h]
  BY DEF GiveWords
<1>7. ASSUME NEW h \in Hypotheses, h \in finalized PROVE Whole(h)' = Whole(h)
  <2>1. generated'[h] = generated[h]
    BY <1>3, <1>6, <1>7
  <2>2. Whole(h) = SubSeq(request.prompts[Run[Sentence(h)]], 2, ForwardLength(request) + 1)
                     \o generated[h]
    BY DEF Whole
  <2>3. Whole(h)' = SubSeq(request.prompts[Run[Sentence(h)]], 2, ForwardLength(request) + 1)
                      \o generated'[h]
    BY <1>2 DEF Whole
  <2> QED
    BY <2>1, <2>2, <2>3
<1>8. ASSUME NEW i \in Positions, NEW h \in Hypotheses, h = batchOffset[i]
      PROVE  LET w == ToOriginal(layer, words[i])
             IN  /\ words[i] \in Free(layer)
                 /\ generated'[h] = Append(generated[h], w)
                 /\ Whole(h)' = Append(Whole(h), w) /\ Seen(h)' = Append(Seen(h), w)
  <2>1. h = batchOffset[i]
    BY <1>8
  <2>2. words[i] \in Free(layer)
    BY <1>3, ChoicesAre DEF SearchInv
  <2>3. PICK w \in Known(request) : w = ToOriginal(layer, words[i])
    BY <2>2, SetupFits DEF Fits, SearchInv
  <2>4. generated'[h] = Append(generated[h], w)
    BY <1>5, <1>6, <2>1, <2>3
  <2>5. PICK g \in Seq(Known(request)) : g = generated[h]
    BY <1>3, <2>1, <2>2, SetupFits, TextIs DEF PositionInv, SearchInv
  <2> DEFINE first == SubSeq(request.prompts[Run[Sentence(h)]], 2, ForwardLength(request) + 1)
             start == request.static \o <<Head(Given(Sentence(h)))>>
  <2>6. Whole(h) = first \o g
    BY <2>5 DEF Whole
  <2>7. Whole(h)' = first \o Append(g, w)
    BY <1>2, <2>4, <2>5 DEF Whole
  <2>8. Seen(h) = start \o Whole(h) /\ Seen(h)' = start \o Whole(h)'
    BY <1>2 DEF Seen
  <2>9. PICK from \in Nat : from = ForwardLength(request)
    BY HypothesesAre, PromptsAre DEF SearchInv
  <2>10. PICK p \in Seq(Known(request)) : p = Given(Sentence(h)) /\ from < Len(p)
    BY <2>9, HypothesesAre, PromptsAre DEF SearchInv, PromptIs
  <2>11. first \in Seq(Known(request))
    <3>1. PICK e \in Int : e = from + 1
      OBVIOUS
    <3>2. \A n \in 2 .. e : p[n] \in Known(request)
      BY <2>10, <3>1
    <3>3. SubSeq(p, 2, e) \in Seq(Known(request))
      BY <3>2, SubSeqProperties
    <3> QED
      BY <2>9, <2>10, <3>1, <3>3 DEF Given
  <2>12. Known(request) \subseteq Int
    <3>1. Known(request) \subseteq Words
      BY SetupFits DEF Fits, SearchInv
    <3> QED
      BY <3>1 DEF Words
  <2>13. start \in Seq(Int)
    <3>1. request.static \in Seq(Words) /\ Words \subseteq Int
      BY GreedySearchAssumption DEF SearchInv, Setup, IsRequest, Words
    <3>2. PICK a \in Seq(Int) : a = request.static
      BY <3>1, SeqMonotonic
    <3>3. PICK x \in Int : x = Head(Given(Sentence(h)))
      <4>1. p # <<>>
        BY <2>9, <2>10
      <4>2. Head(p) \in Known(request)
        BY <4>1, HeadTailProperties
      <4> QED
        BY <2>10, <2>12, <4>2
    <3>4. a \o <<x>> \in Seq(Int)
      OBVIOUS
    <3> QED
      BY <3>2, <3>3, <3>4
  <2> HIDE DEF first, start
  <2>14. Whole(h)' = Append(Whole(h), w)
    BY <2>6, <2>7, <2>11, AppendToWhole
  <2>15. first \o g \in Seq(Int) /\ w \in Int
    <3>1. first \o g \in Seq(Known(request))
      BY <2>11
    <3> QED
      BY <2>12, <3>1, SeqMonotonic
  <2>16. start \o Append(first \o g, w) = Append(start \o (first \o g), w)
    BY <2>13, <2>15, AppendToWhole
  <2>17. Seen(h)' = Append(Seen(h), w)
    BY <2>6, <2>8, <2>14, <2>16
  <2> QED
    BY <2>2, <2>3, <2>4, <2>14, <2>17
<1> QED
  BY <1>1, <1>7, <1>8

(* The invariant of a position, of the hypothesis that is there.           *)
IsAt(i, h) ==
  /\ aliveSeq[i] \in Seq(Free(layer)) /\ Len(aliveSeq[i]) = step
  /\ generated[h] = MapBack(layer, aliveSeq[i])
  /\ Fed[i] = [batch |-> Run[Sentence(h)], tokens |-> Seen(h)]

LEMMA PositionIs ==
  ASSUME NEW i, NEW h \in Hypotheses, h = batchOffset[i], IsAt(i, h)
  PROVE  PositionInv(i)
BY DEF PositionInv, IsAt

LEMMA PositionIsNext ==
  ASSUME NEW i, NEW h, (h \in Hypotheses)', (h = batchOffset[i])', IsAt(i, h)'
  PROVE  PositionInv(i)'
BY DEF PositionInv, IsAt, Hypotheses, Seen, Whole, Given, Sentence, Run

(* The positions that go on are again those of their hypotheses.           *)
LEMMA PositionsGoOn ==
  ASSUME SearchInv, DecodesAlone(request), stage = "searching", NEW words, NEW stops,
         GiveWords(words, stops), \A i \in Positions : words[i] \in WordChoices(i),
         NEW kept, kept = Kept(words, stops),
         step' = step + 1,
         batchOffset' = [p \in DOMAIN kept |-> batchOffset[kept[p]]],
         sampleFrom' = [p \in DOMAIN kept |-> words[kept[p]]],
         state' = FedKept(kept),
         aliveSeq' = [p \in DOMAIN kept |-> Append(aliveSeq[kept[p]], words[kept[p]])],
         NEW q \in 1 .. Len(kept)
  PROVE  PositionInv(q)'
<1>1. /\ batchOffset \in Seq(Hypotheses)
      /\ \A i \in Positions : PositionInv(i)
  BY DEF SearchInv, AliveInv
<1>2. Len(kept) \in Nat /\ DOMAIN kept = 1 .. Len(kept) /\ kept[q] \in Positions
  <2>1. IsKept(kept, words, stops)
    BY <1>1, KeptIs
  <2> QED
    BY <2>1 DEF IsKept
<1>3. PICK i \in Positions : i = kept[q]
  BY <1>2
<1>4. PICK h \in Hypotheses : h = batchOffset[i]
  BY <1>1 DEF PositionInv
<1>5. UNCHANGED constantVars
  BY DEF GiveWords
<1>6. /\ layer' = layer /\ Run' = Run /\ Hypotheses' = Hypotheses
      /\ \A g : Sentence(g)' = Sentence(g)
  BY <1>5, Constants
<1>7. /\ words[i] \in Free(layer)
      /\ generated'[h] = Append(generated[h], ToOriginal(layer, words[i]))
      /\ Seen(h)' = Append(Seen(h), ToOriginal(layer, words[i]))
  BY <1>4, WordsAreGiven
<1>8. /\ batchOffset'[q] = h /\ sampleFrom'[q] = words[i] /\ state'[q] = Fed[i]
      /\ aliveSeq'[q] = Append(aliveSeq[i], words[i]) /\ q \in Positions'
  <2>1. q \in DOMAIN kept
    BY <1>2
  <2>2. Len(batchOffset') = Len(kept)
    BY <1>2
  <2> QED
    BY <1>2, <1>3, <1>4, <2>1, <2>2 DEF FedKept, Positions
<1>9. /\ aliveSeq[i] \in Seq(Free(layer)) /\ Len(aliveSeq[i]) = step
      /\ generated[h] = MapBack(layer, aliveSeq[i])
      /\ Fed[i] = [batch |-> Run[Sentence(h)], tokens |-> Seen(h)]
  BY <1>1, <1>4 DEF PositionInv
<1>10. aliveSeq'[q] \in Seq(Free(layer)) /\ Len(aliveSeq'[q]) = step'
  <2>1. PICK s \in Seq(Free(layer)) : s = aliveSeq[i] /\ Len(s) = step
    BY <1>9
  <2>2. PICK o \in Free(layer) : o = words[i]
    BY <1>7
  <2>3. Append(s, o) \in Seq(Free(layer)) /\ Len(Append(s, o)) = step + 1
    BY <2>1
  <2> QED
    BY <1>8, <2>1, <2>2, <2>3
<1>11. generated'[h] = MapBack(layer, aliveSeq'[q])
  <2>1. MapBack(layer, Append(aliveSeq[i], words[i]))
          = Append(MapBack(layer, aliveSeq[i]), ToOriginal(layer, words[i]))
    BY <1>7, <1>9, SetupFits, MapBackOne DEF SearchInv
  <2> QED
    BY <1>7, <1>8, <1>9, <2>1
<1>12. Fed'[q] = [batch |-> Run[Sentence(h)], tokens |-> Seen(h)']
  <2>1. Fed'[q] = [state'[q] EXCEPT !.tokens = Append(@, ToOriginal(layer', sampleFrom'[q]))]
    BY <1>8 DEF Fed
  <2>2. Fed'[q] = [[batch |-> Run[Sentence(h)], tokens |-> Seen(h)] EXCEPT
                     !.tokens = Append(@, ToOriginal(layer, words[i]))]
    BY <1>6, <1>8, <1>9, <2>1
  <2>3. Fed'[q] = [batch |-> Run[Sentence(h)], tokens |-> Append(Seen(h), ToOriginal(layer, words[i]))]
    BY <2>2
  <2> QED
    BY <1>7, <2>3
<1>13. IsAt(q, h)'
  BY <1>6, <1>10, <1>11, <1>12 DEF IsAt
<1>14. (h \in Hypotheses)' /\ (h = batchOffset[q])'
  BY <1>6, <1>8
<1> QED
  BY <1>13, <1>14, PositionIsNext

(* An iteration of the search is a step of the abstract search.            *)
LEMMA SearchStepIs ==
  ASSUME SearchInv, DecodesAlone(request), SearchStep
  PROVE  Alone!Step /\ SearchInv'
<1>1. /\ batchOffset \in Seq(Hypotheses) /\ IsInjective(batchOffset) /\ batchOffset # <<>>
      /\ Range(batchOffset) = Hypotheses \ finalized
      /\ (\A i \in Positions : PositionInv(i))
      /\ Setup /\ step \in Nat /\ finalized \subseteq Hypotheses /\ stage = "searching"
  BY DEF SearchInv, AliveInv, SearchStep
<1>2. PICK words \in [Positions -> Outputs(layer)],
           stops \in SUBSET {i \in Positions : options.callback = "stops" /\ CallsBack(i)} :
        /\ \A i \in Positions : words[i] \in WordChoices(i)
        /\ GiveWords(words, stops)
        /\ \/ /\ Kept(words, stops) = <<>>
              /\ stage' = "merging"
              /\ UNCHANGED loopVars
           \/ LET kept == Kept(words, stops)
              IN  /\ kept # <<>>
                  /\ step' = step + 1
                  /\ batchOffset' = [p \in DOMAIN kept |-> batchOffset[kept[p]]]
                  /\ sampleFrom' = [p \in DOMAIN kept |-> words[kept[p]]]
                  /\ state' = FedKept(kept)
                  /\ aliveSeq' = [p \in DOMAIN kept |-> Append(aliveSeq[kept[p]], words[kept[p]])]
                  /\ stage' = IF step' < MaxStep THEN "searching" ELSE "merging"
  BY Zenon DEF SearchStep
<1>3. PICK kept : kept = Kept(words, stops)
  OBVIOUS
<1>4. Positions = DOMAIN batchOffset /\ Positions = 1 .. Len(batchOffset) /\ Len(batchOffset) \in Nat
  BY <1>1 DEF Positions
<1>5. /\ Len(kept) \in Nat /\ DOMAIN kept = 1 .. Len(kept)
      /\ \A q \in 1 .. Len(kept) :
           kept[q] \in Positions /\ ~IsFinished(kept[q], words[kept[q]]) /\ kept[q] \notin stops
      /\ \A i \in Positions : ~IsFinished(i, words[i]) /\ i \notin stops
                                => \E q \in 1 .. Len(kept) : kept[q] = i
      /\ \A q, r \in 1 .. Len(kept) : kept[q] = kept[r] => q = r
      /\ kept = <<>> <=> Len(kept) = 0
  <2>1. IsKept(kept, words, stops)
    BY <1>3, <1>4, KeptIs
  <2> QED
    BY <2>1, Zenon DEF IsKept
<1>6. \A i \in Positions : i \in Range(kept) <=> ~IsFinished(i, words[i]) /\ i \notin stops
  BY <1>5 DEF Range
<1>7. finalized' = finalized \cup {batchOffset[i] : i \in Positions \ Range(kept)}
  BY <1>2, <1>3 DEF GiveWords
<1>8. /\ UNCHANGED constantVars
      /\ \A h \in Hypotheses : h \in finalized => Whole(h)' = Whole(h)
      /\ \A i \in Positions, h \in Hypotheses : h = batchOffset[i] =>
           /\ words[i] \in Free(layer)
           /\ Whole(h)' = Append(Whole(h), ToOriginal(layer, words[i]))
  BY <1>1, <1>2, WordsAreGiven
<1>9. Hypotheses' = Hypotheses /\ request' = request /\ model' = model /\ Setup'
  BY <1>1, <1>8, Constants
<1>10. \A h \in Hypotheses : h \notin finalized <=> \E i \in Positions : h = batchOffset[i]
  BY <1>1, <1>4 DEF Range
<1>11. \A i, j \in Positions : batchOffset[i] = batchOffset[j] => i = j
  BY <1>1, <1>4 DEF IsInjective
<1>12. \A i \in Positions : batchOffset[i] \in Hypotheses
  BY <1>1, <1>4
<1>13. \A i \in Positions : batchOffset[i] \in finalized' <=> i \notin Range(kept)
  BY <1>7, <1>10, <1>11, <1>12
<1>14. finalized \subseteq finalized' /\ finalized' \subseteq Hypotheses
  BY <1>1, <1>7, <1>12
<1>15. Alone!Step
  <2> DEFINE W == [g \in Hypotheses |-> Whole(g)]
  <2>1. Hypotheses \ finalized # {}
    <3>1. 1 \in Positions
      BY <1>1, <1>4
    <3> QED
      BY <1>10, <1>12, <3>1
  <2>2. W' = [g \in Hypotheses |-> Whole(g)']
    BY <1>9
  <2>3. \A h \in Hypotheses : W[h] = Whole(h) /\ W'[h] = Whole(h)'
    BY <2>2
  <2>4. ASSUME NEW h \in Hypotheses, h \notin finalized
        PROVE  /\ \E t \in Alone!NextTokens(h) :
                    /\ W'[h] = Append(W[h], t)
                    /\ Alone!Ended(h, t) => h \in finalized'
               /\ h \in finalized' => Alone!Ended(h, Last(W'[h])) \/ request.callback = "stops"
    <3>1. PICK i \in Positions : h = batchOffset[i]
      BY <1>10, <2>4
    <3>2. PICK t : t = ToOriginal(layer, words[i])
      OBVIOUS
    <3>3. words[i] \in Free(layer) /\ t \in Alone!NextTokens(h)
      BY <1>1, <1>2, <3>1, <3>2, ChoicesAre
    <3>4. Whole(h)' = Append(Whole(h), t)
      BY <1>8, <3>1, <3>2
    <3>5. IsFinished(i, words[i]) <=> Alone!Ended(h, t)
      BY <1>1, <3>1, <3>2, <3>3, EndsAre
    <3>6. Last(Append(Whole(h), t)) = t
      <4>1. t \in Known(request)
        BY <1>1, <3>2, <3>3, SetupFits DEF Fits
      <4>2. generated[h] \in Seq(Known(request))
        <5>1. aliveSeq[i] \in Seq(Free(layer)) /\ generated[h] = MapBack(layer, aliveSeq[i])
          BY <1>1, <3>1 DEF PositionInv
        <5>2. MapBack(layer, aliveSeq[i]) \in Seq(Known(request))
          BY <1>1, <3>3, <5>1, SetupFits, MapBackOne
        <5> QED
          BY <5>1, <5>2
      <4>3. PICK x \in Seq(Known(request)) : x = Whole(h)
        BY <1>1, <4>2, WholeIs
      <4>4. Append(x, t) \in Seq(Known(request)) /\ Len(Append(x, t)) = Len(x) + 1
              /\ Append(x, t)[Len(x) + 1] = t
        BY <4>1
      <4> QED
        BY <4>3, <4>4 DEF Last
    <3>7. h \in finalized' <=> i \notin Range(kept)
      BY <1>13, <3>1
    <3>8. i \in stops => request.callback = "stops"
      <4>1. options.callback = request.callback
        BY <1>1, ArgumentsAre
      <4> QED
        BY <1>2, <4>1
    <3>9. W'[h] = Append(W[h], t) /\ Last(W'[h]) = t
      BY <2>3, <3>4, <3>6
    <3> HIDE DEF W
    <3> QED
      BY <1>6, <3>3, <3>5, <3>7, <3>8, <3>9
  <2>5. ASSUME NEW h \in Hypotheses, h \in finalized PROVE W'[h] = W[h]
    BY <1>8, <2>3, <2>5
  <2>6. DOMAIN W = Hypotheses /\ DOMAIN W' = Hypotheses
    BY <2>2
  <2>7. Alone!Last(W'[1]) = Last(W'[1]) /\ \A x : Alone!Last(x) = Last(x)
    BY DEF Alone!Last, Last
  <2>8. (Hypotheses \ finalized)' = Hypotheses \ finalized'
    BY <1>9
  <2> HIDE DEF W
  <2>9. \A h \in Hypotheses :
          IF h \in Hypotheses \ finalized
            THEN \E t \in Alone!NextTokens(h) :
                   /\ W'[h] = Append(W[h], t)
                   /\ Alone!Ended(h, t) => h \notin Hypotheses \ finalized'
            ELSE W'[h] = W[h]
    BY <2>4, <2>5
  <2>10. \A h \in (Hypotheses \ finalized) \ (Hypotheses \ finalized') :
           Alone!Ended(h, Alone!Last(W'[h])) \/ request.callback = "stops"
    BY <2>4, <2>7
  <2>11. Hypotheses \ finalized' \subseteq Hypotheses \ finalized
    BY <1>14
  <2>12. Alone!Hypotheses = Hypotheses
    BY <2>6 DEF Alone!Hypotheses, W
  <2> QED
    BY <1>9, <2>1, <2>6, <2>8, <2>9, <2>10, <2>11, <2>12 DEF Alone!Step, W
<1>16. CASE stage' # "searching"
  <2>1. step' \in Nat
    BY <1>1, <1>2 DEF loopVars
  <2> QED
    BY <1>9, <1>14, <1>15, <1>16, <2>1 DEF SearchInv, AliveInv
<1>17. CASE stage' = "searching"
  <2>1. /\ kept # <<>>
        /\ step' = step + 1
        /\ batchOffset' = [p \in DOMAIN kept |-> batchOffset[kept[p]]]
        /\ sampleFrom' = [p \in DOMAIN kept |-> words[kept[p]]]
        /\ state' = FedKept(kept)
        /\ aliveSeq' = [p \in DOMAIN kept |-> Append(aliveSeq[kept[p]], words[kept[p]])]
    BY <1>2, <1>3, <1>17
  <2>2. \A q \in 1 .. Len(kept) : PositionInv(q)'
    BY <1>1, <1>2, <1>3, <2>1, PositionsGoOn
  <2>3. batchOffset' \in Seq(Hypotheses) /\ DOMAIN batchOffset' = 1 .. Len(kept)
          /\ Len(batchOffset') = Len(kept) /\ batchOffset' # <<>>
    <3>1. batchOffset' = [q \in 1 .. Len(kept) |-> batchOffset[kept[q]]]
      BY <1>5, <2>1
    <3>2. \A q \in 1 .. Len(kept) : batchOffset[kept[q]] \in Hypotheses
      BY <1>5, <1>12
    <3>3. PICK n \in Nat \ {0} : n = Len(kept)
      BY <1>5, <2>1
    <3>4. batchOffset' \in [1 .. n -> Hypotheses]
      BY <3>1, <3>2, <3>3
    <3> QED
      BY <3>3, <3>4
  <2>4. \A q \in 1 .. Len(kept) : batchOffset'[q] = batchOffset[kept[q]]
    BY <1>5, <2>1
  <2>5. IsInjective(batchOffset')
    BY <1>5, <1>11, <2>3, <2>4 DEF IsInjective
  <2>6. Range(batchOffset') = Hypotheses \ finalized'
    <3>1. ASSUME NEW h \in Range(batchOffset') PROVE h \in Hypotheses \ finalized'
      <4>1. PICK q \in 1 .. Len(kept) : h = batchOffset[kept[q]]
        BY <2>3, <2>4 DEF Range
      <4>2. kept[q] \in Positions /\ kept[q] \in Range(kept)
        BY <1>5, <1>6
      <4> QED
        BY <1>12, <1>13, <4>1, <4>2
    <3>2. ASSUME NEW h \in Hypotheses \ finalized' PROVE h \in Range(batchOffset')
      <4>1. PICK i \in Positions : h = batchOffset[i]
        BY <1>10, <1>14
      <4>2. i \in Range(kept)
        BY <1>13, <4>1
      <4>3. PICK q \in 1 .. Len(kept) : kept[q] = i
        BY <1>5, <1>6, <4>2
      <4>4. q \in DOMAIN batchOffset' /\ batchOffset'[q] = h
        BY <2>3, <2>4, <4>1, <4>3
      <4> QED
        BY <4>4 DEF Range
    <3> QED
      BY <3>1, <3>2
  <2>7. Positions' = 1 .. Len(kept)
    BY <2>3 DEF Positions
  <2>8. step' \in Nat
    BY <1>1, <2>1
  <2>9. AliveInv'
    BY <1>9, <2>2, <2>3, <2>5, <2>6, <2>7 DEF AliveInv
  <2> QED
    BY <1>9, <1>14, <1>15, <2>8, <2>9 DEF SearchInv
<1> QED
  BY <1>16, <1>17

-----------------------------------------------------------------------------
(* The beginning.                                                          *)

LEMMA PromptSplits ==
  ASSUME NEW S, NEW s \in Seq(S), NEW p \in Seq(S), NEW from \in Nat, from < Len(p)
  PROVE  s \o <<Head(p)>> \o (SubSeq(p, 2, from + 1) \o <<>>)
           = Append(s \o SubSeq(p, 1, from), p[from + 1])
<1>1. PICK e \in 1 .. Len(p) : e = from + 1 /\ e - 1 = from
  <2>1. from + 1 \in 1 .. Len(p) /\ (from + 1) - 1 = from
    OBVIOUS
  <2> QED
    BY <2>1
<1>2. 1 \in 1 .. Len(p) /\ e \in 1 .. Len(p) /\ 1 + 1 = 2
  OBVIOUS
<1>3. SubSeq(p, 1, e) = <<p[1]>> \o SubSeq(p, 2, e)
  BY <1>2, SubSeqRecursiveFirst
<1>4. SubSeq(p, 1, e) = SubSeq(p, 1, from) \o <<p[e]>>
  BY <1>1, <1>2, SubSeqRecursiveSecond
<1>5. Head(p) = p[1] /\ p[1] \in S /\ p[e] \in S
  BY <1>2
<1>6. PICK a \in Seq(S) : a = SubSeq(p, 2, e)
  <2>1. \A i \in 2 .. e : p[i] \in S
    OBVIOUS
  <2>2. SubSeq(p, 2, e) \in Seq(S)
    BY <2>1, SubSeqProperties
  <2> QED
    BY <2>2
<1>7. PICK b \in Seq(S) : b = SubSeq(p, 1, from)
  <2>1. \A i \in 1 .. from : p[i] \in S
    OBVIOUS
  <2>2. SubSeq(p, 1, from) \in Seq(S)
    BY <2>1, SubSeqProperties
  <2> QED
    BY <2>2
<1>8. a \o <<>> = a
  BY ConcatEmptySeq
<1>9. <<p[1]>> \in Seq(S) /\ <<p[e]>> \in Seq(S)
  <2>1. \A x \in S : <<x>> \in Seq(S)
    OBVIOUS
  <2> QED
    BY <1>5, <2>1
<1>10. (s \o <<p[1]>>) \o a = s \o (<<p[1]>> \o a)
  <2>1. PICK x \in Seq(S) : x = <<p[1]>>
    BY <1>9
  <2>2. (s \o x) \o a \in Seq(S) /\ s \o (x \o a) \in Seq(S)
    OBVIOUS
  <2>3. Len((s \o x) \o a) = Len(s) + Len(x) + Len(a) /\ Len(s \o (x \o a)) = Len(s) + Len(x) + Len(a)
    OBVIOUS
  <2>4. ASSUME NEW i \in 1 .. Len(s) + Len(x) + Len(a)
        PROVE  ((s \o x) \o a)[i] = (s \o (x \o a))[i]
    OBVIOUS
  <2>5. (s \o x) \o a = s \o (x \o a)
    BY <2>2, <2>3, <2>4, SeqEqual
  <2> QED
    BY <2>1, <2>5
<1>11. s \o (b \o <<p[e]>>) = (s \o b) \o <<p[e]>>
  BY <1>9, ConcatAssociative
<1>12. (s \o b) \o <<p[e]>> = Append(s \o b, p[e])
  <2>1. PICK x \in S : x = p[e]
    BY <1>5
  <2>2. PICK c \in Seq(S) : c = s \o b
    <3>1. s \o b \in Seq(S)
      BY ConcatProperties
    <3> QED
      BY <3>1
  <2>3. c \o <<x>> = Append(c, x)
    OBVIOUS
  <2> QED
    BY <2>1, <2>2, <2>3
<1> QED
  BY <1>1, <1>3, <1>4, <1>5, <1>6, <1>7, <1>8, <1>10, <1>11, <1>12

LEMMA RepeatedIs ==
  ASSUME NEW s, NEW n \in Nat \ {0}, NEW l \in Nat, l = Len(s), NEW h \in 1 .. l * n
  PROVE  RepeatBatch(s, n)[h] = s[SentenceOf(h, n)]
<1>1. n * l = l * n
  OBVIOUS
<1>2. h \in 1 .. n * Len(s)
  BY <1>1
<1> QED
  BY <1>2 DEF RepeatBatch, SentenceOf

(* The tokens that are forwarded are those that the prompt begins with.    *)
LEMMA InitIs ==
  ASSUME Init, DecodesAlone(request)
  PROVE  Alone!Init /\ SearchInv
<1>1. Setup /\ step = 0 /\ finalized = {}
        /\ \A h \in Hypotheses : generated[h] = <<>>
  BY DEF Init, Setup
<1>2. /\ Hypotheses = 1 .. Len(Run) * request.numHypotheses
      /\ \A h \in Hypotheses : Sentence(h) \in 1 .. Len(Run)
  BY <1>1, HypothesesAre
<1>3. PICK from \in Nat : from = ForwardLength(request)
  BY <1>1, ForwardLengthIs DEF Setup
<1>4. \A h \in Hypotheses : Given(Sentence(h)) \in Seq(Known(request))
                              /\ from < Len(Given(Sentence(h)))
  BY <1>1, <1>2, <1>3, PromptsAre DEF PromptIs
<1>5. \A h \in Hypotheses : Whole(h) = SubSeq(Given(Sentence(h)), 2, from + 1) \o <<>>
  BY <1>1, <1>3 DEF Whole, Given
<1>6. ASSUME NEW h \in Hypotheses PROVE IsPrefix(Whole(h), Alone!Forced(h))
  <2>1. PICK p \in Seq(Known(request)) : p = Given(Sentence(h)) /\ from < Len(p)
    BY <1>4
  <2>2. PICK e \in Int : e = from + 1
    OBVIOUS
  <2>3. \A i \in 2 .. e : p[i] \in Known(request)
    BY <2>1, <2>2
  <2>4. /\ SubSeq(p, 2, e) \in Seq(Known(request))
        /\ Len(SubSeq(p, 2, e)) = IF 2 <= e THEN e - 2 + 1 ELSE 0
        /\ \A i \in 1 .. e - 2 + 1 : SubSeq(p, 2, e)[i] = p[2 + i - 1]
    BY <2>3, SubSeqProperties
  <2>5. e - 2 + 1 = from /\ \A i \in 1 .. from : 2 + i - 1 = i + 1
    BY <2>2
  <2>6. PICK w \in Seq(Known(request)) : w = Whole(h) /\ Len(w) = from
                                           /\ \A i \in 1 .. from : w[i] = p[i + 1]
    <3>1. SubSeq(p, 2, e) \o <<>> = SubSeq(p, 2, e)
      BY <2>4, ConcatEmptySeq
    <3>2. Whole(h) = SubSeq(p, 2, e)
      BY <1>5, <2>1, <2>2, <3>1
    <3>3. Len(SubSeq(p, 2, e)) = from
      BY <2>2, <2>4
    <3> QED
      BY <2>4, <2>5, <3>2, <3>3
  <2>7. PICK t \in Seq(Known(request)) : t = Alone!Forced(h) /\ Len(t) = Len(p) - 1
                                           /\ \A i \in 1 .. Len(p) - 1 : t[i] = p[i + 1]
    <3>1. Alone!Forced(h) = Tail(p) /\ Len(Alone!Forced(h)) = Len(p) - 1
            /\ \A i \in 1 .. Len(p) - 1 : Alone!Forced(h)[i] = p[i + 1]
      BY <1>1, <2>1, AloneIs
    <3>2. p # <<>>
      BY <2>1
    <3>3. Tail(p) \in Seq(Known(request))
      BY <3>2, HeadTailProperties
    <3> QED
      BY <3>1, <3>3
  <2>8. SubSeq(w, 1, from) = w
    BY <2>6, SubSeqFull
  <2>9. SubSeq(t, 1, from) = w
    <3>1. \A i \in 1 .. from : t[i] \in Known(request)
      BY <2>1, <2>7
    <3>2. /\ SubSeq(t, 1, from) \in Seq(Known(request))
          /\ Len(SubSeq(t, 1, from)) = IF 1 <= from THEN from - 1 + 1 ELSE 0
          /\ \A i \in 1 .. from - 1 + 1 : SubSeq(t, 1, from)[i] = t[1 + i - 1]
      BY <3>1, SubSeqProperties
    <3>3. from - 1 + 1 = from /\ \A i \in 1 .. from : 1 + i - 1 = i /\ i \in 1 .. Len(p) - 1
      BY <2>1
    <3>4. Len(SubSeq(t, 1, from)) = from
            /\ \A i \in 1 .. from : SubSeq(t, 1, from)[i] = w[i]
      BY <2>6, <2>7, <3>2, <3>3
    <3> QED
      BY <2>6, <3>2, <3>4, SeqEqual
  <2>10. from <= Len(t)
    BY <2>1, <2>7
  <2> QED
    BY <2>6, <2>7, <2>8, <2>9, <2>10 DEF IsPrefix
<1>7. Alone!Init
  <2>1. Alone!IndexToRun(request) = Run
    BY SameRun DEF Run
  <2>2. \A x, y : Alone!IsPrefix(x, y) <=> IsPrefix(x, y)
    BY DEF Alone!IsPrefix, IsPrefix
  <2>3. Hypotheses \ finalized = Hypotheses
    BY <1>1
  <2>4. Alone!Hypotheses = Hypotheses
    BY DEF Alone!Hypotheses
  <2>5. \A h \in Hypotheses : [g \in Hypotheses |-> Whole(g)][h] = Whole(h)
    OBVIOUS
  <2> QED
    BY <1>2, <1>6, <2>1, <2>2, <2>3, <2>4, <2>5 DEF Alone!Init
<1>8. ASSUME stage = "searching" PROVE AliveInv
  <2>1. Run # <<>>
    BY <1>8 DEF Init
  <2>2. PICK l \in Nat \ {0} : l = Len(Run)
    <3>1. PICK x \in Seq(Sentences(request)) : x = Run
      BY <1>1, ArgumentsAre
    <3>2. Len(x) \in Nat \ {0}
      BY <2>1, <3>1, EmptySeq
    <3> QED
      BY <3>1, <3>2
  <2>3. PICK n \in Nat \ {0} : n = request.numHypotheses /\ n = options.numHypotheses
    BY <1>1, ArgumentsAre
  <2>4. PICK c \in Nat \ {0} : c = l * n
    <3>1. l * n \in Nat \ {0}
      OBVIOUS
    <3> QED
      BY <3>1
  <2>5. Hypotheses = 1 .. c
    BY <1>2, <2>2, <2>3, <2>4
  <2>6. batchOffset = [h \in 1 .. c |-> h] /\ aliveSeq = [h \in 1 .. c |-> <<>>]
    BY <2>5 DEF Init
  <2>7. batchOffset \in Seq(1 .. c) /\ Len(batchOffset) = c /\ DOMAIN batchOffset = 1 .. c
    BY <2>6
  <2>8. Positions = 1 .. c
    BY <2>7 DEF Positions
  <2>9. IsInjective(batchOffset) /\ batchOffset # <<>> /\ Range(batchOffset) = Hypotheses \ finalized
    <3>1. \A h \in 1 .. c : batchOffset[h] = h
      BY <2>6
    <3>2. IsInjective(batchOffset)
      BY <2>7, <3>1 DEF IsInjective
    <3>3. Range(batchOffset) = 1 .. c
      BY <2>7, <3>1 DEF Range
    <3> QED
      BY <1>1, <2>5, <2>7, <3>2, <3>3
  <2>10. ASSUME NEW i \in 1 .. c PROVE PositionInv(i)
    <3>1. PICK k \in 1 .. l : k = Sentence(i) /\ k = SentenceOf(i, n)
      BY <1>2, <2>2, <2>3, <2>5 DEF Sentence
    <3>2. batchOffset[i] = i /\ aliveSeq[i] = <<>> /\ generated[i] = <<>> /\ i \in Hypotheses
      BY <1>1, <2>5, <2>6
    <3>3. MapBack(layer, <<>>) = <<>> /\ <<>> \in Seq(Free(layer)) /\ Len(<<>>) = 0
      BY DEF MapBack
    <3>4. sampleFrom[i] = options.startIds[k]
      <4>1. sampleFrom = RepeatBatch(options.startIds, n) /\ Len(options.startIds) = l
        BY <1>1, <2>2, <2>3, ArgumentsAre DEF Init
      <4>2. i \in 1 .. l * n
        BY <2>4
      <4> QED
        BY <3>1, <4>1, <4>2, RepeatedIs
    <3>5. state[i] = [batch |-> Run[k], tokens |-> options.forwarded[k]]
      <4> DEFINE seen == [j \in Batch |-> [batch |-> Run[j], tokens |-> options.forwarded[j]]]
      <4>1. state = RepeatBatch(seen, n) /\ Batch = 1 .. l
        BY <1>1, <2>2, <2>3, ArgumentsAre DEF Init
      <4>2. Len(seen) = l /\ seen[k] = [batch |-> Run[k], tokens |-> options.forwarded[k]]
        BY <4>1
      <4>3. i \in 1 .. l * n
        BY <2>4
      <4> HIDE DEF seen
      <4> QED
        BY <3>1, <4>1, <4>2, <4>3, RepeatedIs
    <3>6. PromptIs(k)
      BY <1>1, <2>2, PromptsAre
    <3>7. PICK p \in Seq(Known(request)) : p = Given(k) /\ from < Len(p)
      BY <1>3, <3>6 DEF PromptIs
    <3>8. options.forwarded[k] = request.static \o SubSeq(p, 1, from)
            /\ ToOriginal(layer, sampleFrom[i]) = p[from + 1]
      BY <1>3, <3>4, <3>6, <3>7 DEF PromptIs
    <3>9. Seen(i) = request.static \o <<Head(p)>> \o (SubSeq(p, 2, from + 1) \o <<>>)
      BY <1>5, <3>1, <3>2, <3>7 DEF Seen
    <3>10. Seen(i) = Append(request.static \o SubSeq(p, 1, from), p[from + 1])
      <4>1. Known(request) \subseteq Words /\ request.static \in Seq(Words)
        BY <1>1, SetupFits, GreedySearchAssumption DEF Fits, Setup, IsRequest
      <4>2. p \in Seq(Words)
        BY <4>1, SeqMonotonic
      <4> QED
        BY <3>7, <3>9, <4>1, <4>2, PromptSplits
    <3>11. Fed[i] = [batch |-> Run[k], tokens |-> Seen(i)]
      <4>1. Fed[i] = [state[i] EXCEPT !.tokens = Append(@, ToOriginal(layer, sampleFrom[i]))]
        BY <2>8 DEF Fed
      <4>2. Fed[i] = [[batch |-> Run[k], tokens |-> options.forwarded[k]] EXCEPT
                        !.tokens = Append(@, p[from + 1])]
        BY <3>5, <3>8, <4>1
      <4>3. Fed[i] = [batch |-> Run[k], tokens |-> Append(options.forwarded[k], p[from + 1])]
        BY <4>2
      <4> QED
        BY <3>8, <3>10, <4>3
    <3>12. IsAt(i, i)
      BY <1>1, <3>1, <3>2, <3>3, <3>11 DEF IsAt
    <3> QED
      BY <3>2, <3>12, PositionIs
  <2> QED
    BY <2>5, <2>7, <2>8, <2>9, <2>10 DEF AliveInv
<1>9. AliveInv
  BY <1>8 DEF AliveInv
<1> QED
  BY <1>1, <1>7, <1>9 DEF SearchInv

-----------------------------------------------------------------------------
(* Batching, padding with prefixes, forwarding, removing what is finished, *)
(* repeating and restricting change nothing: if the requests stay within   *)
(* the conditions of DecodesAlone, every run of GreedySearch::search is    *)
(* one in which each hypothesis is decoded alone.                          *)
THEOREM SearchIsIndependent ==
  ASSUME \A r \in AllRequests : DecodesAlone(r)
  PROVE  Spec => ImplementsIndependentDecoding
<1>1. Init => Alone!Init /\ SearchInv
  <2>1. Init => DecodesAlone(request)
    BY DEF Init
  <2> QED
    BY <2>1, InitIs
<1>2. SearchInv /\ [Next]_vars => SearchInv' /\ [Alone!Step]_(Alone!vars)
  <2> SUFFICES ASSUME SearchInv, [Next]_vars
               PROVE  SearchInv' /\ [Alone!Step]_(Alone!vars)
    OBVIOUS
  <2>1. ASSUME UNCHANGED constantVars, UNCHANGED <<finalized, generated>>
        PROVE  UNCHANGED Alone!vars
    BY <2>1 DEF constantVars, Alone!vars, Hypotheses, Whole, Sentence, Run
  <2>2. CASE SearchStep
    <3>1. DecodesAlone(request)
      BY DEF SearchInv, Setup
    <3> QED
      BY <2>2, <3>1, SearchStepIs
  <2>3. CASE MergeResults
    <3>1. UNCHANGED constantVars /\ UNCHANGED <<step, finalized, generated>> /\ stage' = "returned"
      BY <2>3 DEF MergeResults, loopVars
    <3>2. Hypotheses' = Hypotheses /\ Setup' = Setup
      BY <3>1, Constants
    <3>3. SearchInv'
      BY <3>1, <3>2 DEF SearchInv, AliveInv
    <3> QED
      BY <2>1, <3>1, <3>3
  <2>4. CASE UNCHANGED vars
    <3>1. UNCHANGED constantVars /\ UNCHANGED <<finalized, generated>>
      BY <2>4 DEF vars
    <3>2. SearchInv'
      BY <2>4 DEF vars, constantVars, loopVars, SearchInv, AliveInv, Setup, Hypotheses, Positions,
                  PositionInv, Fed, Seen, Whole, Given, Sentence, Run
    <3> QED
      BY <2>1, <3>1, <3>2
  <2> QED
    BY <2>2, <2>3, <2>4 DEF Next, Terminated
<1> QED
  BY <1>1, <1>2, PTL DEF Spec, ImplementsIndependentDecoding, Alone!Spec

-----------------------------------------------------------------------------
(* The hypotheses of a sentence.                                           *)

LEMMA PlacesAre ==
  ASSUME NEW l \in Nat, NEW n \in Nat \ {0}
  PROVE  /\ \A k \in 1 .. l, p \in 1 .. n :
              (k - 1) * n + p \in 1 .. l * n /\ SentenceOf((k - 1) * n + p, n) = k
         /\ \A h \in 1 .. l * n : \E p \in 1 .. n : h = (SentenceOf(h, n) - 1) * n + p
<1>1. ASSUME NEW k \in 1 .. l, NEW p \in 1 .. n
      PROVE  (k - 1) * n + p \in 1 .. l * n /\ SentenceOf((k - 1) * n + p, n) = k
  <2>1. PICK q \in Nat : q = k - 1
    OBVIOUS
  <2>2. PICK x \in Nat : x = q * n
    <3>1. q * n \in Nat
      OBVIOUS
    <3> QED
      BY <3>1
  <2>3. x + n <= l * n
    <3>1. q + 1 <= l
      BY <2>1
    <3>2. (q + 1) * n <= l * n
      BY <3>1, GrowFactor
    <3>3. (q + 1) * n = q * n + n
      OBVIOUS
    <3> QED
      BY <2>2, <3>2, <3>3
  <2>4. x + p \in 1 .. l * n
    <3>1. l * n \in Nat
      OBVIOUS
    <3> QED
      BY <2>2, <2>3, <3>1
  <2>5. ((x + p) - 1) \div n = q
    <3>1. PICK y \in Nat : y = (x + p) - 1 /\ y >= x /\ y < x + n
      <4>1. (x + p) - 1 \in Nat /\ (x + p) - 1 >= x /\ (x + p) - 1 < x + n
        OBVIOUS
      <4> QED
        BY <4>1
    <3>2. PICK d \in Nat : d = y \div n
      OBVIOUS
    <3>3. y = n * d + (y % n) /\ y % n \in 0 .. n - 1
      BY <3>2
    <3>4. n * d = d * n /\ n * d \in Nat
      OBVIOUS
    <3>5. d * n < (q + 1) * n /\ q * n < (d + 1) * n
      <4>1. (q + 1) * n = x + n /\ (d + 1) * n = d * n + n
        BY <2>2
      <4> QED
        BY <2>2, <3>1, <3>3, <3>4, <4>1
    <3>6. ~(q + 1 <= d)
      <4>1. SUFFICES ASSUME q + 1 <= d PROVE FALSE
        OBVIOUS
      <4>2. (q + 1) * n <= d * n
        BY <4>1, GrowFactor
      <4>3. (q + 1) * n \in Int /\ d * n \in Int
        OBVIOUS
      <4> QED
        BY <3>5, <4>2, <4>3
    <3>7. ~(d + 1 <= q)
      <4>1. SUFFICES ASSUME d + 1 <= q PROVE FALSE
        OBVIOUS
      <4>2. (d + 1) * n <= q * n
        BY <4>1, GrowFactor
      <4>3. (d + 1) * n \in Int /\ q * n \in Int
        OBVIOUS
      <4> QED
        BY <3>5, <4>2, <4>3
    <3> QED
      BY <3>1, <3>2, <3>6, <3>7
  <2> QED
    BY <2>1, <2>2, <2>4, <2>5 DEF SentenceOf
<1>2. ASSUME NEW h \in 1 .. l * n
      PROVE  \E p \in 1 .. n : h = (SentenceOf(h, n) - 1) * n + p
  <2>1. PICK x \in Nat : x = h - 1
    <3>1. l * n \in Nat
      OBVIOUS
    <3>2. h - 1 \in Nat
      BY <3>1
    <3> QED
      BY <3>2
  <2>2. PICK q \in Nat : q = x \div n
    OBVIOUS
  <2>3. PICK m \in 0 .. n - 1 : m = x % n
    OBVIOUS
  <2>4. x = n * q + m
    BY <2>2, <2>3
  <2>5. SentenceOf(h, n) - 1 = q
    BY <2>1, <2>2 DEF SentenceOf
  <2>6. n * q = q * n /\ q * n \in Nat
    OBVIOUS
  <2>7. m + 1 \in 1 .. n /\ h = q * n + (m + 1)
    <3>1. l * n \in Nat
      OBVIOUS
    <3>2. h \in Nat
      BY <3>1
    <3> QED
      BY <2>1, <2>4, <2>6, <3>2
  <2> QED
    BY <2>5, <2>7
<1> QED
  BY <1>1, <1>2

Place(k, n) == (k - 1) * options.numHypotheses + n

LEMMA MineIs ==
  ASSUME Setup, NEW k \in 1 .. Len(Run)
  PROVE  {h \in Hypotheses : Sentence(h) = k} = {Place(k, n) : n \in 1 .. request.numHypotheses}
<1>1. PICK l \in Nat : l = Len(Run)
  BY ArgumentsAre
<1>2. PICK n \in Nat \ {0} : n = request.numHypotheses /\ n = options.numHypotheses
  BY ArgumentsAre
<1>3. Hypotheses = 1 .. l * n /\ \A h : Sentence(h) = SentenceOf(h, n)
  BY <1>1, <1>2, HypothesesAre DEF Sentence
<1>4. \A p : Place(k, p) = (k - 1) * n + p
  BY <1>2 DEF Place
<1>5. /\ \A p \in 1 .. n : (k - 1) * n + p \in 1 .. l * n /\ SentenceOf((k - 1) * n + p, n) = k
      /\ \A h \in 1 .. l * n : \E p \in 1 .. n : h = (SentenceOf(h, n) - 1) * n + p
  <2>1. k \in 1 .. l
    BY <1>1
  <2>2. /\ \A b \in 1 .. l, p \in 1 .. n :
             (b - 1) * n + p \in 1 .. l * n /\ SentenceOf((b - 1) * n + p, n) = b
        /\ \A h \in 1 .. l * n : \E p \in 1 .. n : h = (SentenceOf(h, n) - 1) * n + p
    BY PlacesAre, Zenon
  <2> QED
    BY <2>1, <2>2, Zenon
<1>6. ASSUME NEW p \in 1 .. n PROVE Place(k, p) \in Hypotheses /\ Sentence(Place(k, p)) = k
  BY <1>3, <1>4, <1>5
<1>7. ASSUME NEW h \in Hypotheses, Sentence(h) = k PROVE \E p \in 1 .. n : h = Place(k, p)
  BY <1>3, <1>4, <1>5, <1>7
<1> QED
  BY <1>2, <1>6, <1>7

(* A hypothesis is a sequence of outputs with a score.                     *)
IsHypothesis(h) ==
  \E t \in Seq(Free(layer)), s \in Int : hypotheses[h] = [tokens |-> t, score |-> s]

LEMMA HypothesisIs ==
  ASSUME Setup, DecodesAlone(request), NEW h, IsHypothesis(h)
  PROVE  /\ IsResult(hypotheses[h])
         /\ Restored(hypotheses[h]) = [tokens |-> MapBack(layer, hypotheses[h].tokens),
                                       score |-> hypotheses[h].score]
         /\ Len(Restored(hypotheses[h]).tokens) = Len(hypotheses[h].tokens)
         /\ Restored(hypotheses[h]).tokens = <<>> <=> hypotheses[h].tokens = <<>>
<1>1. PICK t \in Seq(Free(layer)), s \in Int : hypotheses[h] = [tokens |-> t, score |-> s]
  BY DEF IsHypothesis
<1>2. PICK n \in Nat : n = Len(t) /\ DOMAIN t = 1 .. n
  OBVIOUS
<1>3. Free(layer) \subseteq Int
  <2>1. Free(layer) \subseteq Outputs(layer)
    BY DEF Free
  <2>2. \A o \in Outputs(layer) : o \in Nat
    BY SetupFits DEF Fits
  <2> QED
    BY <2>1, <2>2
<1>4. t \in Seq(Int)
  BY <1>3, SeqMonotonic
<1>5. Restored(hypotheses[h]) = [tokens |-> [i \in DOMAIN t |-> ToOriginal(layer, t[i])], score |-> s]
  BY <1>1 DEF Restored
<1>6. [i \in DOMAIN t |-> ToOriginal(layer, t[i])] = MapBack(layer, t)
  BY <1>2 DEF MapBack
<1>7. Len(MapBack(layer, t)) = n /\ (MapBack(layer, t) = <<>> <=> n = 0) /\ (t = <<>> <=> n = 0)
  <2>1. MapBack(layer, t) = [i \in 1 .. n |-> ToOriginal(layer, t[i])]
    BY <1>2 DEF MapBack
  <2>2. Len([i \in 1 .. n |-> ToOriginal(layer, t[i])]) = n
    OBVIOUS
  <2>3. [i \in 1 .. n |-> ToOriginal(layer, t[i])] = <<>> <=> n = 0
    OBVIOUS
  <2>4. t = <<>> <=> n = 0
    BY <1>2
  <2> QED
    BY <2>1, <2>2, <2>3, <2>4
<1>8. hypotheses[h].tokens = t /\ hypotheses[h].score = s
  BY <1>1
<1>9. PICK m : m = MapBack(layer, t)
  OBVIOUS
<1>10. Restored(hypotheses[h]) = [tokens |-> m, score |-> s]
  BY <1>5, <1>6, <1>9
<1>11. Restored(hypotheses[h]).tokens = m
  BY <1>10
<1>12. IsResult(hypotheses[h])
  BY <1>4, <1>8 DEF IsResult
<1>13. Len(m) = Len(t) /\ (m = <<>> <=> t = <<>>)
  BY <1>2, <1>7, <1>9
<1> QED
  BY <1>8, <1>9, <1>10, <1>11, <1>12, <1>13

(* The hypotheses of a sentence, from the best to the worst.               *)
IsMergedBy(r, result, k) ==
  LET num == request.numHypotheses
  IN  /\ r \in [1 .. num -> 1 .. num] /\ \A p \in 1 .. num : \E n \in 1 .. num : r[n] = p
      /\ \A m, n \in 1 .. num : m < n =>
           ~BetterScore(hypotheses[Place(k, r[n])], hypotheses[Place(k, r[m])],
                        options.lengthPenalty)
      /\ result = [n \in 1 .. num |-> Restored(hypotheses[Place(k, r[n])])]

LEMMA MergedIs ==
  ASSUME Setup, DecodesAlone(request), NEW k \in 1 .. Len(Run),
         \A h \in Hypotheses : IsHypothesis(h)
  PROVE  \E r : IsMergedBy(r, Merged(k), k)
<1>1. PICK num \in Nat \ {0} : num = request.numHypotheses /\ num = options.numHypotheses
  BY ArgumentsAre
<1> DEFINE hyps == [n \in 1 .. num |-> hypotheses[Place(k, n)]]
           lp == options.lengthPenalty
           r == Ranking(hyps, lp)
           sorted == [n \in 1 .. num |-> hyps[r[n]]]
<1>2. DOMAIN hyps = 1 .. num /\ Len(hyps) = num
  OBVIOUS
<1>3. \A n \in 1 .. num : Place(k, n) \in Hypotheses
  BY <1>1, MineIs
<1>4. \A n \in 1 .. num : IsResult(hyps[n])
  BY <1>3, HypothesisIs
<1>5. IsRanking(r, hyps, num, lp)
  <2> HIDE DEF hyps
  <2> QED
    BY <1>2, <1>4, RankingIs
<1>6. /\ r \in [1 .. num -> 1 .. num] /\ \A p \in 1 .. num : \E n \in 1 .. num : r[n] = p
      /\ \A m, n \in 1 .. num : m < n => ~BetterScore(hyps[r[n]], hyps[r[m]], lp)
  BY <1>5 DEF IsRanking
<1> HIDE DEF r
<1>7. \A n \in 1 .. num : hyps[r[n]] = hypotheses[Place(k, r[n])]
  BY <1>6
<1>8. Finalize(hyps, num, lp) = sorted
  <2>1. Min({num, Len(hyps)}) = num
    <3>1. {num, Len(hyps)} = {num}
      BY <1>2
    <3> QED
      BY <3>1 DEF Min
  <2> HIDE DEF hyps
  <2> QED
    BY <2>1 DEF Finalize, r
<1>9. Merged(k) = [n \in DOMAIN sorted |-> Restored(sorted[n])]
  <2>1. hyps = [n \in 1 .. options.numHypotheses |->
                  hypotheses[(k - 1) * options.numHypotheses + n]]
    BY <1>1 DEF Place
  <2> HIDE DEF hyps, sorted
  <2> QED
    BY <1>1, <1>8, <2>1 DEF Merged
<1>10. Merged(k) = [n \in 1 .. num |-> Restored(hypotheses[Place(k, r[n])])]
  BY <1>7, <1>9
<1>11. \A m, n \in 1 .. num : m < n =>
         ~BetterScore(hypotheses[Place(k, r[n])], hypotheses[Place(k, r[m])], lp)
  BY <1>6, <1>7
<1> HIDE DEF hyps
<1> QED
  <2>1. IsMergedBy(r, Merged(k), k)
    BY <1>1, <1>6, <1>10, <1>11 DEF IsMergedBy
  <2> QED
    BY <2>1

-----------------------------------------------------------------------------
(* Sums, and texts without some tokens, grow with their last entry.        *)

IsSum(f, l, numbers) ==
  f = [k \in 0 .. l |-> IF k = 0 THEN 0 ELSE f[k - 1] + numbers[k]]

LEMMA SumExists ==
  ASSUME NEW l \in Nat, NEW numbers
  PROVE  \E f : IsSum(f, l, numbers)
<1> DEFINE E == {m \in 0 .. l : \E f : IsSum(f, m, numbers)}
           Item(h, k) == IF k = 0 THEN 0 ELSE h[k - 1] + numbers[k]
<1>1. 0 \in E
  <2> DEFINE f == [k \in 0 .. 0 |-> 0]
  <2>1. f = [k \in 0 .. 0 |-> Item(f, k)]
    OBVIOUS
  <2>2. IsSum(f, 0, numbers)
    BY <2>1 DEF IsSum
  <2> QED
    BY <2>2
<1>2. ASSUME NEW m \in 0 .. l - 1, m \in E PROVE m + 1 \in E
  <2>1. PICK f : IsSum(f, m, numbers)
    BY <1>2
  <2>2. f = [k \in 0 .. m |-> Item(f, k)]
    BY <2>1 DEF IsSum
  <2> DEFINE g == [k \in 0 .. m + 1 |-> IF k = m + 1 THEN Item(f, m + 1) ELSE f[k]]
  <2>3. ASSUME NEW k \in 0 .. m + 1 PROVE g[k] = Item(g, k)
    <3>1. CASE k = m + 1
      BY <3>1
    <3>2. CASE k # m + 1
      <4>1. k \in 0 .. m /\ g[k] = f[k]
        BY <3>2
      <4>2. k # 0 => g[k - 1] = f[k - 1]
        BY <4>1
      <4>3. f[k] = Item(f, k)
        BY <2>2, <4>1
      <4> QED
        BY <4>1, <4>2, <4>3
    <3> QED
      BY <3>1, <3>2
  <2>4. g = [k \in 0 .. m + 1 |-> Item(g, k)]
    BY <2>3
  <2>5. IsSum(g, m + 1, numbers)
    BY <2>4 DEF IsSum
  <2>6. m + 1 \in 0 .. l
    OBVIOUS
  <2> HIDE DEF g
  <2> QED
    BY <2>5, <2>6
<1>3. l \in E
  <2> HIDE DEF E
  <2>1. \A m \in 0 .. l : m \in E
    BY <1>1, <1>2, Induction
  <2> QED
    BY <2>1
<1> QED
  BY <1>3

LEMMA SumIs ==
  ASSUME NEW numbers \in Seq(Int)
  PROVE  \E f : /\ SumOf(numbers) = f[Len(numbers)] /\ f[0] = 0
                /\ \A k \in 1 .. Len(numbers) : f[k] = f[k - 1] + numbers[k]
                /\ \A k \in 0 .. Len(numbers) : f[k] \in Int
<1> DEFINE Sum == CHOOSE Sum : Sum = [k \in 0 .. Len(numbers) |->
                    IF k = 0 THEN 0 ELSE Sum[k - 1] + numbers[k]]
           E == {m \in 0 .. Len(numbers) : Sum[m] \in Int}
<1>1. \E f : f = [k \in 0 .. Len(numbers) |-> IF k = 0 THEN 0 ELSE f[k - 1] + numbers[k]]
  <2>1. \E f : IsSum(f, Len(numbers), numbers)
    BY SumExists
  <2> QED
    BY <2>1, Zenon DEF IsSum
<1>2. Sum = [k \in 0 .. Len(numbers) |-> IF k = 0 THEN 0 ELSE Sum[k - 1] + numbers[k]]
  BY <1>1, Zenon
<1>3. SumOf(numbers) = Sum[Len(numbers)]
  BY DEF SumOf
<1> HIDE DEF Sum
<1>4. PICK l \in Nat : l = Len(numbers)
  OBVIOUS
<1>5. Sum[0] = 0 /\ \A k \in 1 .. l : Sum[k] = Sum[k - 1] + numbers[k]
  BY <1>2, <1>4
<1>6. 0 \in E
  BY <1>4, <1>5
<1>7. ASSUME NEW m \in 0 .. l - 1, m \in E PROVE m + 1 \in E
  <2>1. m + 1 \in 1 .. l /\ (m + 1) - 1 = m
    OBVIOUS
  <2>2. Sum[m + 1] = Sum[m] + numbers[m + 1] /\ numbers[m + 1] \in Int
    BY <1>4, <1>5, <2>1
  <2> QED
    BY <1>4, <1>7, <2>1, <2>2
<1>8. \A m \in 0 .. l : m \in E
  <2> HIDE DEF E
  <2> QED
    BY <1>6, <1>7, Induction
<1> QED
  BY <1>3, <1>4, <1>5, <1>8

LEMMA SumAppends ==
  ASSUME NEW numbers \in Seq(Int), NEW x \in Int
  PROVE  /\ SumOf(Append(numbers, x)) = SumOf(numbers) + x
         /\ SumOf(numbers) \in Int
<1>1. PICK f : /\ SumOf(numbers) = f[Len(numbers)] /\ f[0] = 0
               /\ \A k \in 1 .. Len(numbers) : f[k] = f[k - 1] + numbers[k]
               /\ \A k \in 0 .. Len(numbers) : f[k] \in Int
  BY SumIs
<1>2. PICK more \in Seq(Int) : /\ more = Append(numbers, x) /\ Len(more) = Len(numbers) + 1
                                /\ more[Len(numbers) + 1] = x
                                /\ \A k \in 1 .. Len(numbers) : more[k] = numbers[k]
  <2>1. Append(numbers, x) \in Seq(Int) /\ Len(Append(numbers, x)) = Len(numbers) + 1
    OBVIOUS
  <2>2. Append(numbers, x)[Len(numbers) + 1] = x
    OBVIOUS
  <2>3. \A k \in 1 .. Len(numbers) : Append(numbers, x)[k] = numbers[k]
    OBVIOUS
  <2> QED
    BY <2>1, <2>2, <2>3
<1>3. PICK g : /\ SumOf(more) = g[Len(more)] /\ g[0] = 0
               /\ \A k \in 1 .. Len(more) : g[k] = g[k - 1] + more[k]
               /\ \A k \in 0 .. Len(more) : g[k] \in Int
  BY SumIs
<1>4. PICK l \in Nat : l = Len(numbers)
  OBVIOUS
<1> DEFINE E == {m \in 0 .. l : g[m] = f[m]}
<1>5. 0 \in E
  BY <1>1, <1>3
<1>6. ASSUME NEW m \in 0 .. l - 1, m \in E PROVE m + 1 \in E
  <2>1. m + 1 \in 1 .. l /\ m + 1 \in 1 .. Len(more) /\ (m + 1) - 1 = m
    BY <1>2, <1>4
  <2>2. g[m + 1] = g[m] + more[m + 1] /\ f[m + 1] = f[m] + numbers[m + 1]
    BY <1>1, <1>3, <1>4, <2>1
  <2>3. more[m + 1] = numbers[m + 1]
    BY <1>2, <1>4, <2>1
  <2> QED
    BY <1>6, <2>1, <2>2, <2>3
<1>7. \A m \in 0 .. l : m \in E
  <2> HIDE DEF E
  <2> QED
    BY <1>5, <1>6, Induction
<1>8. g[l + 1] = g[l] + x
  <2>1. l + 1 \in 1 .. Len(more) /\ (l + 1) - 1 = l
    BY <1>2, <1>4
  <2> QED
    BY <1>2, <1>3, <1>4, <2>1
<1> QED
  BY <1>1, <1>2, <1>3, <1>4, <1>7, <1>8

LEMMA SumOfNothing == SumOf(<<>>) = 0
<1>1. <<>> \in Seq(Int) /\ Len(<<>>) = 0
  OBVIOUS
<1> QED
  BY <1>1, SumIs

IsLeft(f, l, text, ids) ==
  f = [k \in 0 .. l |-> IF k = 0 THEN <<>>
                        ELSE IF text[k] \in ids THEN f[k - 1] ELSE Append(f[k - 1], text[k])]

LEMMA LeftExists ==
  ASSUME NEW l \in Nat, NEW text, NEW ids
  PROVE  \E f : IsLeft(f, l, text, ids)
<1> DEFINE E == {m \in 0 .. l : \E f : IsLeft(f, m, text, ids)}
           Item(h, k) == IF k = 0 THEN <<>>
                         ELSE IF text[k] \in ids THEN h[k - 1] ELSE Append(h[k - 1], text[k])
<1>1. 0 \in E
  <2> DEFINE f == [k \in 0 .. 0 |-> <<>>]
  <2>1. f = [k \in 0 .. 0 |-> Item(f, k)]
    OBVIOUS
  <2>2. IsLeft(f, 0, text, ids)
    BY <2>1 DEF IsLeft
  <2> QED
    BY <2>2
<1>2. ASSUME NEW m \in 0 .. l - 1, m \in E PROVE m + 1 \in E
  <2>1. PICK f : IsLeft(f, m, text, ids)
    BY <1>2
  <2>2. f = [k \in 0 .. m |-> Item(f, k)]
    BY <2>1 DEF IsLeft
  <2> DEFINE g == [k \in 0 .. m + 1 |-> IF k = m + 1 THEN Item(f, m + 1) ELSE f[k]]
  <2>3. ASSUME NEW k \in 0 .. m + 1 PROVE g[k] = Item(g, k)
    <3>1. CASE k = m + 1
      <4>1. m + 1 # 0 /\ (m + 1) - 1 = m /\ m \in 0 .. m + 1 /\ m # m + 1
        OBVIOUS
      <4>2. g[(m + 1) - 1] = f[(m + 1) - 1] /\ g[k] = Item(f, m + 1)
        BY <3>1, <4>1
      <4> HIDE DEF g
      <4> QED
        BY <3>1, <4>1, <4>2
    <3>2. CASE k # m + 1
      <4>1. k \in 0 .. m /\ g[k] = f[k]
        BY <3>2
      <4>2. k # 0 => g[k - 1] = f[k - 1]
        BY <4>1
      <4>3. f[k] = Item(f, k)
        BY <2>2, <4>1
      <4> HIDE DEF g
      <4> QED
        BY <4>1, <4>2, <4>3
    <3> QED
      BY <3>1, <3>2
  <2>4. g = [k \in 0 .. m + 1 |-> Item(g, k)]
    BY <2>3
  <2>5. IsLeft(g, m + 1, text, ids)
    BY <2>4 DEF IsLeft
  <2>6. m + 1 \in 0 .. l
    OBVIOUS
  <2> HIDE DEF g
  <2> QED
    BY <2>5, <2>6
<1>3. l \in E
  <2> HIDE DEF E
  <2>1. \A m \in 0 .. l : m \in E
    BY <1>1, <1>2, Induction
  <2> QED
    BY <2>1
<1> QED
  BY <1>3

LEMMA LeftIs ==
  ASSUME NEW S, NEW text \in Seq(S), NEW ids
  PROVE  \E f : /\ Without(text, ids) = f[Len(text)] /\ f[0] = <<>>
                /\ \A k \in 1 .. Len(text) :
                     f[k] = IF text[k] \in ids THEN f[k - 1] ELSE Append(f[k - 1], text[k])
<1> DEFINE Left == CHOOSE Left : Left = [k \in 0 .. Len(text) |->
                     IF k = 0 THEN <<>>
                     ELSE IF text[k] \in ids THEN Left[k - 1] ELSE Append(Left[k - 1], text[k])]
<1>1. \E f : f = [k \in 0 .. Len(text) |->
                    IF k = 0 THEN <<>>
                    ELSE IF text[k] \in ids THEN f[k - 1] ELSE Append(f[k - 1], text[k])]
  <2>1. \E f : IsLeft(f, Len(text), text, ids)
    BY LeftExists
  <2> QED
    BY <2>1, Zenon DEF IsLeft
<1>2. Left = [k \in 0 .. Len(text) |->
                IF k = 0 THEN <<>>
                ELSE IF text[k] \in ids THEN Left[k - 1] ELSE Append(Left[k - 1], text[k])]
  BY <1>1, Zenon
<1>3. Without(text, ids) = Left[Len(text)]
  BY DEF Without
<1> HIDE DEF Left
<1>4. PICK l \in Nat : l = Len(text)
  OBVIOUS
<1>5. Left[0] = <<>>
  BY <1>2, <1>4
<1>6. ASSUME NEW k \in 1 .. l
      PROVE  Left[k] = IF text[k] \in ids THEN Left[k - 1] ELSE Append(Left[k - 1], text[k])
  <2>1. k \in 0 .. l /\ k # 0
    OBVIOUS
  <2> QED
    BY <1>2, <1>4, <2>1
<1> QED
  BY <1>3, <1>4, <1>5, <1>6

LEMMA WithoutAppends ==
  ASSUME NEW S, NEW text \in Seq(S), NEW x \in S, NEW ids
  PROVE  Without(Append(text, x), ids) =
           IF x \in ids THEN Without(text, ids) ELSE Append(Without(text, ids), x)
<1>1. PICK f : /\ Without(text, ids) = f[Len(text)] /\ f[0] = <<>>
               /\ \A k \in 1 .. Len(text) :
                    f[k] = IF text[k] \in ids THEN f[k - 1] ELSE Append(f[k - 1], text[k])
  BY LeftIs
<1>2. PICK more \in Seq(S) : /\ more = Append(text, x) /\ Len(more) = Len(text) + 1
                              /\ more[Len(text) + 1] = x
                              /\ \A k \in 1 .. Len(text) : more[k] = text[k]
  <2>1. Append(text, x) \in Seq(S) /\ Len(Append(text, x)) = Len(text) + 1
    OBVIOUS
  <2>2. Append(text, x)[Len(text) + 1] = x
    OBVIOUS
  <2>3. \A k \in 1 .. Len(text) : Append(text, x)[k] = text[k]
    OBVIOUS
  <2> QED
    BY <2>1, <2>2, <2>3
<1>3. PICK g : /\ Without(more, ids) = g[Len(more)] /\ g[0] = <<>>
               /\ \A k \in 1 .. Len(more) :
                    g[k] = IF more[k] \in ids THEN g[k - 1] ELSE Append(g[k - 1], more[k])
  BY LeftIs
<1>4. PICK l \in Nat : l = Len(text)
  OBVIOUS
<1> DEFINE E == {m \in 0 .. l : g[m] = f[m]}
<1>5. 0 \in E
  BY <1>1, <1>3
<1>6. ASSUME NEW m \in 0 .. l - 1, m \in E PROVE m + 1 \in E
  <2>1. m + 1 \in 1 .. l /\ m + 1 \in 1 .. Len(more) /\ (m + 1) - 1 = m
    BY <1>2, <1>4
  <2>2. more[m + 1] = text[m + 1] /\ g[m] = f[m]
    BY <1>2, <1>4, <1>6, <2>1
  <2>3. /\ g[m + 1] = IF more[m + 1] \in ids THEN g[m] ELSE Append(g[m], more[m + 1])
        /\ f[m + 1] = IF text[m + 1] \in ids THEN f[m] ELSE Append(f[m], text[m + 1])
    BY <1>1, <1>3, <1>4, <2>1
  <2> QED
    BY <1>4, <2>1, <2>2, <2>3
<1>7. \A m \in 0 .. l : m \in E
  <2> HIDE DEF E
  <2> QED
    BY <1>5, <1>6, Induction
<1>8. g[l + 1] = IF x \in ids THEN g[l] ELSE Append(g[l], x)
  <2>1. l + 1 \in 1 .. Len(more) /\ (l + 1) - 1 = l
    BY <1>2, <1>4
  <2> QED
    BY <1>2, <1>3, <1>4, <2>1
<1>9. g[l] = f[l]
  BY <1>7
<1> QED
  <2>1. Without(more, ids) = g[l + 1] /\ Without(text, ids) = g[l]
    BY <1>1, <1>2, <1>3, <1>4, <1>9
  <2>2. more = Append(text, x)
    BY <1>2
  <2>3. CASE x \in ids
    BY <1>8, <2>1, <2>2, <2>3
  <2>4. CASE x \notin ids
    BY <1>8, <2>1, <2>2, <2>4
  <2> QED
    BY <2>3, <2>4

LEMMA WithoutNothing == \A ids : Without(<<>>, ids) = <<>>
<1> SUFFICES ASSUME NEW ids PROVE Without(<<>>, ids) = <<>>
  OBVIOUS
<1>1. <<>> \in Seq(Int) /\ Len(<<>>) = 0
  OBVIOUS
<1>2. PICK text \in Seq(Int) : text = <<>>
  BY <1>1
<1>3. PICK f : /\ Without(text, ids) = f[Len(text)] /\ f[0] = <<>>
               /\ \A k \in 1 .. Len(text) :
                    f[k] = IF text[k] \in ids THEN f[k - 1] ELSE Append(f[k - 1], text[k])
  BY LeftIs
<1> QED
  BY <1>1, <1>2, <1>3

-----------------------------------------------------------------------------
(* What is returned of a hypothesis.                                       *)

(* The words that a hypothesis collects.                                   *)
Collected(h) ==
  IF request.kind = "transcribe" THEN Without(generated[h], request.endIds)
  ELSE IF options.returnPrefix THEN generated[h]
  ELSE SubSeq(generated[h], Len(options.prefixes[Sentence(h)]) + 1, Len(generated[h]))

(* The end of a sequence that begins with another one.                     *)
LEMMA EndOfConcat ==
  ASSUME NEW S, NEW a \in Seq(S), NEW b \in Seq(S), NEW n \in Nat \ {0}
  PROVE  SubSeq(a \o b, Len(a) + n, Len(a \o b)) = SubSeq(b, n, Len(b))
<1>1. PICK l \in Nat : l = Len(a)
  OBVIOUS
<1>2. PICK m \in Nat : m = Len(b)
  OBVIOUS
<1>3. PICK c \in Seq(S) : /\ c = a \o b /\ Len(c) = l + m
                           /\ \A i \in 1 .. m : c[l + i] = b[i]
  <2>1. a \o b \in Seq(S) /\ Len(a \o b) = l + m
    BY <1>1, <1>2
  <2>2. \A i \in 1 .. m : (a \o b)[l + i] = b[i]
    BY <1>1, <1>2
  <2> QED
    BY <2>1, <2>2
<1>4. PICK f \in Int : f = l + n
  OBVIOUS
<1>5. PICK e \in Int : e = l + m
  OBVIOUS
<1>6. PICK size \in Nat : size = IF n <= m THEN (m - n) + 1 ELSE 0
  <2>1. (IF n <= m THEN (m - n) + 1 ELSE 0) \in Nat
    OBVIOUS
  <2> QED
    BY <2>1
<1>7. /\ SubSeq(c, f, e) \in Seq(S) /\ Len(SubSeq(c, f, e)) = size
      /\ \A i \in 1 .. size : SubSeq(c, f, e)[i] = b[(n + i) - 1]
  <2>1. \A i \in f .. e : c[i] \in S
    BY <1>3, <1>4, <1>5
  <2>2. /\ SubSeq(c, f, e) \in Seq(S)
        /\ Len(SubSeq(c, f, e)) = IF f <= e THEN e - f + 1 ELSE 0
        /\ \A i \in 1 .. e - f + 1 : SubSeq(c, f, e)[i] = c[f + i - 1]
    BY <2>1, SubSeqProperties
  <2>3. Len(SubSeq(c, f, e)) = size
    BY <1>4, <1>5, <1>6, <2>2
  <2>4. ASSUME NEW i \in 1 .. size PROVE SubSeq(c, f, e)[i] = b[(n + i) - 1]
    <3>1. i \in 1 .. e - f + 1 /\ f + i - 1 = l + ((n + i) - 1) /\ (n + i) - 1 \in 1 .. m
      BY <1>4, <1>5, <1>6
    <3> QED
      BY <1>3, <2>2, <3>1
  <2> QED
    BY <2>2, <2>3, <2>4
<1>8. /\ SubSeq(b, n, m) \in Seq(S) /\ Len(SubSeq(b, n, m)) = size
      /\ \A i \in 1 .. size : SubSeq(b, n, m)[i] = b[(n + i) - 1]
  <2>1. \A i \in n .. m : b[i] \in S
    BY <1>2
  <2>2. /\ SubSeq(b, n, m) \in Seq(S)
        /\ Len(SubSeq(b, n, m)) = IF n <= m THEN m - n + 1 ELSE 0
        /\ \A i \in 1 .. m - n + 1 : SubSeq(b, n, m)[i] = b[n + i - 1]
    BY <2>1, SubSeqProperties
  <2>3. Len(SubSeq(b, n, m)) = size
    BY <1>6, <2>2
  <2>4. ASSUME NEW i \in 1 .. size PROVE SubSeq(b, n, m)[i] = b[(n + i) - 1]
    <3>1. i \in 1 .. m - n + 1 /\ n + i - 1 = (n + i) - 1
      BY <1>6
    <3> QED
      BY <2>2, <3>1
  <2> QED
    BY <2>2, <2>3, <2>4
<1>9. \A i \in 1 .. size : SubSeq(c, f, e)[i] = SubSeq(b, n, m)[i]
  BY <1>7, <1>8
<1>10. SubSeq(c, f, e) = SubSeq(b, n, m)
  BY <1>7, <1>8, <1>9, SeqEqual
<1> QED
  BY <1>1, <1>2, <1>3, <1>4, <1>5, <1>10

LEMMA EndOfWhole ==
  ASSUME Setup, DecodesAlone(request), NEW h \in Hypotheses, generated[h] \in Seq(Known(request))
  PROVE  /\ ForwardLength(request) = 0 => Whole(h) = generated[h]
         /\ SubSeq(Whole(h), Len(Given(Sentence(h))), Len(Whole(h)))
              = SubSeq(generated[h], Len(options.prefixes[Sentence(h)]) + 1, Len(generated[h]))
<1>1. PICK k \in 1 .. Len(Run) : k = Sentence(h)
  BY HypothesesAre
<1>2. PICK from \in Nat : from = ForwardLength(request)
  BY PromptsAre
<1>3. PICK p \in Seq(Known(request)) :
        p = Given(k) /\ from < Len(p) /\ Len(options.prefixes[k]) = Len(p) - from - 1
  BY <1>2, PromptsAre DEF PromptIs
<1> DEFINE first == SubSeq(p, 2, from + 1)
<1>4. first \in Seq(Known(request)) /\ Len(first) = from
  <2>1. PICK e \in Int : e = from + 1
    OBVIOUS
  <2>2. \A i \in 2 .. e : p[i] \in Known(request)
    BY <1>3, <2>1
  <2>3. /\ SubSeq(p, 2, e) \in Seq(Known(request))
        /\ Len(SubSeq(p, 2, e)) = IF 2 <= e THEN e - 2 + 1 ELSE 0
    BY <2>2, SubSeqProperties
  <2> QED
    BY <2>1, <2>3
<1>5. Whole(h) = first \o generated[h]
  BY <1>1, <1>2, <1>3 DEF Whole, Given
<1> HIDE DEF first
<1>6. PICK g \in Seq(Known(request)) : g = generated[h]
  OBVIOUS
<1>7. PICK n \in Nat \ {0} : n = Len(options.prefixes[k]) + 1 /\ Len(p) = from + n
  <2>1. (Len(p) - from - 1) + 1 \in Nat \ {0} /\ Len(p) = from + ((Len(p) - from - 1) + 1)
    BY <1>3
  <2> QED
    BY <1>3, <2>1
<1>8. SubSeq(Whole(h), Len(p), Len(Whole(h))) = SubSeq(g, n, Len(g))
  <2>1. PICK a \in Seq(Known(request)) : a = first /\ Len(a) = from
    BY <1>4
  <2>2. SubSeq(a \o g, Len(a) + n, Len(a \o g)) = SubSeq(g, n, Len(g))
    BY EndOfConcat
  <2>3. Len(a) + n = Len(p) /\ a \o g = Whole(h)
    BY <1>5, <1>6, <1>7, <2>1
  <2> QED
    BY <2>2, <2>3
<1>9. ASSUME from = 0 PROVE Whole(h) = g
  <2>1. first = <<>>
    BY <1>4, <1>9, EmptySeq
  <2>2. <<>> \o g = g
    BY ConcatEmptySeq
  <2> QED
    BY <1>5, <1>6, <2>1, <2>2
<1> QED
  <2>1. ForwardLength(request) = 0 => Whole(h) = generated[h]
    BY <1>2, <1>6, <1>9
  <2>2. Len(options.prefixes[Sentence(h)]) + 1 = n /\ Given(Sentence(h)) = p
    BY <1>1, <1>3, <1>7
  <2> QED
    BY <1>6, <1>8, <2>1, <2>2

LEMMA AnswerIs ==
  ASSUME Setup, DecodesAlone(request), NEW h \in Hypotheses, generated[h] \in Seq(Known(request))
  PROVE  Answer(request, Run[Sentence(h)], Collected(h)) = ShouldReturn(h)
<1> DEFINE b == Run[Sentence(h)]
           p == Given(Sentence(h))
           g == generated[h]
           Stripped(text) == IF request.returnEnd THEN text ELSE WithoutEnd(text, request.endIds)
<1>1. p = request.prompts[b]
  BY DEF Given
<1>2. request.kind \in {"translate", "generate", "transcribe"}
        /\ (request.kind # "transcribe" => request.promptLength = 1)
  BY GreedySearchAssumption DEF Setup, IsRequest
<1>3. options.returnPrefix = ReturnPrefix(request)
  BY ArgumentsAre
<1>4. /\ ForwardLength(request) = 0 => Whole(h) = g
      /\ SubSeq(Whole(h), Len(p), Len(Whole(h)))
           = SubSeq(g, Len(options.prefixes[Sentence(h)]) + 1, Len(g))
  BY EndOfWhole
<1>5. SubSeq(g, 1, Len(g)) = g
  BY SubSeqFull
<1> HIDE DEF p, b, g
<1>6. CASE request.kind = "translate"
  <2>1. Whole(h) = g
    BY <1>4, <1>6 DEF ForwardLength
  <2>2. ShouldReturn(h) = Stripped(Whole(h))
    BY <1>6 DEF ShouldReturn
  <2>3. Collected(h) = g
    BY <1>3, <1>6 DEF Collected, ReturnPrefix, g
  <2>4. \A text : Answer(request, b, text) = Stripped(text)
    BY <1>6 DEF Answer
  <2> HIDE DEF Stripped
  <2> QED
    BY <2>1, <2>2, <2>3, <2>4 DEF b
<1>7. CASE request.kind = "transcribe"
  <2>1. ShouldReturn(h) = Without(SubSeq(Whole(h), request.promptLength, Len(Whole(h))), request.endIds)
    BY <1>7 DEF ShouldReturn
  <2>2. ForwardLength(request) = request.promptLength - 1
    BY <1>7 DEF ForwardLength
  <2>3. SubSeq(Whole(h), request.promptLength, Len(Whole(h))) = g
    BY <2>2, WholeIs DEF g
  <2>4. Collected(h) = Without(g, request.endIds)
    BY <1>7 DEF Collected, g
  <2>5. \A text : Answer(request, b, text) = text
    BY <1>7 DEF Answer
  <2> QED
    BY <2>1, <2>3, <2>4, <2>5 DEF b
<1>8. CASE request.kind = "generate" /\ request.includePrompt
  <2>1. Whole(h) = g /\ ForwardLength(request) = 0
    BY <1>4, <1>8 DEF ForwardLength
  <2>2. ShouldReturn(h) = IF Head(p) = BosId THEN Stripped(Whole(h)) ELSE <<Head(p)>> \o Stripped(Whole(h))
    BY <1>1, <1>8 DEF ShouldReturn, b
  <2>3. Collected(h) = g
    BY <1>3, <1>8, <2>1 DEF Collected, ReturnPrefix, g
  <2>4. \A text : Answer(request, b, text) =
          IF Head(p) # BosId THEN <<Head(p)>> \o Stripped(text) ELSE Stripped(text)
    BY <1>1, <1>8 DEF Answer
  <2> HIDE DEF Stripped
  <2> QED
    BY <2>1, <2>2, <2>3, <2>4 DEF b
<1>9. CASE request.kind = "generate" /\ ~request.includePrompt
  <2>1. ShouldReturn(h) = Stripped(SubSeq(Whole(h), Len(p), Len(Whole(h))))
    BY <1>1, <1>9 DEF ShouldReturn, b
  <2>2. \A text : Answer(request, b, text) = Stripped(text)
    BY <1>9 DEF Answer
  <2>3. Collected(h) = SubSeq(Whole(h), Len(p), Len(Whole(h)))
    <3>1. CASE ForwardLength(request) = 0
      <4>1. \A x \in Sentences(request) : Len(request.prompts[x]) = 1
        BY <1>9, <3>1 DEF DecodesAlone, RulesSeeTheText
      <4>2. b \in Sentences(request)
        BY HypothesesAre, PromptsAre DEF PromptIs, b
      <4>3. Len(p) = 1
        BY <1>1, <4>1, <4>2
      <4>4. Collected(h) = g
        BY <1>3, <1>9, <3>1 DEF Collected, ReturnPrefix, g
      <4> QED
        BY <1>4, <1>5, <3>1, <4>3, <4>4
    <3>2. CASE ForwardLength(request) # 0
      <4>1. Collected(h) = SubSeq(g, Len(options.prefixes[Sentence(h)]) + 1, Len(g))
        BY <1>3, <1>9, <3>2 DEF Collected, ReturnPrefix, g
      <4> QED
        BY <1>4, <4>1
    <3> QED
      BY <3>1, <3>2
  <2> HIDE DEF Stripped
  <2> QED
    BY <2>1, <2>2, <2>3 DEF b
<1> QED
  BY <1>2, <1>6, <1>7, <1>8, <1>9 DEF b

-----------------------------------------------------------------------------
(* What a hypothesis collects and scores.                                  *)

Gains(h) == [n \in DOMAIN generated[h] |-> Gain(h, n)]

HypothesisInv(h) ==
  /\ generated[h] \in Seq(Known(request))
  /\ IsHypothesis(h)
  /\ MapBack(layer, hypotheses[h].tokens) = Collected(h)
  /\ Gains(h) \in Seq(Int)
  /\ hypotheses[h].score = SumOf(Gains(h))

(* The beginning of a text does not depend on its last token.              *)
LEMMA BeginningStays ==
  ASSUME NEW S, NEW s \in Seq(S), NEW x \in S, NEW n \in 0 .. Len(s)
  PROVE  SubSeq(Append(s, x), 1, n) = SubSeq(s, 1, n) /\ SubSeq(Append(s, x), 1, Len(s)) = s
<1>1. PICK l \in Nat : l = Len(s)
  OBVIOUS
<1>2. PICK a \in Seq(S) : a = Append(s, x) /\ Len(a) = l + 1 /\ \A i \in 1 .. l : a[i] = s[i]
  <2>1. Append(s, x) \in Seq(S) /\ Len(Append(s, x)) = l + 1
    BY <1>1
  <2>2. \A i \in 1 .. l : Append(s, x)[i] = s[i]
    BY <1>1
  <2> QED
    BY <2>1, <2>2
<1>3. ASSUME NEW m \in 0 .. l PROVE SubSeq(a, 1, m) = SubSeq(s, 1, m)
  <2>1. \A i \in 1 .. m : a[i] \in S /\ s[i] \in S
    BY <1>1, <1>2
  <2>2. /\ SubSeq(a, 1, m) \in Seq(S)
        /\ Len(SubSeq(a, 1, m)) = IF 1 <= m THEN m - 1 + 1 ELSE 0
        /\ \A i \in 1 .. m - 1 + 1 : SubSeq(a, 1, m)[i] = a[1 + i - 1]
    BY <2>1, SubSeqProperties
  <2>3. /\ SubSeq(s, 1, m) \in Seq(S)
        /\ Len(SubSeq(s, 1, m)) = IF 1 <= m THEN m - 1 + 1 ELSE 0
        /\ \A i \in 1 .. m - 1 + 1 : SubSeq(s, 1, m)[i] = s[1 + i - 1]
    BY <2>1, SubSeqProperties
  <2>4. m - 1 + 1 = m /\ \A i \in 1 .. m : 1 + i - 1 = i /\ i \in 1 .. l
    OBVIOUS
  <2>5. Len(SubSeq(a, 1, m)) = m /\ Len(SubSeq(s, 1, m)) = m
    BY <2>2, <2>3
  <2>6. \A i \in 1 .. m : SubSeq(a, 1, m)[i] = SubSeq(s, 1, m)[i]
    BY <1>2, <2>2, <2>3, <2>4
  <2> QED
    BY <2>2, <2>3, <2>5, <2>6, SeqEqual
<1>4. SubSeq(s, 1, l) = s
  BY <1>1, SubSeqFull
<1>5. SubSeq(a, 1, l) = s
  BY <1>3, <1>4
<1> QED
  BY <1>1, <1>2, <1>3, <1>5

(* The end of a text with its last token.                                  *)
LEMMA EndGrows ==
  ASSUME NEW S, NEW s \in Seq(S), NEW x \in S, NEW n \in Nat
  PROVE  SubSeq(Append(s, x), n + 1, Len(Append(s, x)))
           = IF n <= Len(s) THEN Append(SubSeq(s, n + 1, Len(s)), x)
             ELSE SubSeq(s, n + 1, Len(s))
<1>1. PICK l \in Nat : l = Len(s)
  OBVIOUS
<1>2. PICK a \in Seq(S) : /\ a = Append(s, x) /\ Len(a) = l + 1 /\ a[l + 1] = x
                           /\ \A i \in 1 .. l : a[i] = s[i]
  <2>1. Append(s, x) \in Seq(S) /\ Len(Append(s, x)) = l + 1 /\ Append(s, x)[l + 1] = x
    BY <1>1
  <2>2. \A i \in 1 .. l : Append(s, x)[i] = s[i]
    BY <1>1
  <2> QED
    BY <2>1, <2>2
<1>3. PICK f \in Int : f = n + 1
  OBVIOUS
<1>4. PICK e \in Int : e = l + 1
  OBVIOUS
<1>5. /\ SubSeq(a, f, e) \in Seq(S)
      /\ Len(SubSeq(a, f, e)) = IF f <= e THEN e - f + 1 ELSE 0
      /\ \A i \in 1 .. e - f + 1 : SubSeq(a, f, e)[i] = a[f + i - 1]
  <2>1. \A i \in f .. e : a[i] \in S
    BY <1>2, <1>3, <1>4
  <2> QED
    BY <2>1, SubSeqProperties
<1>6. /\ SubSeq(s, f, l) \in Seq(S)
      /\ Len(SubSeq(s, f, l)) = IF f <= l THEN l - f + 1 ELSE 0
      /\ \A i \in 1 .. l - f + 1 : SubSeq(s, f, l)[i] = s[f + i - 1]
  <2>1. \A i \in f .. l : s[i] \in S
    BY <1>1, <1>3
  <2> QED
    BY <2>1, SubSeqProperties
<1>7. CASE n <= l
  <2>1. PICK d \in Nat : d = l - n
    BY <1>7
  <2>2. PICK t \in Seq(S) : t = SubSeq(s, f, l)
    BY <1>6
  <2>3. Len(t) = d /\ \A i \in 1 .. d : t[i] = s[n + i]
    <3>1. Len(t) = d /\ l - f + 1 = d
      BY <1>3, <1>6, <2>1, <2>2
    <3>2. \A i \in 1 .. d : f + i - 1 = n + i
      BY <1>3
    <3> QED
      BY <1>6, <2>2, <3>1, <3>2
  <2>4. Append(t, x) \in Seq(S) /\ Len(Append(t, x)) = d + 1 /\ Append(t, x)[d + 1] = x
          /\ \A i \in 1 .. d : Append(t, x)[i] = s[n + i]
    BY <2>3
  <2>5. Len(SubSeq(a, f, e)) = d + 1 /\ e - f + 1 = d + 1
    BY <1>3, <1>4, <1>5, <1>7, <2>1
  <2>6. ASSUME NEW i \in 1 .. d + 1 PROVE SubSeq(a, f, e)[i] = Append(t, x)[i]
    <3>1. f + i - 1 = n + i
      BY <1>3
    <3>2. SubSeq(a, f, e)[i] = a[n + i]
      BY <1>5, <2>5, <3>1
    <3>3. CASE i = d + 1
      <4>1. n + i = l + 1
        BY <2>1, <3>3
      <4> QED
        BY <1>2, <2>4, <3>2, <3>3, <4>1
    <3>4. CASE i # d + 1
      <4>1. i \in 1 .. d /\ n + i \in 1 .. l
        BY <2>1, <3>4
      <4> QED
        BY <1>2, <2>4, <3>2, <4>1
    <3> QED
      BY <3>3, <3>4
  <2>7. SubSeq(a, f, e) = Append(t, x)
    BY <1>5, <2>4, <2>5, <2>6, SeqEqual
  <2> QED
    BY <1>1, <1>2, <1>3, <1>4, <1>7, <2>2, <2>7
<1>8. CASE ~(n <= l)
  <2>1. Len(SubSeq(a, f, e)) = 0 /\ Len(SubSeq(s, f, l)) = 0
    BY <1>3, <1>4, <1>5, <1>6, <1>8
  <2>2. SubSeq(a, f, e) = <<>> /\ SubSeq(s, f, l) = <<>>
    BY <1>5, <1>6, <2>1, EmptySeq
  <2> QED
    BY <1>1, <1>2, <1>3, <1>4, <1>8, <2>2
<1> QED
  BY <1>7, <1>8

LEMMA LengthsAre ==
  ASSUME Setup, DecodesAlone(request), NEW i \in Positions, PositionInv(i), step \in Nat,
         NEW h \in Hypotheses, h = batchOffset[i]
  PROVE  /\ PrefixLength(i) = Len(options.prefixes[Sentence(h)])
         /\ PrefixLength(i) \in Nat /\ ForwardLength(request) \in Nat
         /\ Len(Given(Sentence(h))) = ForwardLength(request) + PrefixLength(i) + 1
         /\ generated[h] \in Seq(Known(request)) /\ Len(generated[h]) = step
         /\ aliveSeq[i] \in Seq(Free(layer)) /\ generated[h] = MapBack(layer, aliveSeq[i])
         /\ Whole(h) \in Seq(Known(request)) /\ Len(Whole(h)) = ForwardLength(request) + step
         /\ \E o : o \in Free(layer)
<1>1. PrefixLength(i) = Len(options.prefixes[Sentence(h)])
  BY DEF PrefixLength, Prefix
<1>2. PICK k \in 1 .. Len(Run) : k = Sentence(h)
  BY HypothesesAre
<1>3. PICK from \in Nat : from = ForwardLength(request)
  BY PromptsAre
<1>4. PICK p \in Seq(Known(request)) :
        p = Given(k) /\ from < Len(p) /\ Len(options.prefixes[k]) = Len(p) - from - 1
  BY <1>3, PromptsAre DEF PromptIs
<1>5. PrefixLength(i) \in Nat /\ Len(p) = from + PrefixLength(i) + 1
  <2>1. PICK l \in Nat : l = Len(p)
    OBVIOUS
  <2>2. l - from - 1 \in Nat /\ l = from + (l - from - 1) + 1
    BY <1>4, <2>1
  <2> QED
    BY <1>1, <1>2, <1>4, <2>1, <2>2
<1>6. generated[h] = MapBack(layer, aliveSeq[i])
          /\ aliveSeq[i] \in Seq(Free(layer)) /\ Len(aliveSeq[i]) = step
  BY DEF PositionInv
<1>7. \E o : o \in Free(layer)
  <2>1. p[1] \in Known(request)
    BY <1>3, <1>4
  <2> QED
    BY <2>1, SetupFits DEF Fits
<1>8. generated[h] \in Seq(Known(request))
  BY <1>6, <1>7, SetupFits, TextIs
<1>9. Len(generated[h]) = step
  BY <1>6 DEF MapBack
<1>10. Whole(h) \in Seq(Known(request)) /\ Len(Whole(h)) = ForwardLength(request) + step
  BY <1>8, <1>9, WholeIs
<1> QED
  BY <1>1, <1>2, <1>3, <1>4, <1>5, <1>6, <1>7, <1>8, <1>9, <1>10

(* What a token adds to the score in the search.                           *)
Increase(h, w) ==
  IF w \in Range(generated[h]) THEN request.repetition * LogProbOf(h, w) ELSE LogProbOf(h, w)

LEMMA ScoreOfIs ==
  ASSUME Setup, DecodesAlone(request), NEW i \in Positions, PositionInv(i), step \in Nat,
         NEW h \in Hypotheses, h = batchOffset[i], NEW o \in WordChoices(i)
  PROVE  /\ ScoreOf(i, o) \in Int
         /\ step < PrefixLength(i) => ScoreOf(i, o) = 0
         /\ ~(step < PrefixLength(i)) => ScoreOf(i, o) = Increase(h, ToOriginal(layer, o))
<1> DEFINE w == ToOriginal(layer, o)
           r == request.repetition
<1>1. CASE step < PrefixLength(i)
  BY <1>1 DEF ScoreOf
<1>2. CASE ~(step < PrefixLength(i))
  <2>1. o \in Sampled(i)
    BY <1>2 DEF WordChoices
  <2>2. o \in Outputs(layer) /\ Score(i, o) > Penalised
    BY <2>1 DEF Sampled
  <2>3. o \in Free(layer) /\ Score(i, o) \in Int /\ Score(i, o) = Chance(h, w)
    BY <2>2, ScoresAre
  <2>4. /\ generated[h] \in Seq(Known(request)) /\ w \in Words
    BY <2>3, LengthsAre, SetupFits DEF Fits
  <2>5. r \in Nat \ {0} /\ LogProbOf(h, w) \in Int
    BY <2>4, LogProbIs
  <2>6. Chance(h, w) = Increase(h, w)
    <3>1. CASE r = 1
      <4>1. r * LogProbOf(h, w) = LogProbOf(h, w)
        BY <2>5, <3>1
      <4>2. Chance(h, w) = LogProbOf(h, w)
        BY <4>1 DEF Chance
      <4>3. Increase(h, w) = LogProbOf(h, w)
        BY <4>1 DEF Increase
      <4> QED
        BY <4>2, <4>3
    <3>2. CASE r # 1
      <4>1. ForwardLength(request) = request.promptLength - 1
        BY <3>2 DEF DecodesAlone, RulesSeeTheText
      <4>2. Alone!History(h) = generated[h]
        BY <2>4, <4>1, AloneIs, WholeIs
      <4> QED
        BY <4>2 DEF Chance, Increase
    <3> QED
      BY <3>1, <3>2
  <2>7. ScoreOf(i, o) = Score(i, o)
    BY <1>2 DEF ScoreOf
  <2> QED
    BY <1>2, <2>3, <2>6, <2>7
<1> QED
  BY <1>1, <1>2

LEMMA GainGrows ==
  ASSUME SearchInv, DecodesAlone(request), stage = "searching", NEW words, NEW stops,
         GiveWords(words, stops), \A j \in Positions : words[j] \in WordChoices(j),
         NEW i \in Positions, NEW h \in Hypotheses, h = batchOffset[i], Gains(h) \in Seq(Int)
  PROVE  Gains(h)' = Append(Gains(h), ScoreOf(i, words[i])) /\ ScoreOf(i, words[i]) \in Int
<1>1. /\ Setup /\ step \in Nat /\ PositionInv(i)
  BY DEF SearchInv, AliveInv
<1>2. UNCHANGED constantVars /\ generated'[h] = Append(generated[h], ToOriginal(layer, words[i]))
        /\ Whole(h)' = Append(Whole(h), ToOriginal(layer, words[i])) /\ words[i] \in Free(layer)
  BY WordsAreGiven
<1>3. /\ request' = request /\ model' = model /\ Run' = Run /\ Sentence(h)' = Sentence(h)
  BY <1>2, Constants
<1>4. /\ PrefixLength(i) \in Nat /\ ForwardLength(request) \in Nat
      /\ Len(Given(Sentence(h))) = ForwardLength(request) + PrefixLength(i) + 1
      /\ generated[h] \in Seq(Known(request)) /\ Len(generated[h]) = step
      /\ Whole(h) \in Seq(Known(request)) /\ Len(Whole(h)) = ForwardLength(request) + step
  BY <1>1, LengthsAre
<1>5. PICK w \in Known(request) : w = ToOriginal(layer, words[i])
  BY <1>1, <1>2, SetupFits DEF Fits
<1>6. PICK g \in Seq(Known(request)) : g = generated[h]
  BY <1>4
<1>7. PICK more \in Seq(Known(request)) :
        /\ more = Append(g, w) /\ Len(more) = step + 1 /\ more[step + 1] = w
        /\ \A n \in 1 .. step : more[n] = g[n]
  <2>1. Append(g, w) \in Seq(Known(request)) /\ Len(Append(g, w)) = Len(g) + 1
          /\ Append(g, w)[Len(g) + 1] = w /\ \A n \in 1 .. Len(g) : Append(g, w)[n] = g[n]
    OBVIOUS
  <2> QED
    BY <1>4, <1>6, <2>1
<1>8. PICK from \in Nat : from = ForwardLength(request)
  BY <1>4
<1> DEFINE start == request.static \o <<Head(Given(Sentence(h)))>>
           Seeing(whole, n) == start \o SubSeq(whole, 1, from + n - 1)
           Chances(whole, n) == model[Run[Sentence(h)]][Digest(Seeing(whole, n), VocabularySize)]
           Gaining(text, whole, n) ==
             IF from + n < Len(Given(Sentence(h))) THEN 0
             ELSE IF \E m \in 1 .. n - 1 : text[m] = text[n]
                    THEN request.repetition * Chances(whole, n)[text[n]]
             ELSE Chances(whole, n)[text[n]]
<1>9. \A n : Gain(h, n) = Gaining(g, Whole(h), n)
  BY <1>6, <1>8 DEF Gain, Given
<1>10. \A n : Gain(h, n)' = Gaining(more, Append(Whole(h), w), n)
  BY <1>2, <1>3, <1>5, <1>6, <1>7, <1>8 DEF Gain, Given
<1>11. ASSUME NEW n \in 1 .. step PROVE Gain(h, n)' = Gain(h, n)
  <2>1. more[n] = g[n] /\ \A m \in 1 .. n - 1 : more[m] = g[m]
    BY <1>1, <1>7
  <2>2. SubSeq(Append(Whole(h), w), 1, from + n - 1) = SubSeq(Whole(h), 1, from + n - 1)
    <3>1. from + n - 1 \in 0 .. Len(Whole(h))
      BY <1>4, <1>8
    <3> QED
      BY <1>4, <3>1, BeginningStays
  <2>3. Chances(Append(Whole(h), w), n) = Chances(Whole(h), n)
    BY <2>2
  <2> HIDE DEF Chances
  <2>4. Gaining(more, Append(Whole(h), w), n) = Gaining(g, Whole(h), n)
    BY <2>1, <2>3
  <2> QED
    BY <1>9, <1>10, <2>4
<1>12. PICK last \in Nat : last = step + 1
  BY <1>1
<1>13. Gain(h, last)' = ScoreOf(i, words[i])
  <2>1. from + last - 1 = Len(Whole(h))
    BY <1>1, <1>4, <1>8, <1>12
  <2>2. Seeing(Append(Whole(h), w), last) = Seen(h)
    <3>1. SubSeq(Append(Whole(h), w), 1, Len(Whole(h))) = Whole(h)
      <4>1. 0 \in 0 .. Len(Whole(h))
        BY <1>4, <1>8
      <4> QED
        BY <1>4, <4>1, BeginningStays
    <3> QED
      BY <2>1, <3>1 DEF Seen
  <2>3. Chances(Append(Whole(h), w), last)[w] = LogProbOf(h, w)
    BY <2>2 DEF LogProbOf
  <2>4. (\E m \in 1 .. last - 1 : more[m] = more[last]) <=> w \in Range(g)
    <3>1. last - 1 = step
      BY <1>1, <1>12
    <3>2. Len(g) = step
      BY <1>4, <1>6
    <3>3. DOMAIN g = 1 .. Len(g)
      OBVIOUS
    <3>4. DOMAIN g = 1 .. last - 1 /\ more[last] = w /\ \A m \in 1 .. last - 1 : more[m] = g[m]
      BY <1>7, <1>12, <3>1, <3>2, <3>3
    <3> QED
      BY <3>4 DEF Range
  <2>5. from + last < Len(Given(Sentence(h))) <=> step < PrefixLength(i)
    BY <1>1, <1>4, <1>8, <1>12
  <2> HIDE DEF Chances
  <2>6. CASE step < PrefixLength(i)
    <3>1. Gain(h, last)' = 0
      BY <1>10, <2>5, <2>6
    <3> QED
      BY <1>1, <2>6, <3>1, ScoreOfIs
  <2>7. CASE ~(step < PrefixLength(i))
    <3>1. Gain(h, last)' =
            IF \E m \in 1 .. last - 1 : more[m] = more[last]
              THEN request.repetition * Chances(Append(Whole(h), w), last)[more[last]]
            ELSE Chances(Append(Whole(h), w), last)[more[last]]
      BY <1>10, <2>5, <2>7
    <3>2. more[last] = w
      BY <1>7, <1>12
    <3>3. w \in Range(g) => Gain(h, last)' = request.repetition * LogProbOf(h, w)
      BY <2>3, <2>4, <3>1, <3>2
    <3>4. w \notin Range(g) => Gain(h, last)' = LogProbOf(h, w)
      BY <2>3, <2>4, <3>1, <3>2
    <3>5. Gain(h, last)' = Increase(h, w)
      BY <1>6, <3>3, <3>4 DEF Increase
    <3> QED
      BY <1>1, <1>5, <2>7, <3>5, ScoreOfIs
  <2> QED
    BY <2>6, <2>7
<1>14. ScoreOf(i, words[i]) \in Int
  BY <1>1, ScoreOfIs
<1>15. Gains(h)' = [n \in 1 .. last |-> Gain(h, n)']
  BY <1>2, <1>5, <1>6, <1>7, <1>12 DEF Gains
<1>16. PICK s \in Seq(Int) : s = Gains(h) /\ Len(s) = step /\ \A n \in 1 .. step : s[n] = Gain(h, n)
  <2>1. DOMAIN g = 1 .. step
    BY <1>4, <1>6
  <2>2. Gains(h) = [n \in 1 .. step |-> Gain(h, n)]
    BY <1>6, <2>1 DEF Gains
  <2>3. Len([n \in 1 .. step |-> Gain(h, n)]) = step
    BY <1>1
  <2> QED
    BY <2>2, <2>3
<1>17. PICK x \in Int : x = ScoreOf(i, words[i])
  BY <1>14
<1>18. Gains(h)' = Append(s, x)
  <2>1. Append(s, x) = [n \in 1 .. last |-> IF n = last THEN x ELSE s[n]]
    BY <1>1, <1>16, <1>12
  <2>2. ASSUME NEW n \in 1 .. last
        PROVE  Gain(h, n)' = IF n = last THEN x ELSE s[n]
    <3>1. CASE n = last
      BY <1>13, <1>17, <3>1
    <3>2. CASE n # last
      <4>1. n \in 1 .. step
        BY <1>1, <1>12, <3>2
      <4> QED
        BY <1>11, <1>16, <3>2, <4>1
    <3> QED
      BY <3>1, <3>2
  <2> QED
    BY <1>15, <2>1, <2>2
<1> QED
  BY <1>14, <1>16, <1>17, <1>18

(* A hypothesis that is alive collects its next token and its score.       *)
LEMMA TokensGoOn ==
  ASSUME SearchInv, DecodesAlone(request), stage = "searching", NEW words, NEW stops,
         GiveWords(words, stops), \A j \in Positions : words[j] \in WordChoices(j),
         NEW i \in Positions, NEW h \in Hypotheses, h = batchOffset[i], HypothesisInv(h)
  PROVE  IsHypothesis(h)' /\ MapBack(layer, hypotheses[h].tokens)' = Collected(h)'
         /\ hypotheses'[h].score = hypotheses[h].score + ScoreOf(i, words[i])
<1>1. /\ Setup /\ step \in Nat /\ PositionInv(i) /\ Range(batchOffset) = Hypotheses \ finalized
      /\ batchOffset \in Seq(Hypotheses) /\ IsInjective(batchOffset)
  BY DEF SearchInv, AliveInv
<1>2. UNCHANGED constantVars /\ generated'[h] = Append(generated[h], ToOriginal(layer, words[i]))
        /\ words[i] \in Free(layer)
  BY WordsAreGiven
<1>3. /\ request' = request /\ layer' = layer /\ options' = options
      /\ Hypotheses' = Hypotheses /\ Sentence(h)' = Sentence(h)
  BY <1>2, Constants
<1>4. /\ PrefixLength(i) = Len(options.prefixes[Sentence(h)]) /\ PrefixLength(i) \in Nat
      /\ generated[h] \in Seq(Known(request)) /\ Len(generated[h]) = step
  BY <1>1, LengthsAre
<1>5. PICK o \in Free(layer) : o = words[i]
  BY <1>2
<1>6. PICK w \in Known(request) : w = ToOriginal(layer, o)
  BY <1>1, SetupFits DEF Fits
<1>7. PICK g \in Seq(Known(request)) : g = generated[h]
  BY <1>4
<1>8. PICK t \in Seq(Free(layer)), s \in Int : hypotheses[h] = [tokens |-> t, score |-> s]
  BY DEF HypothesisInv, IsHypothesis
<1>9. PICK x \in Int : x = ScoreOf(i, o)
  BY <1>1, <1>5, ScoreOfIs
<1>10. PICK keep \in BOOLEAN : keep = (IsVisible(i) /\ (~IsEos(o) \/ options.includeEos))
  OBVIOUS
<1>11. hypotheses'[h] = [tokens |-> IF keep THEN Append(t, o) ELSE t, score |-> s + x]
  <2>1. Positions = DOMAIN batchOffset
    BY <1>1 DEF Positions
  <2>2. h \in Range(batchOffset) /\ PositionOf(h) = i
    BY <1>1, <2>1 DEF PositionOf, IsInjective, Range
  <2>3. hypotheses'[h] = Extended(i, o)
    BY <1>5, <2>2 DEF GiveWords
  <2>4. hypotheses[h].tokens = t /\ hypotheses[h].score = s
    BY <1>8
  <2>5. CASE keep
    <3>1. Extended(i, o) = [tokens |-> Append(t, o), score |-> s + x]
      BY <1>9, <1>10, <2>4, <2>5 DEF Extended
    <3> QED
      BY <2>3, <2>5, <3>1
  <2>6. CASE ~keep
    <3>1. Extended(i, o) = [tokens |-> t, score |-> s + x]
      BY <1>9, <1>10, <2>4, <2>6 DEF Extended
    <3> QED
      BY <2>3, <2>6, <3>1
  <2> QED
    BY <2>5, <2>6
<1>12. PICK u \in Seq(Free(layer)) : u = IF keep THEN Append(t, o) ELSE t
  <2>1. Append(t, o) \in Seq(Free(layer))
    OBVIOUS
  <2> QED
    BY <2>1
<1>13. hypotheses'[h] = [tokens |-> u, score |-> s + x] /\ s + x \in Int
  BY <1>11, <1>12
<1>14. IsHypothesis(h)'
  BY <1>3, <1>13 DEF IsHypothesis
<1>15. keep <=> IsVisible(i) /\ (w \notin request.endIds \/ request.kind # "transcribe")
  <2>1. request.endIds \in SUBSET Words
    BY <1>1, GreedySearchAssumption DEF Setup, IsRequest
  <2>2. IsEos(o) <=> w \in request.endIds
    BY <1>1, <1>6, <2>1, SetupFits, ToOutputSetIs, ArgumentsAre DEF IsEos
  <2>3. options.includeEos = (request.kind # "transcribe")
    BY <1>1 DEF Setup, Arguments
  <2> QED
    BY <1>10, <2>2, <2>3
<1>16. options.returnPrefix = ReturnPrefix(request)
  BY <1>1, ArgumentsAre
<1>17. MapBack(layer, t) = Collected(h)
  BY <1>8 DEF HypothesisInv
<1>18. MapBack(layer, u) = IF keep THEN Append(Collected(h), w) ELSE Collected(h)
  <2>1. CASE keep
    BY <1>1, <1>6, <1>12, <1>17, <2>1, SetupFits, MapBackOne
  <2>2. CASE ~keep
    BY <1>12, <1>17, <2>2
  <2> QED
    BY <2>1, <2>2
<1> DEFINE next == IF request.kind = "transcribe" THEN Without(Append(g, w), request.endIds)
                   ELSE IF options.returnPrefix THEN Append(g, w)
                   ELSE SubSeq(Append(g, w), PrefixLength(i) + 1, Len(Append(g, w)))
<1>19. Collected(h)' = next
  BY <1>2, <1>3, <1>4, <1>5, <1>6, <1>7 DEF Collected
<1>20. next = IF keep THEN Append(Collected(h), w) ELSE Collected(h)
  <2>1. CASE request.kind = "transcribe"
    <3>1. options.returnPrefix
      BY <1>16, <2>1 DEF ReturnPrefix
    <3>2. keep <=> w \notin request.endIds
      BY <1>15, <2>1, <3>1 DEF IsVisible
    <3>3. next = Without(Append(g, w), request.endIds) /\ Collected(h) = Without(g, request.endIds)
      BY <1>7, <2>1 DEF Collected
    <3>4. /\ w \in request.endIds => next = Collected(h)
          /\ w \notin request.endIds => next = Append(Collected(h), w)
      <4>1. PICK ids : ids = request.endIds
        OBVIOUS
      <4>2. Without(Append(g, w), ids) =
              IF w \in ids THEN Without(g, ids) ELSE Append(Without(g, ids), w)
        BY WithoutAppends
      <4> HIDE DEF next
      <4> QED
        BY <3>3, <4>1, <4>2
    <3> HIDE DEF next
    <3> QED
      BY <3>2, <3>4
  <2>2. CASE request.kind # "transcribe" /\ options.returnPrefix
    <3>1. keep
      BY <1>15, <2>2 DEF IsVisible
    <3>2. next = Append(g, w) /\ Collected(h) = g
      BY <1>7, <2>2 DEF Collected
    <3> HIDE DEF next
    <3> QED
      BY <3>1, <3>2
  <2>3. CASE request.kind # "transcribe" /\ ~options.returnPrefix
    <3>1. keep <=> step >= PrefixLength(i)
      BY <1>15, <2>3 DEF IsVisible
    <3>2. keep <=> PrefixLength(i) <= Len(g)
      BY <1>1, <1>4, <1>7, <3>1
    <3>3. /\ next = SubSeq(Append(g, w), PrefixLength(i) + 1, Len(Append(g, w)))
          /\ Collected(h) = SubSeq(g, PrefixLength(i) + 1, Len(g))
      BY <1>4, <1>7, <2>3 DEF Collected
    <3>4. PICK n \in Nat : n = PrefixLength(i)
      BY <1>4
    <3>5. SubSeq(Append(g, w), n + 1, Len(Append(g, w)))
            = IF n <= Len(g) THEN Append(SubSeq(g, n + 1, Len(g)), w) ELSE SubSeq(g, n + 1, Len(g))
      BY EndGrows
    <3>6. /\ n <= Len(g) => next = Append(Collected(h), w)
          /\ ~(n <= Len(g)) => next = Collected(h)
      BY <3>3, <3>4, <3>5
    <3> HIDE DEF next
    <3> QED
      BY <3>2, <3>4, <3>6
  <2> QED
    BY <2>1, <2>2, <2>3
<1> HIDE DEF next
<1>21. MapBack(layer, hypotheses[h].tokens)' = MapBack(layer, u)
  BY <1>3, <1>13 DEF MapBack
<1>22. hypotheses'[h].score = s + x /\ hypotheses[h].score = s
  BY <1>8, <1>13
<1> QED
  BY <1>5, <1>9, <1>14, <1>18, <1>19, <1>20, <1>21, <1>22

LEMMA HypothesisGoesOn ==
  ASSUME SearchInv, DecodesAlone(request), stage = "searching", NEW words, NEW stops,
         GiveWords(words, stops), \A j \in Positions : words[j] \in WordChoices(j),
         NEW i \in Positions, NEW h \in Hypotheses, h = batchOffset[i], HypothesisInv(h)
  PROVE  HypothesisInv(h)'
<1>1. IsHypothesis(h)' /\ MapBack(layer, hypotheses[h].tokens)' = Collected(h)'
         /\ hypotheses'[h].score = hypotheses[h].score + ScoreOf(i, words[i])
  BY TokensGoOn
<1>2. Gains(h) \in Seq(Int) /\ hypotheses[h].score = SumOf(Gains(h))
  BY DEF HypothesisInv
<1>3. Gains(h)' = Append(Gains(h), ScoreOf(i, words[i])) /\ ScoreOf(i, words[i]) \in Int
  BY <1>2, GainGrows
<1>4. SumOf(Append(Gains(h), ScoreOf(i, words[i]))) = SumOf(Gains(h)) + ScoreOf(i, words[i])
  BY <1>2, <1>3, SumAppends
<1>5. Gains(h)' \in Seq(Int)
  BY <1>2, <1>3
<1>6. SumOf(Gains(h))' = SumOf(Append(Gains(h), ScoreOf(i, words[i])))
  BY <1>3
<1>7. (generated[h] \in Seq(Known(request)))'
  <2>1. Setup /\ step \in Nat /\ PositionInv(i)
    BY DEF SearchInv, AliveInv
  <2>2. UNCHANGED constantVars /\ generated'[h] = Append(generated[h], ToOriginal(layer, words[i]))
          /\ words[i] \in Free(layer)
    BY WordsAreGiven
  <2>3. ToOriginal(layer, words[i]) \in Known(request)
    BY <2>1, <2>2, SetupFits DEF Fits
  <2>4. generated[h] \in Seq(Known(request))
    BY DEF HypothesisInv
  <2>5. request' = request
    BY <2>2, Constants
  <2>6. Append(generated[h], ToOriginal(layer, words[i])) \in Seq(Known(request))
    BY <2>3, <2>4
  <2>7. Known(request)' = Known(request)
    BY <2>5 DEF Known
  <2> QED
    BY <2>2, <2>6, <2>7
<1> QED
  BY <1>1, <1>2, <1>3, <1>4, <1>5, <1>6, <1>7 DEF HypothesisInv

(* A hypothesis that is given nothing stays as it is.                      *)
LEMMA HypothesisStays ==
  ASSUME UNCHANGED constantVars, NEW h, generated'[h] = generated[h],
         hypotheses'[h] = hypotheses[h], HypothesisInv(h)
  PROVE  HypothesisInv(h)'
<1>1. /\ request' = request /\ layer' = layer /\ options' = options /\ model' = model
      /\ Run' = Run /\ Sentence(h)' = Sentence(h)
  BY Constants
<1>2. Whole(h)' = Whole(h)
  BY <1>1 DEF Whole
<1>3. \A n : Gain(h, n)' = Gain(h, n)
  BY <1>1, <1>2 DEF Gain
<1>4. Gains(h)' = Gains(h)
  BY <1>3 DEF Gains
<1>5. Collected(h)' = Collected(h)
  BY <1>1 DEF Collected
<1>6. IsHypothesis(h)' <=> IsHypothesis(h)
  BY <1>1 DEF IsHypothesis
<1>7. Known(request)' = Known(request)
  BY <1>1 DEF Known
<1>8. MapBack(layer, hypotheses[h].tokens)' = MapBack(layer, hypotheses[h].tokens)
  BY <1>1 DEF MapBack
<1> QED
  BY <1>1, <1>4, <1>5, <1>6, <1>7, <1>8 DEF HypothesisInv

-----------------------------------------------------------------------------
(* The end of the search.                                                  *)

(* The number of steps that a hypothesis may take.                         *)
Limit(h) ==
  options.maxLength
    + (IF options.returnPrefix THEN 0 ELSE Len(options.prefixes[Sentence(h)]))

LEMMA LimitIs ==
  ASSUME Setup, DecodesAlone(request), NEW h \in Hypotheses
  PROVE  Limit(h) \in Nat \ {0} /\ MaxStep \in Int /\ Limit(h) <= MaxStep
<1> DEFINE S == {Len(options.prefixes[b]) : b \in Batch}
<1>1. PICK max \in Nat \ {0} : max = options.maxLength
  BY ArgumentsAre, GreedySearchAssumption DEF Setup, IsRequest
<1>2. Batch = 1 .. Len(Run) /\ Len(Run) \in Nat
  BY ArgumentsAre
<1>3. \A b \in Batch : Len(options.prefixes[b]) \in Nat
  <2> SUFFICES ASSUME NEW b \in Batch PROVE Len(options.prefixes[b]) \in Nat
    OBVIOUS
  <2>1. options.prefixes[b] \in Seq(Free(layer))
    BY <1>2, PromptsAre DEF PromptIs
  <2> QED
    BY <2>1
<1>4. IsFiniteSet(S)
  <2> DEFINE f == [b \in Batch |-> Len(options.prefixes[b])]
  <2>1. f \in Surjection(Batch, S)
    BY DEF Surjection
  <2>2. IsFiniteSet(Batch)
    <3>1. 1 \in Int /\ Len(Run) \in Int
      BY <1>2
    <3> QED
      BY <1>2, <3>1, FS_Interval
  <2> HIDE DEF f, S
  <2> QED
    BY <2>1, <2>2, FS_Surjection
<1>5. {0} \cup S \in SUBSET Int /\ {0} \cup S # {}
  BY <1>3
<1>6. Sentence(h) \in Batch
  BY <1>2, HypothesesAre
<1>7. PICK n \in Nat : n = Len(options.prefixes[Sentence(h)]) /\ n \in {0} \cup S
  BY <1>3, <1>6
<1>8. MaxStep = max + (IF options.returnPrefix THEN 0 ELSE Max({0} \cup S))
  BY <1>1 DEF MaxStep, GetMaxStep
<1> HIDE DEF S
<1>9. IsFiniteSet({0} \cup S)
  <2>1. IsFiniteSet({0})
    BY FS_Singleton
  <2> QED
    BY <1>4, <2>1, FS_Union
<1>10. Max({0} \cup S) \in Int /\ n <= Max({0} \cup S)
  BY <1>5, <1>7, <1>9, GreatestNumber
<1>11. PICK m \in Int : m = Max({0} \cup S) /\ n <= m
  BY <1>10
<1>12. CASE options.returnPrefix
  <2>1. MaxStep = max /\ Limit(h) = max
    BY <1>1, <1>8, <1>12 DEF Limit
  <2> QED
    BY <2>1
<1>13. CASE ~options.returnPrefix
  <2>1. MaxStep = max + m /\ Limit(h) = max + n
    BY <1>1, <1>7, <1>8, <1>11, <1>13 DEF Limit
  <2> QED
    BY <1>11, <2>1
<1> QED
  BY <1>12, <1>13

AnswersInv ==
  /\ stage \in {"searching", "merging", "returned"}
  /\ \A h \in Hypotheses : HypothesisInv(h)
  /\ stage = "searching" => \A i \in Positions : step < Limit(batchOffset[i])
  /\ stage # "searching" => finalized = Hypotheses

LEMMA InitAnswers ==
  ASSUME Init, DecodesAlone(request)
  PROVE  AnswersInv
<1>1. /\ Setup /\ SearchInv /\ step = 0 /\ finalized = {} /\ stage \in {"searching", "merging"}
      /\ (stage # "searching" => Run = <<>>)
  <2>1. Setup
    BY DEF Init, Setup
  <2>2. SearchInv
    BY InitIs
  <2>3. stage = IF Run = <<>> THEN "merging" ELSE "searching"
    BY DEF Init
  <2> QED
    BY <2>1, <2>2, <2>3 DEF Init
<1>2. \A h \in Hypotheses : generated[h] = <<>> /\ hypotheses[h] = [tokens |-> <<>>, score |-> 0]
  BY DEF Init
<1>3. ASSUME NEW h \in Hypotheses PROVE HypothesisInv(h)
  <2>1. generated[h] = <<>> /\ hypotheses[h] = [tokens |-> <<>>, score |-> 0]
    BY <1>2
  <2>2. \A S : <<>> \in Seq(S)
    OBVIOUS
  <2>3. Gains(h) = <<>>
    BY <2>1 DEF Gains
  <2>4. MapBack(layer, <<>>) = <<>>
    BY DEF MapBack
  <2>5. Collected(h) = <<>>
    <3>1. PICK n \in Nat : n = Len(options.prefixes[Sentence(h)]) + 1
      <4>1. options.prefixes[Sentence(h)] \in Seq(Free(layer))
        BY <1>1, HypothesesAre, PromptsAre DEF PromptIs
      <4> QED
        BY <4>1
    <3>2. SubSeq(<<>>, n, Len(<<>>)) = <<>> \/ n = 0
      OBVIOUS
    <3>3. n # 0
      <4>1. options.prefixes[Sentence(h)] \in Seq(Free(layer))
        BY <1>1, HypothesesAre, PromptsAre DEF PromptIs
      <4> QED
        BY <3>1, <4>1
    <3>4. Without(<<>>, request.endIds) = <<>>
      BY WithoutNothing
    <3> QED
      BY <2>1, <3>1, <3>2, <3>3, <3>4 DEF Collected
  <2>6. IsHypothesis(h)
    <3>1. <<>> \in Seq(Free(layer)) /\ 0 \in Int
      BY <2>2
    <3> QED
      BY <2>1, <3>1 DEF IsHypothesis
  <2>7. hypotheses[h].score = 0 /\ hypotheses[h].tokens = <<>>
    BY <2>1
  <2> QED
    BY <2>1, <2>2, <2>3, <2>4, <2>5, <2>6, <2>7, SumOfNothing DEF HypothesisInv
<1>4. ASSUME stage = "searching", NEW i \in Positions PROVE step < Limit(batchOffset[i])
  <2>1. batchOffset[i] \in Hypotheses
    BY <1>1, <1>4 DEF SearchInv, AliveInv, PositionInv
  <2>2. Limit(batchOffset[i]) \in Nat \ {0}
    BY <1>1, <2>1, LimitIs
  <2> QED
    BY <1>1, <2>2
<1>5. ASSUME stage # "searching" PROVE finalized = Hypotheses
  <2>1. Len(Run) = 0
    BY <1>1, <1>5
  <2>2. PICK n \in Nat \ {0} : n = request.numHypotheses
    BY <1>1, ArgumentsAre
  <2>3. Hypotheses = 1 .. 0 * n
    BY <1>1, <2>1, <2>2, HypothesesAre
  <2>4. 0 * n = 0
    OBVIOUS
  <2> QED
    BY <1>1, <2>3, <2>4
<1> QED
  BY <1>1, <1>3, <1>4, <1>5 DEF AnswersInv

(* The search goes on until every hypothesis is finished.                  *)
LEMMA StepAnswers ==
  ASSUME SearchInv, SearchInv', AnswersInv, DecodesAlone(request), SearchStep
  PROVE  AnswersInv' /\ stage' # "returned"
<1>1. /\ batchOffset \in Seq(Hypotheses) /\ IsInjective(batchOffset)
      /\ Range(batchOffset) = Hypotheses \ finalized
      /\ (\A i \in Positions : PositionInv(i))
      /\ Setup /\ step \in Nat /\ finalized \subseteq Hypotheses /\ stage = "searching"
      /\ (\A h \in Hypotheses : HypothesisInv(h))
      /\ (\A i \in Positions : step < Limit(batchOffset[i]))
  BY DEF SearchInv, AliveInv, SearchStep, AnswersInv
<1>2. PICK words \in [Positions -> Outputs(layer)],
           stops \in SUBSET {i \in Positions : options.callback = "stops" /\ CallsBack(i)} :
        /\ \A i \in Positions : words[i] \in WordChoices(i)
        /\ GiveWords(words, stops)
        /\ \/ /\ Kept(words, stops) = <<>>
              /\ stage' = "merging"
              /\ UNCHANGED loopVars
           \/ LET kept == Kept(words, stops)
              IN  /\ kept # <<>>
                  /\ step' = step + 1
                  /\ batchOffset' = [p \in DOMAIN kept |-> batchOffset[kept[p]]]
                  /\ sampleFrom' = [p \in DOMAIN kept |-> words[kept[p]]]
                  /\ state' = FedKept(kept)
                  /\ aliveSeq' = [p \in DOMAIN kept |-> Append(aliveSeq[kept[p]], words[kept[p]])]
                  /\ stage' = IF step' < MaxStep THEN "searching" ELSE "merging"
  BY Zenon DEF SearchStep
<1>3. PICK kept : kept = Kept(words, stops)
  OBVIOUS
<1>4. Positions = DOMAIN batchOffset /\ Positions = 1 .. Len(batchOffset) /\ Len(batchOffset) \in Nat
  BY <1>1 DEF Positions
<1>5. IsKept(kept, words, stops)
  BY <1>3, <1>4, KeptIs
<1>6. \A i \in Positions : batchOffset[i] \in Hypotheses
  BY <1>1, <1>4
<1>7. UNCHANGED constantVars
  BY <1>2 DEF GiveWords
<1>8. Hypotheses' = Hypotheses /\ options' = options /\ (\A h : Sentence(h)' = Sentence(h))
  BY <1>7, Constants
<1>9. \A h \in Hypotheses : h \notin finalized <=> \E i \in Positions : h = batchOffset[i]
  BY <1>1, <1>4 DEF Range
<1>10. ASSUME NEW h \in Hypotheses PROVE HypothesisInv(h)'
  <2>1. CASE h \in finalized
    <3>1. generated'[h] = generated[h] /\ hypotheses'[h] = hypotheses[h]
      BY <1>1, <1>2, <2>1 DEF GiveWords
    <3> QED
      BY <1>1, <1>7, <3>1, HypothesisStays
  <2>2. CASE h \notin finalized
    <3>1. PICK i \in Positions : h = batchOffset[i]
      BY <1>9, <2>2
    <3> QED
      BY <1>1, <1>2, <3>1, HypothesisGoesOn
  <2> QED
    BY <2>1, <2>2
<1>11. CASE kept = <<>>
  <2>1. stage' = "merging"
    BY <1>2, <1>3, <1>11
  <2>2. Range(kept) = {}
    BY <1>11 DEF Range
  <2>3. finalized' = finalized \cup {batchOffset[i] : i \in Positions}
    BY <1>2, <1>3, <2>2 DEF GiveWords
  <2>4. finalized' = Hypotheses
    BY <1>1, <1>6, <1>9, <2>3
  <2> QED
    BY <1>8, <1>10, <2>1, <2>4 DEF AnswersInv
<1>12. CASE kept # <<>>
  <2>1. /\ step' = step + 1
        /\ batchOffset' = [p \in DOMAIN kept |-> batchOffset[kept[p]]]
        /\ stage' = IF step' < MaxStep THEN "searching" ELSE "merging"
    BY <1>2, <1>3, <1>12
  <2>2. PICK l \in Nat \ {0} : l = Len(kept) /\ DOMAIN kept = 1 .. l
    BY <1>5, <1>12 DEF IsKept
  <2>3. ASSUME NEW q \in 1 .. l
        PROVE  /\ batchOffset'[q] \in Hypotheses /\ Limit(batchOffset'[q]) \in Nat
               /\ step' < Limit(batchOffset'[q]) /\ step' < MaxStep
    <3>1. PICK i \in Positions : i = kept[q] /\ ~IsFinished(i, words[i])
      BY <1>5, <2>2 DEF IsKept
    <3>2. PICK h \in Hypotheses : h = batchOffset[i] /\ h = batchOffset'[q]
      BY <1>6, <2>1, <2>2, <3>1
    <3>3. Limit(h) \in Nat \ {0} /\ MaxStep \in Int /\ Limit(h) <= MaxStep
      BY <1>1, LimitIs
    <3>4. step + 1 # Limit(h)
      <4>1. ~IsLastStep(i)
        BY <3>1 DEF IsFinished
      <4>2. IsLastStep(i) <=> step + 1 = Limit(h)
        BY <3>2 DEF IsLastStep, LastStep, Limit, PrefixLength, Prefix
      <4> QED
        BY <4>1, <4>2
    <3>5. step < Limit(h)
      BY <1>1, <3>2
    <3> QED
      BY <1>1, <2>1, <3>2, <3>3, <3>4, <3>5
  <2>4. 1 \in 1 .. l
    OBVIOUS
  <2>5. stage' = "searching"
    BY <2>1, <2>3, <2>4
  <2>6. Positions' = 1 .. l
    <3>1. Len(batchOffset') = l
      BY <2>1, <2>2
    <3> QED
      BY <3>1 DEF Positions
  <2>7. ASSUME NEW q \in 1 .. l PROVE (step < Limit(batchOffset[q]))'
    <3>1. PICK h : h = batchOffset'[q]
      OBVIOUS
    <3>2. Limit(h)' = Limit(h)
      BY <1>8 DEF Limit
    <3> QED
      BY <2>3, <3>1, <3>2
  <2> QED
    BY <1>8, <1>10, <2>5, <2>6, <2>7 DEF AnswersInv
<1> QED
  BY <1>11, <1>12

(* A sentence is run once.                                                 *)
LEMMA RunOnce ==
  ASSUME Setup, NEW k \in 1 .. Len(Run)
  PROVE  PositionInRun(Run[k]) = k
<1> DEFINE S == Sentences(request) \ request.skipped
<1>1. Run = Ascending(S)
  BY DEF Run, IndexToRun
<1>2. S \in SUBSET Int /\ IsFiniteSet(S)
  <2>1. request.prompts \in Seq(Seq(Words) \ {<<>>})
    BY GreedySearchAssumption DEF Setup, IsRequest
  <2>2. Sentences(request) = 1 .. Len(request.prompts) /\ Len(request.prompts) \in Nat
    BY <2>1 DEF Sentences
  <2>3. IsFiniteSet(Sentences(request))
    <3>1. 1 \in Int /\ Len(request.prompts) \in Int
      BY <2>2
    <3> QED
      BY <2>2, <3>1, FS_Interval
  <2>4. S \in SUBSET Sentences(request)
    OBVIOUS
  <2> QED
    BY <2>2, <2>3, <2>4, FS_Subset
<1> HIDE DEF S
<1>3. PICK c \in Nat :
        /\ Ascending(S) \in [1 .. c -> S]
        /\ \A m, n \in 1 .. c : Ascending(S)[m] = Ascending(S)[n] => m = n
  BY <1>2, AscendingIs
<1>4. DOMAIN Run = 1 .. c /\ Len(Run) = c
  BY <1>1, <1>3
<1>5. \A m \in DOMAIN Run : Run[m] = Run[k] => m = k
  BY <1>1, <1>3, <1>4
<1> QED
  BY <1>4, <1>5 DEF PositionInRun

(* The order of results is that of their outputs.                          *)
LEMMA SameOrder ==
  ASSUME NEW x, NEW y, NEW u, NEW v, NEW lp, x.score = u.score, y.score = v.score,
         Len(x.tokens) = Len(u.tokens), Len(y.tokens) = Len(v.tokens),
         x.tokens = <<>> <=> u.tokens = <<>>, y.tokens = <<>> <=> v.tokens = <<>>
  PROVE  BetterScore(x, y, lp) <=> BetterScore(u, v, lp)
BY DEF BetterScore

(* What the request returns of a sentence.                                 *)
IsAnswered(k, result, answer) ==
  LET mine == {h \in Hypotheses : Sentence(h) = k}
  IN  /\ Len(answer) = request.numHypotheses
      /\ \A n \in 1 .. Len(result) - 1 :
           ~BetterScore(result[n + 1], result[n], options.lengthPenalty)
      /\ {r.score : r \in Range(result)} = {ScoreAlone(h) : h \in mine}
      /\ Range(answer) = {ShouldReturn(h) : h \in mine}

LEMMA SentenceIsAnswered ==
  ASSUME Setup, DecodesAlone(request), \A h \in Hypotheses : HypothesisInv(h),
         NEW k \in 1 .. Len(Run),
         NEW answer, answer = [n \in DOMAIN Merged(k) |->
                                 Answer(request, Run[k], Merged(k)[n].tokens)]
  PROVE  IsAnswered(k, Merged(k), answer)
<1>1. \A h \in Hypotheses : IsHypothesis(h)
  BY DEF HypothesisInv
<1>2. PICK r : IsMergedBy(r, Merged(k), k)
  BY <1>1, MergedIs
<1>3. PICK num \in Nat \ {0} : num = request.numHypotheses
  BY ArgumentsAre
<1>4. PICK result : result = Merged(k)
  OBVIOUS
<1>5. /\ r \in [1 .. num -> 1 .. num] /\ \A p \in 1 .. num : \E n \in 1 .. num : r[n] = p
      /\ \A m, n \in 1 .. num : m < n =>
           ~BetterScore(hypotheses[Place(k, r[n])], hypotheses[Place(k, r[m])],
                        options.lengthPenalty)
      /\ result = [n \in 1 .. num |-> Restored(hypotheses[Place(k, r[n])])]
  BY <1>2, <1>3, <1>4 DEF IsMergedBy
<1>6. DOMAIN result = 1 .. num /\ Len(result) = num
  BY <1>5
<1> DEFINE of == [n \in 1 .. num |-> Place(k, r[n])]
           mine == {h \in Hypotheses : Sentence(h) = k}
<1>7. mine = {Place(k, n) : n \in 1 .. num}
  BY <1>3, MineIs
<1>8. /\ \A n \in 1 .. num : of[n] \in mine
      /\ \A h \in mine : \E n \in 1 .. num : of[n] = h
  <2>1. \A n \in 1 .. num : of[n] = Place(k, r[n]) /\ r[n] \in 1 .. num
    BY <1>5
  <2> HIDE DEF of, mine
  <2>2. \A n \in 1 .. num : of[n] \in mine
    BY <1>7, <2>1
  <2>3. ASSUME NEW h \in mine PROVE \E n \in 1 .. num : of[n] = h
    <3>1. PICK p \in 1 .. num : h = Place(k, p)
      BY <1>7
    <3>2. PICK n \in 1 .. num : r[n] = p
      BY <1>5
    <3> QED
      BY <2>1, <3>1, <3>2
  <2> QED
    BY <2>2, <2>3
<1>9. \A n \in 1 .. num : result[n] = Restored(hypotheses[of[n]])
  BY <1>5
<1>10. \A m, n \in 1 .. num : m < n =>
         ~BetterScore(hypotheses[of[n]], hypotheses[of[m]], options.lengthPenalty)
  BY <1>5
<1>11. \A h \in mine : h \in Hypotheses /\ Sentence(h) = k
  OBVIOUS
<1> HIDE DEF of
<1>12. ASSUME NEW h \in Hypotheses
       PROVE  /\ Restored(hypotheses[h]).tokens = Collected(h)
              /\ Restored(hypotheses[h]).score = ScoreAlone(h)
              /\ hypotheses[h].score = ScoreAlone(h)
              /\ Len(Restored(hypotheses[h]).tokens) = Len(hypotheses[h].tokens)
              /\ Restored(hypotheses[h]).tokens = <<>> <=> hypotheses[h].tokens = <<>>
  <2>1. IsHypothesis(h) /\ MapBack(layer, hypotheses[h].tokens) = Collected(h)
          /\ hypotheses[h].score = ScoreAlone(h)
    BY DEF HypothesisInv, ScoreAlone, Gains
  <2>2. /\ Restored(hypotheses[h]) = [tokens |-> MapBack(layer, hypotheses[h].tokens),
                                       score |-> hypotheses[h].score]
        /\ Len(Restored(hypotheses[h]).tokens) = Len(hypotheses[h].tokens)
        /\ Restored(hypotheses[h]).tokens = <<>> <=> hypotheses[h].tokens = <<>>
    BY <2>1, HypothesisIs
  <2>3. PICK m : m = MapBack(layer, hypotheses[h].tokens)
    OBVIOUS
  <2>4. PICK s : s = hypotheses[h].score
    OBVIOUS
  <2>5. Restored(hypotheses[h]).tokens = m /\ Restored(hypotheses[h]).score = s
    BY <2>2, <2>3, <2>4
  <2> QED
    BY <2>1, <2>2, <2>3, <2>4, <2>5
<1>13. ASSUME NEW n \in 1 .. num - 1
       PROVE  ~BetterScore(result[n + 1], result[n], options.lengthPenalty)
  <2>1. n \in 1 .. num /\ n + 1 \in 1 .. num /\ n < n + 1
    OBVIOUS
  <2>2. PICK x : x = hypotheses[of[n]]
    OBVIOUS
  <2>3. PICK y : y = hypotheses[of[n + 1]]
    OBVIOUS
  <2>4. ~BetterScore(y, x, options.lengthPenalty)
    BY <1>10, <2>1, <2>2, <2>3
  <2>5. /\ result[n].score = x.score /\ Len(result[n].tokens) = Len(x.tokens)
        /\ result[n].tokens = <<>> <=> x.tokens = <<>>
    BY <1>8, <1>9, <1>11, <1>12, <2>1, <2>2
  <2>6. /\ result[n + 1].score = y.score /\ Len(result[n + 1].tokens) = Len(y.tokens)
        /\ result[n + 1].tokens = <<>> <=> y.tokens = <<>>
    BY <1>8, <1>9, <1>11, <1>12, <2>1, <2>3
  <2>7. PICK lp : lp = options.lengthPenalty
    OBVIOUS
  <2>8. BetterScore(result[n + 1], result[n], lp) <=> BetterScore(y, x, lp)
    BY <2>5, <2>6, SameOrder
  <2> QED
    BY <2>4, <2>7, <2>8
<1>14. \A n \in 1 .. num : result[n].score = ScoreAlone(of[n])
  BY <1>8, <1>9, <1>11, <1>12
<1>15. {x.score : x \in Range(result)} = {ScoreAlone(h) : h \in mine}
  <2>1. \A x : x \in Range(result) <=> \E n \in 1 .. num : x = result[n]
    BY <1>6 DEF Range
  <2> HIDE DEF mine
  <2>2. ASSUME NEW x \in Range(result) PROVE \E h \in mine : x.score = ScoreAlone(h)
    BY <1>8, <1>14, <2>1
  <2>3. ASSUME NEW h \in mine PROVE \E x \in Range(result) : ScoreAlone(h) = x.score
    BY <1>8, <1>14, <2>1
  <2> QED
    BY <2>2, <2>3
<1>16. answer = [n \in 1 .. num |-> Answer(request, Run[k], result[n].tokens)]
  BY <1>4, <1>6
<1>17. \A n \in 1 .. num : answer[n] = ShouldReturn(of[n])
  <2> SUFFICES ASSUME NEW n \in 1 .. num PROVE answer[n] = ShouldReturn(of[n])
    OBVIOUS
  <2>1. PICK h \in Hypotheses : h = of[n] /\ Sentence(h) = k
    BY <1>8, <1>11
  <2>2. result[n].tokens = Collected(h)
    BY <1>9, <1>12, <2>1
  <2>3. generated[h] \in Seq(Known(request))
    BY DEF HypothesisInv
  <2>4. Answer(request, Run[Sentence(h)], Collected(h)) = ShouldReturn(h)
    BY <2>3, AnswerIs
  <2> QED
    BY <1>16, <2>1, <2>2, <2>4
<1>18. DOMAIN answer = 1 .. num /\ Len(answer) = num
  BY <1>16
<1>19. Range(answer) = {ShouldReturn(h) : h \in mine}
  <2>1. \A x : x \in Range(answer) <=> \E n \in 1 .. num : x = answer[n]
    BY <1>18 DEF Range
  <2> HIDE DEF mine
  <2>2. ASSUME NEW x \in Range(answer) PROVE \E h \in mine : x = ShouldReturn(h)
    BY <1>8, <1>17, <2>1
  <2>3. ASSUME NEW h \in mine PROVE ShouldReturn(h) \in Range(answer)
    BY <1>8, <1>17, <2>1
  <2> QED
    BY <2>2, <2>3
<1> QED
  BY <1>3, <1>4, <1>6, <1>13, <1>15, <1>18, <1>19 DEF IsAnswered

(* What a caller should get does not depend on what he gets.               *)
LEMMA TextStays ==
  ASSUME UNCHANGED constantVars, generated' = generated
  PROVE  \A h : ScoreAlone(h) = ScoreAlone(h)' /\ ShouldReturn(h) = ShouldReturn(h)'
<1> SUFFICES ASSUME NEW h
             PROVE  ScoreAlone(h) = ScoreAlone(h)' /\ ShouldReturn(h) = ShouldReturn(h)'
  OBVIOUS
<1>1. /\ request' = request /\ options' = options /\ layer' = layer /\ model' = model
      /\ Run' = Run /\ \A g : Sentence(g)' = Sentence(g)
  BY Constants
<1>2. Whole(h)' = Whole(h)
  BY <1>1 DEF Whole
<1>3. \A n : Gain(h, n)' = Gain(h, n)
  BY <1>1, <1>2 DEF Gain
<1>4. ScoreAlone(h)' = ScoreAlone(h)
  BY <1>3 DEF ScoreAlone
<1>5. ShouldReturn(h)' = ShouldReturn(h)
  BY <1>1, <1>2 DEF ShouldReturn
<1> QED
  BY <1>4, <1>5

(* The results of a search, in the places of their sentences.              *)
LEMMA MergeAnswers ==
  ASSUME SearchInv, AnswersInv, DecodesAlone(request), MergeResults
  PROVE  AnswersInv' /\ EverySentenceIsAnswered'
<1>1. /\ Setup /\ stage = "merging" /\ stage' = "returned"
      /\ UNCHANGED constantVars /\ hypotheses' = hypotheses /\ generated' = generated
      /\ finalized' = finalized
      /\ results' = [k \in Batch |-> Merged(k)]
      /\ answers' = [b \in Sentences(request) |->
           IF b \in Range(Run)
             THEN [n \in DOMAIN results'[PositionInRun(b)] |->
                     Answer(request, b, results'[PositionInRun(b)][n].tokens)]
             ELSE SkippedAnswers(request, b)]
  BY DEF SearchInv, MergeResults
<1>2. /\ request' = request /\ options' = options /\ layer' = layer /\ model' = model
      /\ Run' = Run /\ Hypotheses' = Hypotheses /\ \A h : Sentence(h)' = Sentence(h)
  BY <1>1, Constants
<1>3. finalized = Hypotheses /\ \A h \in Hypotheses : HypothesisInv(h)
  BY <1>1 DEF AnswersInv
<1>4. AnswersInv'
  <2>1. ASSUME NEW h \in Hypotheses PROVE HypothesisInv(h)'
    BY <1>1, <1>3, HypothesisStays
  <2> QED
    BY <1>1, <1>2, <1>3, <2>1 DEF AnswersInv
<1>5. /\ Run \in Seq(Sentences(request)) /\ DOMAIN Run = 1 .. Len(Run) /\ Batch = 1 .. Len(Run)
      /\ request.numHypotheses \in Nat \ {0}
  BY <1>1, ArgumentsAre
<1>6. ASSUME NEW k \in 1 .. Len(Run)
      PROVE  Run[k] \in Sentences(request) /\ IsAnswered(k, results'[k], answers'[Run[k]])
  <2>1. Run[k] \in Sentences(request) /\ Run[k] \in Range(Run)
    BY <1>5 DEF Range
  <2>2. PositionInRun(Run[k]) = k
    BY <1>1, RunOnce
  <2>3. results'[k] = Merged(k)
    BY <1>1, <1>5
  <2>4. PICK b : b = Run[k]
    OBVIOUS
  <2>5. answers'[b] = [n \in DOMAIN results'[PositionInRun(b)] |->
                         Answer(request, b, results'[PositionInRun(b)][n].tokens)]
    BY <1>1, <2>1, <2>4
  <2>6. answers'[b] = [n \in DOMAIN Merged(k) |-> Answer(request, Run[k], Merged(k)[n].tokens)]
    BY <2>2, <2>3, <2>4, <2>5
  <2>7. PICK a : a = answers'[b] /\ a = [n \in DOMAIN Merged(k) |->
                                           Answer(request, Run[k], Merged(k)[n].tokens)]
    BY <2>6
  <2>8. IsAnswered(k, Merged(k), a)
    BY <1>1, <1>3, <2>7, SentenceIsAnswered
  <2> QED
    BY <2>1, <2>3, <2>4, <2>7, <2>8
<1>7. ASSUME NEW b \in Sentences(request) PROVE Len(answers'[b]) = request.numHypotheses
  <2>1. CASE b \in Range(Run)
    <3>1. PICK k \in 1 .. Len(Run) : b = Run[k]
      BY <1>5, <2>1 DEF Range
    <3> QED
      BY <1>6, <3>1 DEF IsAnswered
  <2>2. CASE b \notin Range(Run)
    <3>1. answers'[b] = SkippedAnswers(request, b)
      BY <1>1, <2>2
    <3>2. PICK n \in Nat : n = request.numHypotheses
      BY <1>5
    <3>3. DOMAIN answers'[b] = 1 .. n
      BY <3>1, <3>2 DEF SkippedAnswers
    <3>4. \E F : answers'[b] = [m \in 1 .. n |-> F[m]]
      <4>1. PICK F : F = answers'[b]
        OBVIOUS
      <4>2. F = [m \in 1 .. n |-> SubSeq(Tail(request.prompts[b]), 1,
                  Min({request.maxLength, Len(Tail(request.prompts[b]))}))]
        BY <3>1, <3>2, <4>1 DEF SkippedAnswers
      <4> QED
        BY <4>1, <4>2
    <3> QED
      BY <3>2, <3>4
  <2> QED
    BY <2>1, <2>2
<1>8. \A h : ScoreAlone(h) = ScoreAlone(h)' /\ ShouldReturn(h) = ShouldReturn(h)'
  BY <1>1, TextStays
<1>9. Sentences(request)' = Sentences(request) /\ Batch' = Batch
  BY <1>2 DEF Batch
<1>10. ASSUME NEW k \in 1 .. Len(Run), NEW mine, mine = {h \in Hypotheses : Sentence(h) = k}
       PROVE  /\ \A n \in 1 .. Len(results'[k]) - 1 :
                   ~BetterScore(results'[k][n + 1], results'[k][n], options.lengthPenalty)
              /\ {r.score : r \in Range(results'[k])} = {ScoreAlone(h) : h \in mine}
              /\ Range(answers'[Run[k]]) = {ShouldReturn(h) : h \in mine}
  BY <1>6, <1>10 DEF IsAnswered
<1>11. ASSUME NEW k \in 1 .. Len(Run)
       PROVE  (LET mine == {h \in Hypotheses : Sentence(h) = k}
               IN  /\ \A n \in 1 .. Len(results[k]) - 1 :
                        ~BetterScore(results[k][n + 1], results[k][n], options.lengthPenalty)
                   /\ {r.score : r \in Range(results[k])} = {ScoreAlone(h) : h \in mine}
                   /\ Range(answers[Run[k]]) = {ShouldReturn(h) : h \in mine})'
  <2>1. PICK mine : mine = {h \in Hypotheses : Sentence(h) = k}
    OBVIOUS
  <2>2. {h \in Hypotheses : Sentence(h) = k}' = mine
    BY <1>2, <2>1
  <2>3. PICK of : of = {ScoreAlone(h) : h \in mine}
    OBVIOUS
  <2>4. {ScoreAlone(h)' : h \in mine} = of
    BY <1>8, <2>3
  <2>5. PICK texts : texts = {ShouldReturn(h) : h \in mine}
    OBVIOUS
  <2>6. {ShouldReturn(h)' : h \in mine} = texts
    BY <1>8, <2>5
  <2>7. /\ \A n \in 1 .. Len(results'[k]) - 1 :
             ~BetterScore(results'[k][n + 1], results'[k][n], options.lengthPenalty)
        /\ {r.score : r \in Range(results'[k])} = of
        /\ Range(answers'[Run[k]]) = texts
    BY <1>10, <2>1, <2>3, <2>5
  <2> QED
    BY <1>2, <2>2, <2>4, <2>6, <2>7
<1>12. EverySentenceIsAnswered'
  BY <1>1, <1>2, <1>3, <1>5, <1>7, <1>9, <1>11 DEF EverySentenceIsAnswered
<1> QED
  BY <1>4, <1>12

(* Both parts of the invariant stay.                                       *)
LEMMA SearchGoesOn ==
  ASSUME SearchInv, AnswersInv, [Next]_vars, DecodesAlone(request)
  PROVE  SearchInv' /\ AnswersInv'
<1>1. CASE SearchStep
  BY <1>1, SearchStepIs, StepAnswers
<1>2. CASE MergeResults
  <2>1. UNCHANGED constantVars /\ UNCHANGED <<step, finalized, generated>> /\ stage' = "returned"
    BY <1>2 DEF MergeResults, loopVars
  <2>2. Hypotheses' = Hypotheses /\ Setup' = Setup
    BY <2>1, Constants
  <2>3. SearchInv'
    BY <2>1, <2>2 DEF SearchInv, AliveInv
  <2> QED
    BY <1>2, <2>3, MergeAnswers
<1>3. CASE UNCHANGED vars
  <2>1. SearchInv'
    BY <1>3 DEF vars, constantVars, loopVars, SearchInv, AliveInv, Setup, Hypotheses, Positions,
                PositionInv, Fed, Seen, Whole, Given, Sentence, Run
  <2>2. UNCHANGED constantVars /\ UNCHANGED loopVars
          /\ UNCHANGED <<hypotheses, generated, finalized, stage>>
    BY <1>3 DEF vars
  <2>3. ASSUME NEW h \in Hypotheses PROVE HypothesisInv(h)'
    BY <2>2, HypothesisStays DEF AnswersInv
  <2>4. \A h : Limit(h)' = Limit(h)
    BY <2>2, Constants DEF Limit
  <2>5. AnswersInv'
    BY <2>2, <2>3, <2>4, Constants DEF AnswersInv, loopVars, Positions
  <2> QED
    BY <2>1, <2>5
<1> QED
  BY <1>1, <1>2, <1>3 DEF Next, Terminated

(* The search answers every sentence: if the requests stay within the      *)
(* conditions of DecodesAlone, what GreedySearch::search and decode return *)
(* is, for each sentence, num_hypotheses results from the best to the      *)
(* worst, whose tokens and scores are those of the hypotheses of this      *)
(* sentence, each decoded alone and to its end; the sentences that were    *)
(* skipped get their prompts.                                              *)
THEOREM EverySentenceGetsItsAnswer ==
  ASSUME \A r \in AllRequests : DecodesAlone(r)
  PROVE  Spec => []EverySentenceIsAnswered
<1> DEFINE Inv == SearchInv /\ AnswersInv /\ EverySentenceIsAnswered
<1>1. Init => Inv
  <2> SUFFICES ASSUME Init PROVE Inv
    OBVIOUS
  <2>1. DecodesAlone(request)
    BY DEF Init
  <2>2. stage # "returned"
    BY DEF Init
  <2> QED
    BY <2>1, <2>2, InitIs, InitAnswers DEF EverySentenceIsAnswered
<1>2. Inv /\ [Next]_vars => Inv'
  <2> SUFFICES ASSUME Inv, [Next]_vars PROVE Inv'
    OBVIOUS
  <2>1. DecodesAlone(request)
    BY DEF SearchInv, Setup
  <2>2. SearchInv' /\ AnswersInv'
    BY <2>1, SearchGoesOn
  <2>3. CASE SearchStep
    BY <2>1, <2>2, <2>3, StepAnswers DEF EverySentenceIsAnswered
  <2>4. CASE MergeResults
    BY <2>1, <2>2, <2>4, MergeAnswers
  <2>5. CASE UNCHANGED vars
    <3>1. UNCHANGED constantVars /\ UNCHANGED <<generated, finalized, results, answers, stage>>
      BY <2>5 DEF vars
    <3>2. /\ request' = request /\ options' = options /\ Run' = Run /\ Hypotheses' = Hypotheses
          /\ (\A h : Sentence(h)' = Sentence(h)) /\ Batch' = Batch
      BY <3>1, Constants DEF Batch
    <3>3. \A h : ScoreAlone(h) = ScoreAlone(h)' /\ ShouldReturn(h) = ShouldReturn(h)'
      BY <3>1, TextStays
    <3>4. EverySentenceIsAnswered'
      BY <3>1, <3>2, <3>3 DEF EverySentenceIsAnswered
    <3> QED
      BY <2>2, <3>4
  <2> QED
    BY <2>3, <2>4, <2>5 DEF Next, Terminated
<1>3. Inv => EverySentenceIsAnswered
  OBVIOUS
<1> QED
  BY <1>1, <1>2, <1>3, PTL DEF Spec

-----------------------------------------------------------------------------
(* What the callback gets.                                                 *)

(* Without a restriction the outputs that are free are words.              *)
LEMMA OutputsAreWords ==
  ASSUME Setup, DecodesAlone(request), Last(request.restrictions) = <<>>,
         NEW o \in Free(layer)
  PROVE  ToOriginal(layer, o) = o
<1>1. PICK m \in Nat \ {0} : m = request.multiple
  BY GreedySearchAssumption DEF Setup, IsRequest
<1>2. layer = Ideal(<<>>, m, request.hasBias)
  BY <1>1, LayerIsIdeal DEF Setup, DecodesAlone
<1>3. CASE Padding(VocabularySize, m) = 0
  BY <1>2, <1>3 DEF Ideal, ToOriginal, IsUpdated, WholeLayer
<1>4. CASE Padding(VocabularySize, m) # 0
  <2>1. PICK p \in Nat : p = Padding(VocabularySize, m) /\ p > 0
    BY <1>4, PaddingIsNumber, OutputLayerAssumption
  <2>2. PICK full \in Seq(Words) : full = Full /\ Len(full) = VocabularySize
    BY FullIs
  <2>3. PICK all \in Seq(Words) :
          /\ all = Padded(full, m) /\ Len(all) = VocabularySize + p
          /\ \A n \in 1 .. VocabularySize : all[n] = full[n]
    BY <2>1, <2>2, PaddedIs
  <2>4. layer.words = all /\ layer.masked = Masked(WholeLayer, VocabularySize + p, p, request.hasBias)
    BY <1>2, <1>4, <2>1, <2>2, <2>3 DEF Ideal, Selected, Select
  <2>5. layer.masked = VocabularySize .. VocabularySize + p - 1
    BY <2>1, <2>4, OutputLayerAssumption DEF Masked
  <2>6. IsUpdated(layer) /\ OutputSize(layer) = VocabularySize + p
    <3>1. all # <<>>
      BY <2>1, <2>3, OutputLayerAssumption
    <3> QED
      BY <2>3, <2>4, <3>1 DEF IsUpdated, OutputSize
  <2>7. o \in 0 .. VocabularySize + p - 1 /\ o \notin layer.masked
    <3>1. o \in Outputs(layer) /\ o \notin layer.masked
      BY DEF Free
    <3>2. Outputs(layer) = 0 .. (VocabularySize + p) - 1
      BY <2>6 DEF Outputs
    <3> QED
      BY <3>1, <3>2, OutputLayerAssumption
  <2>8. o + 1 \in 1 .. VocabularySize /\ (o + 1) - 1 = o
    BY <2>1, <2>5, <2>7, OutputLayerAssumption
  <2>9. full[o + 1] = o
    BY <2>2, <2>8 DEF Full
  <2> QED
    BY <2>3, <2>4, <2>6, <2>8, <2>9 DEF ToOriginal
<1> QED
  BY <1>3, <1>4

(* If no sentence is skipped, they are run in their order.                 *)
LEMMA AllAreRun ==
  ASSUME Setup, request.skipped = {}
  PROVE  /\ Sentences(request) = 1 .. Len(Run) /\ Len(Run) \in Nat
         /\ \A b \in Sentences(request) : Run[b] = b /\ b \in Range(Run)
<1>1. PICK l \in Nat : l = Len(request.prompts) /\ Sentences(request) = 1 .. l
  <2>1. request.prompts \in Seq(Seq(Words) \ {<<>>})
    BY GreedySearchAssumption DEF Setup, IsRequest
  <2> QED
    BY <2>1 DEF Sentences
<1>2. Sentences(request) \ request.skipped = 1 .. l
  BY <1>1
<1>3. Run = [n \in 1 .. l |-> n]
  BY <1>2, AscendingInterval DEF Run, IndexToRun
<1>4. Len(Run) = l /\ DOMAIN Run = 1 .. l /\ \A b \in 1 .. l : Run[b] = b
  BY <1>3
<1> QED
  BY <1>1, <1>4 DEF Range

(* The numbers that the callback gets are those of one hypothesis.         *)
LEMMA CallbackIdIs ==
  ASSUME Setup, NEW k \in 1 .. Len(Run), NEW p \in 1 .. request.numHypotheses
  PROVE  CallbackId(Place(k, p)) = <<k, p - 1>> /\ Place(k, p) \in Hypotheses
<1>1. PICK l \in Nat : l = Len(Run)
  BY ArgumentsAre
<1>2. PICK n \in Nat \ {0} : n = request.numHypotheses /\ n = options.numHypotheses
  BY ArgumentsAre
<1>3. SentenceOf((k - 1) * n + p, n) = k
  BY <1>1, <1>2, PlacesAre
<1>4. PICK h \in Nat : h = (k - 1) * n + p /\ h = Place(k, p) /\ h >= 1
  <2>1. PICK q \in Nat : q = k - 1
    BY <1>1
  <2>2. q * n \in Nat
    OBVIOUS
  <2>3. q * n + p \in Nat /\ q * n + p >= 1
    BY <1>2, <2>2
  <2> QED
    BY <1>2, <2>1, <2>3 DEF Place
<1>5. PICK x \in Nat : x = h - 1
  BY <1>4
<1>6. x \div n = k - 1 /\ x % n \in Nat /\ x = n * (x \div n) + (x % n)
  <2>1. x \div n \in Nat /\ x % n \in Nat /\ x = n * (x \div n) + (x % n)
    OBVIOUS
  <2>2. (x \div n) + 1 = k
    BY <1>3, <1>4, <1>5 DEF SentenceOf
  <2> QED
    BY <1>1, <2>1, <2>2
<1>7. x % n = p - 1
  <2>1. PICK q \in Nat : q = k - 1 /\ q = x \div n
    BY <1>1, <1>6
  <2>2. n * q = q * n /\ q * n \in Nat
    OBVIOUS
  <2>3. PICK y \in Nat : y = q * n /\ y = n * q
    BY <2>2
  <2>4. x = y + p - 1 /\ p \in Nat
    <3>1. (k - 1) * n = y
      BY <2>1, <2>3
    <3> QED
      BY <1>2, <1>4, <1>5, <3>1
  <2>5. PICK m \in Nat : m = x % n
    BY <1>6
  <2>6. x = y + m
    BY <1>6, <2>1, <2>3, <2>5
  <2> QED
    BY <2>4, <2>5, <2>6
<1>8. CallbackId(h) = <<k, p - 1>>
  <2>1. CallbackId(h) = <<(x \div n) + 1, x % n>>
    BY <1>2, <1>5 DEF CallbackId
  <2> QED
    BY <1>1, <1>6, <1>7, <2>1
<1>9. Place(k, p) \in Hypotheses
  BY MineIs
<1> QED
  BY <1>4, <1>8, <1>9

LEMMA CallbackIdsDiffer ==
  ASSUME Setup, NEW g \in Hypotheses, NEW h \in Hypotheses
  PROVE  /\ CallbackId(g) = CallbackId(h) => g = h
         /\ CallbackId(h) \in (1 .. Len(Run)) \X (0 .. request.numHypotheses - 1)
<1>1. PICK n \in Nat \ {0} : n = request.numHypotheses
  BY ArgumentsAre
<1>2. ASSUME NEW f \in Hypotheses
      PROVE  \E k \in 1 .. Len(Run), p \in 1 .. n : f = Place(k, p) /\ CallbackId(f) = <<k, p - 1>>
  <2>1. PICK k \in 1 .. Len(Run) : k = Sentence(f)
    BY HypothesesAre
  <2>2. PICK p \in 1 .. n : f = Place(k, p)
    BY <1>1, <2>1, MineIs
  <2> QED
    BY <1>1, <2>2, CallbackIdIs
<1>3. PICK k \in 1 .. Len(Run), p \in 1 .. n : g = Place(k, p) /\ CallbackId(g) = <<k, p - 1>>
  BY <1>2
<1>4. PICK j \in 1 .. Len(Run), q \in 1 .. n : h = Place(j, q) /\ CallbackId(h) = <<j, q - 1>>
  BY <1>2
<1>5. q - 1 \in 0 .. n - 1
  BY <1>1
<1>6. CallbackId(g) = CallbackId(h) => k = j /\ p = q
  BY <1>3, <1>4
<1> QED
  BY <1>1, <1>3, <1>4, <1>5, <1>6

(* The calls for a text: one for each of its tokens; the last one says so  *)
(* if there are no more to come.                                           *)
IsStream(calls, text, ended) ==
  /\ \E S : calls \in Seq(S)
  /\ [n \in DOMAIN calls |-> calls[n].token] = text
  /\ \A n \in DOMAIN calls : (calls[n].last \/ calls[n].stop) <=> (n = Len(calls) /\ ended)

LEMMA StreamGrows ==
  ASSUME NEW T, NEW text \in Seq(T), NEW w \in T, NEW calls, IsStream(calls, text, FALSE),
         NEW x, x.token = w, NEW ended \in BOOLEAN, (x.last \/ x.stop) <=> ended
  PROVE  IsStream(Append(calls, x), Append(text, w), ended)
<1>1. PICK R : calls \in Seq(R)
  BY DEF IsStream
<1>2. PICK S : S = R \cup {x}
  OBVIOUS
<1>3. PICK c \in Seq(S) : c = calls
  BY <1>1, <1>2
<1>4. PICK l \in Nat : l = Len(c) /\ DOMAIN c = 1 .. l
  BY <1>3
<1>5. PICK a \in Seq(S) : /\ a = Append(c, x) /\ Len(a) = l + 1 /\ DOMAIN a = 1 .. l + 1
                          /\ a[l + 1] = x /\ \A n \in 1 .. l : a[n] = c[n]
  <2>1. x \in S
    BY <1>2
  <2>2. Append(c, x) \in Seq(S) /\ Len(Append(c, x)) = l + 1 /\ Append(c, x)[l + 1] = x
    BY <1>4, <2>1
  <2>3. \A n \in 1 .. l : Append(c, x)[n] = c[n]
    BY <1>4, <2>1
  <2> QED
    <3>1. PICK a \in Seq(S) : a = Append(c, x)
      BY <2>2
    <3>2. Len(a) = l + 1 /\ DOMAIN a = 1 .. l + 1
      BY <2>2, <3>1
    <3> QED
      BY <2>2, <2>3, <3>1, <3>2
<1>6. /\ text = [n \in 1 .. l |-> c[n].token]
      /\ \A n \in 1 .. l : ~(c[n].last \/ c[n].stop)
  BY <1>3, <1>4 DEF IsStream
<1>7. Len(text) = l
  BY <1>6
<1>8. PICK t \in Seq(T) : /\ t = Append(text, w) /\ Len(t) = l + 1 /\ t[l + 1] = w
                          /\ \A n \in 1 .. l : t[n] = text[n]
  <2>1. Append(text, w) \in Seq(T) /\ Len(Append(text, w)) = l + 1 /\ Append(text, w)[l + 1] = w
    BY <1>7
  <2>2. \A n \in 1 .. l : Append(text, w)[n] = text[n]
    BY <1>7
  <2> QED
    BY <2>1, <2>2
<1>9. \A n \in 1 .. l + 1 : a[n].token = t[n]
  <2> SUFFICES ASSUME NEW n \in 1 .. l + 1 PROVE a[n].token = t[n]
    OBVIOUS
  <2>1. CASE n = l + 1
    BY <1>5, <1>8, <2>1
  <2>2. CASE n # l + 1
    <3>1. n \in 1 .. l
      BY <2>2
    <3>2. text[n] = c[n].token
      BY <1>6, <3>1
    <3> QED
      BY <1>5, <1>8, <3>1, <3>2
  <2> QED
    BY <2>1, <2>2
<1>10. [n \in DOMAIN a |-> a[n].token] = t
  <2>1. t = [n \in 1 .. l + 1 |-> t[n]]
    <3>1. t \in Seq(T) /\ Len(t) = l + 1
      BY <1>8
    <3>2. t = [n \in 1 .. Len(t) |-> t[n]]
      BY <3>1
    <3> QED
      BY <3>1, <3>2
  <2>2. DOMAIN a = 1 .. l + 1
    BY <1>5
  <2> QED
    BY <1>9, <2>1, <2>2
<1>11. ASSUME NEW n \in 1 .. l + 1
       PROVE  (a[n].last \/ a[n].stop) <=> (n = l + 1 /\ ended)
  <2>1. CASE n = l + 1
    BY <1>5, <2>1
  <2>2. CASE n # l + 1
    <3>1. n \in 1 .. l
      BY <2>2
    <3> QED
      BY <1>5, <1>6, <2>2, <3>1
  <2> QED
    BY <2>1, <2>2
<1>12. a = Append(calls, x) /\ t = Append(text, w)
  BY <1>3, <1>5, <1>8
<1>13. IsStream(a, t, ended)
  BY <1>5, <1>10, <1>11 DEF IsStream
<1> QED
  BY <1>12, <1>13


LEMMA OneCall ==
  /\ SetToSeq({}) = <<>>
  /\ \A x : SetToSeq({x}) = <<x>>
<1>1. SetToSeq({}) = <<>>
  BY SetToSeqIs, FS_EmptySet
<1>2. ASSUME NEW x PROVE SetToSeq({x}) = <<x>>
  <2>1. PICK s \in Seq({x}) : s = SetToSeq({x}) /\ Len(s) = 1
    <3>1. IsFiniteSet({x}) /\ Cardinality({x}) = 1
      BY FS_Singleton
    <3> QED
      BY <3>1, SetToSeqIs
  <2>2. PICK t \in Seq({x}) : t = <<x>> /\ Len(t) = 1 /\ t[1] = x
    <3>1. x \in {x}
      OBVIOUS
    <3>2. <<x>> \in Seq({x})
      BY <3>1
    <3>3. Len(<<x>>) = 1 /\ <<x>>[1] = x
      OBVIOUS
    <3> QED
      BY <3>2, <3>3
  <2>3. \A n \in 1 .. 1 : s[n] = x /\ t[n] = x
    BY <2>1, <2>2
  <2>4. s = t
    BY <2>1, <2>2, <2>3, SameSequence
  <2> QED
    BY <2>1, <2>2, <2>4
<1> QED
  BY <1>1, <1>2

(* The tokens of a hypothesis that are reported.                           *)
Shown(h) ==
  IF options.returnPrefix THEN generated[h]
  ELSE SubSeq(generated[h], Len(options.prefixes[Sentence(h)]) + 1, Len(generated[h]))

StreamInv ==
  options.callback # "none" =>
    /\ DOMAIN called = Sentences(request) \X (0 .. options.numHypotheses - 1)
    /\ \A h \in Hypotheses : IsStream(called[CallbackId(h)], Shown(h), h \in finalized)

LEMMA CallbackIdIsCalled ==
  ASSUME Setup, ReportsTheResults(request), options.callback # "none", NEW h \in Hypotheses
  PROVE  CallbackId(h) \in Sentences(request) \X (0 .. options.numHypotheses - 1)
<1>1. options.callback = request.callback /\ options.numHypotheses = request.numHypotheses
  BY ArgumentsAre
<1>2. request.skipped = {}
  BY <1>1 DEF ReportsTheResults
<1>3. Sentences(request) = 1 .. Len(Run)
  BY <1>2, AllAreRun
<1> QED
  BY <1>1, <1>3, CallbackIdsDiffer

LEMMA InitStreams ==
  ASSUME Init, DecodesAlone(request), ReportsTheResults(request)
  PROVE  StreamInv
<1>1. Setup /\ finalized = {}
  BY DEF Init, Setup
<1>2. called = [id \in Sentences(request) \X (0 .. options.numHypotheses - 1) |-> <<>>]
  BY DEF Init
<1>3. ASSUME NEW h \in Hypotheses, options.callback # "none"
      PROVE  IsStream(called[CallbackId(h)], Shown(h), h \in finalized)
  <2>1. called[CallbackId(h)] = <<>>
    BY <1>1, <1>2, <1>3, CallbackIdIsCalled
  <2>2. generated[h] = <<>>
    BY DEF Init
  <2>3. PICK p \in Nat : p = Len(options.prefixes[Sentence(h)])
    <3>1. options.prefixes[Sentence(h)] \in Seq(Free(layer))
      BY <1>1, HypothesesAre, PromptsAre DEF PromptIs
    <3> QED
      BY <3>1
  <2>4. SubSeq(<<>>, p + 1, Len(<<>>)) = <<>>
    OBVIOUS
  <2>5. Shown(h) = <<>>
    BY <2>2, <2>3, <2>4 DEF Shown
  <2>6. <<>> \in Seq({}) /\ DOMAIN <<>> = {} /\ [n \in {} |-> <<>>[n].token] = <<>>
    OBVIOUS
  <2>7. IsStream(<<>>, <<>>, h \in finalized)
    BY <2>6 DEF IsStream
  <2> QED
    BY <2>1, <2>5, <2>7
<1> QED
  BY <1>2, <1>3 DEF StreamInv

(* The next token of a hypothesis is reported, if it is not in a prefix    *)
(* that is not returned; such a token is not the last one.                 *)
LEMMA ShownGrows ==
  ASSUME SearchInv, DecodesAlone(request), stage = "searching", NEW words, NEW stops,
         GiveWords(words, stops), \A j \in Positions : words[j] \in WordChoices(j),
         NEW i \in Positions, NEW h \in Hypotheses, h = batchOffset[i]
  PROVE  /\ Shown(h) \in Seq(Known(request)) /\ ToOriginal(layer, words[i]) \in Known(request)
         /\ Shown(h)' = IF IsVisible(i) THEN Append(Shown(h), ToOriginal(layer, words[i]))
                        ELSE Shown(h)
         /\ ~IsVisible(i) => ~IsFinished(i, words[i])
<1>1. Setup /\ step \in Nat /\ PositionInv(i)
  BY DEF SearchInv, AliveInv
<1>2. UNCHANGED constantVars /\ generated'[h] = Append(generated[h], ToOriginal(layer, words[i]))
        /\ words[i] \in Free(layer)
  BY WordsAreGiven
<1>3. options' = options /\ Sentence(h)' = Sentence(h)
  BY <1>2, Constants
<1>4. /\ PrefixLength(i) = Len(options.prefixes[Sentence(h)]) /\ PrefixLength(i) \in Nat
      /\ generated[h] \in Seq(Known(request)) /\ Len(generated[h]) = step
  BY <1>1, LengthsAre
<1>5. PICK w \in Known(request) : w = ToOriginal(layer, words[i])
  BY <1>1, <1>2, SetupFits DEF Fits
<1>6. PICK g \in Seq(Known(request)) : g = generated[h]
  BY <1>4
<1>7. PICK n \in Nat : n = PrefixLength(i)
  BY <1>4
<1>8. CASE options.returnPrefix
  <2>1. Shown(h) = g /\ Shown(h)' = Append(g, w)
    BY <1>2, <1>3, <1>5, <1>6, <1>8 DEF Shown
  <2> QED
    BY <1>5, <1>8, <2>1 DEF IsVisible
<1>9. CASE ~options.returnPrefix
  <2>1. /\ Shown(h) = SubSeq(g, n + 1, Len(g))
        /\ Shown(h)' = SubSeq(Append(g, w), n + 1, Len(Append(g, w)))
    BY <1>2, <1>3, <1>4, <1>5, <1>6, <1>7, <1>9 DEF Shown
  <2>2. IsVisible(i) <=> n <= Len(g)
    BY <1>1, <1>4, <1>6, <1>7, <1>9 DEF IsVisible
  <2>3. SubSeq(Append(g, w), n + 1, Len(Append(g, w)))
          = IF n <= Len(g) THEN Append(SubSeq(g, n + 1, Len(g)), w) ELSE SubSeq(g, n + 1, Len(g))
    BY EndGrows
  <2>4. SubSeq(g, n + 1, Len(g)) \in Seq(Known(request))
    <3>1. PICK l \in Nat : l = Len(g)
      OBVIOUS
    <3>2. PICK f \in Int : f = n + 1 /\ f >= 1
      OBVIOUS
    <3>3. \A j \in f .. l : g[j] \in Known(request)
      BY <3>1, <3>2
    <3> QED
      BY <3>1, <3>2, <3>3, SubSeqProperties
  <2>5. ASSUME ~IsVisible(i) PROVE ~IsFinished(i, words[i])
    <3>1. PICK max \in Nat \ {0} : max = options.maxLength
      BY <1>1, ArgumentsAre, GreedySearchAssumption DEF Setup, IsRequest
    <3>2. step < n
      BY <1>1, <1>7, <1>9, <2>5 DEF IsVisible
    <3>3. step + 1 # max + n
      BY <1>1, <3>2
    <3>4. ~IsLastStep(i)
      BY <1>7, <1>9, <3>1, <3>3 DEF IsLastStep, LastStep
    <3>5. ~(step >= PrefixLength(i))
      BY <1>1, <1>7, <3>2
    <3> QED
      BY <3>4, <3>5 DEF IsFinished
  <2> QED
    BY <1>5, <2>1, <2>2, <2>3, <2>4, <2>5
<1> QED
  BY <1>8, <1>9


(* A step adds to the stream of each hypothesis what it reports of it.     *)
LEMMA StreamsGoOn ==
  ASSUME SearchInv, DecodesAlone(request), ReportsTheResults(request), StreamInv, SearchStep
  PROVE  StreamInv'
<1>1. /\ batchOffset \in Seq(Hypotheses) /\ IsInjective(batchOffset)
      /\ Range(batchOffset) = Hypotheses \ finalized
      /\ Setup /\ step \in Nat /\ finalized \subseteq Hypotheses /\ stage = "searching"
  BY DEF SearchInv, AliveInv, SearchStep
<1>2. PICK words \in [Positions -> Outputs(layer)],
           stops \in SUBSET {i \in Positions : options.callback = "stops" /\ CallsBack(i)} :
        /\ \A i \in Positions : words[i] \in WordChoices(i)
        /\ GiveWords(words, stops)
  BY Zenon DEF SearchStep
<1>3. PICK kept : kept = Kept(words, stops)
  OBVIOUS
<1>4. Positions = DOMAIN batchOffset /\ Positions = 1 .. Len(batchOffset) /\ Len(batchOffset) \in Nat
  BY <1>1 DEF Positions
<1>5. IsKept(kept, words, stops)
  BY <1>3, <1>4, KeptIs
<1>6. \A i \in Positions : i \in Range(kept) <=> ~IsFinished(i, words[i]) /\ i \notin stops
  BY <1>5 DEF IsKept, Range
<1>7. UNCHANGED constantVars
  BY <1>2 DEF GiveWords
<1>8. /\ Hypotheses' = Hypotheses /\ options' = options /\ request' = request
      /\ \A h : Sentence(h)' = Sentence(h)
  BY <1>7, Constants
<1>9. /\ \A h \in Hypotheses : h \notin finalized <=> \E i \in Positions : h = batchOffset[i]
      /\ \A i \in Positions : batchOffset[i] \in Hypotheses
      /\ \A i, j \in Positions : batchOffset[i] = batchOffset[j] => i = j
  BY <1>1, <1>4 DEF Range, IsInjective
<1>10. finalized' = finalized \cup {batchOffset[i] : i \in Positions \ Range(kept)}
  BY <1>2, <1>3 DEF GiveWords
<1>11. \A i \in Positions :
         batchOffset[i] \in finalized' <=> IsFinished(i, words[i]) \/ i \in stops
  BY <1>6, <1>9, <1>10
<1> SUFFICES ASSUME options.callback # "none" PROVE StreamInv'
  BY <1>8 DEF StreamInv
<1>12. /\ DOMAIN called = Sentences(request) \X (0 .. options.numHypotheses - 1)
       /\ \A h \in Hypotheses : IsStream(called[CallbackId(h)], Shown(h), h \in finalized)
  BY DEF StreamInv
<1>13. called' = [id \in DOMAIN called |->
         LET at == {i \in Positions : CallsBack(i) /\ CallbackId(batchOffset[i]) = id}
         IN  called[id] \o SetToSeq({Reported(i, words[i], stops) : i \in at})]
  BY <1>2 DEF GiveWords
<1>14. ASSUME NEW h \in Hypotheses, NEW at,
              at = {i \in Positions : CallsBack(i) /\ h = batchOffset[i]}
       PROVE  called'[CallbackId(h)] =
                called[CallbackId(h)] \o SetToSeq({Reported(i, words[i], stops) : i \in at})
  <2>1. CallbackId(h) \in DOMAIN called
    BY <1>1, <1>12, CallbackIdIsCalled
  <2>2. \A i \in Positions : CallbackId(batchOffset[i]) = CallbackId(h) <=> h = batchOffset[i]
    BY <1>1, <1>9, CallbackIdsDiffer
  <2>3. {i \in Positions : CallsBack(i) /\ CallbackId(batchOffset[i]) = CallbackId(h)} = at
    BY <1>14, <2>2
  <2> QED
    BY <1>13, <2>1, <2>3
<1>15. ASSUME NEW h \in Hypotheses
       PROVE  IsStream(called'[CallbackId(h)], Shown(h)', h \in finalized')
  <2>1. PICK c : c = called[CallbackId(h)]
    OBVIOUS
  <2>2. PICK S : c \in Seq(S)
    BY <1>12, <2>1 DEF IsStream
  <2>3. PICK at : at = {i \in Positions : CallsBack(i) /\ h = batchOffset[i]}
    OBVIOUS
  <2>4. called'[CallbackId(h)] = c \o SetToSeq({Reported(i, words[i], stops) : i \in at})
    BY <1>14, <2>1, <2>3
  <2>5. ASSUME at = {} PROVE called'[CallbackId(h)] = c
    <3>1. {Reported(i, words[i], stops) : i \in at} = {}
      BY <2>5
    <3>2. c \o <<>> = c
      BY <2>2
    <3> QED
      BY <2>4, <3>1, <3>2, OneCall
  <2>6. CASE h \in finalized
    <3>1. at = {}
      BY <1>9, <2>3, <2>6
    <3>2. generated'[h] = generated[h]
      BY <1>1, <1>2, <2>6 DEF GiveWords
    <3>3. Shown(h)' = Shown(h)
      BY <1>8, <3>2 DEF Shown
    <3>4. (h \in finalized') <=> (h \in finalized)
      BY <1>10, <2>6
    <3>5. called'[CallbackId(h)] = c
      BY <2>5, <3>1
    <3>6. IsStream(c, Shown(h), h \in finalized)
      BY <1>12, <2>1
    <3>7. IsStream(c, Shown(h), h \in finalized')
      BY <3>4, <3>6 DEF IsStream
    <3> QED
      BY <3>3, <3>5, <3>7
  <2>7. CASE h \notin finalized
    <3>1. PICK i \in Positions : h = batchOffset[i]
      BY <1>9, <2>7
    <3>2. /\ Shown(h) \in Seq(Known(request)) /\ ToOriginal(layer, words[i]) \in Known(request)
          /\ Shown(h)' = IF IsVisible(i) THEN Append(Shown(h), ToOriginal(layer, words[i]))
                         ELSE Shown(h)
          /\ ~IsVisible(i) => ~IsFinished(i, words[i])
      BY <1>1, <1>2, <3>1, ShownGrows
    <3>3. CallsBack(i) <=> IsVisible(i)
      BY DEF CallsBack
    <3>4. IsStream(c, Shown(h), FALSE)
      BY <1>12, <2>1, <2>7 DEF IsStream
    <3>5. CASE IsVisible(i)
      <4>1. PICK x : x = Reported(i, words[i], stops)
        OBVIOUS
      <4>2. at = {i}
        BY <1>9, <2>3, <3>1, <3>3, <3>5
      <4>3. {Reported(j, words[j], stops) : j \in at} = {x}
        BY <4>1, <4>2
      <4>4. called'[CallbackId(h)] = c \o <<x>>
        BY <2>4, <4>3, OneCall
      <4>5. c \o <<x>> = Append(c, x)
        <5>1. PICK d \in Seq(S \cup {x}) : d = c
          BY <2>2
        <5>2. d \o <<x>> = Append(d, x)
          OBVIOUS
        <5> QED
          BY <5>1, <5>2
      <4>6. PICK w \in Known(request) : w = words[i] /\ w = ToOriginal(layer, words[i])
        <5>1. words[i] \in Free(layer)
          BY <1>1, <1>2, <3>1, WordsAreGiven
        <5>2. Last(request.restrictions) = <<>>
          BY <1>1, ArgumentsAre DEF ReportsTheResults
        <5> QED
          BY <1>1, <3>2, <5>1, <5>2, OutputsAreWords
      <4>7. x.token = w
        BY <4>1, <4>6 DEF Reported
      <4>8. PICK ended \in BOOLEAN : ended <=> h \in finalized'
        OBVIOUS
      <4>9. (x.last \/ x.stop) <=> ended
        <5>1. x.last <=> IsFinished(i, words[i])
          BY <4>1 DEF Reported
        <5>2. x.stop <=> i \in stops
          BY <4>1 DEF Reported
        <5> QED
          BY <1>11, <3>1, <4>8, <5>1, <5>2
      <4>10. PICK text \in Seq(Known(request)) : text = Shown(h)
        BY <3>2
      <4>11. IsStream(Append(c, x), Append(text, w), ended)
        BY <3>4, <4>7, <4>9, <4>10, StreamGrows
      <4>12. IsStream(Append(c, x), Append(text, w), h \in finalized')
        BY <4>8, <4>11 DEF IsStream
      <4> QED
        BY <3>2, <3>5, <4>4, <4>5, <4>6, <4>10, <4>12
    <3>6. CASE ~IsVisible(i)
      <4>1. at = {}
        BY <1>9, <2>3, <3>1, <3>3, <3>6
      <4>2. h \notin finalized'
        <5>1. i \notin stops
          BY <1>2, <3>3, <3>6
        <5> QED
          BY <1>11, <3>1, <3>2, <3>6, <5>1
      <4>3. IsStream(c, Shown(h), h \in finalized')
        BY <3>4, <4>2 DEF IsStream
      <4> QED
        BY <2>5, <3>2, <3>6, <4>1, <4>3
    <3> QED
      BY <3>5, <3>6
  <2> QED
    BY <2>6, <2>7
<1>16. DOMAIN called' = DOMAIN called
  BY <1>13
<1>17. \A h : CallbackId(h)' = CallbackId(h)
  BY <1>8 DEF CallbackId
<1> QED
  BY <1>8, <1>12, <1>15, <1>16, <1>17 DEF StreamInv


(* The text that the callback got under the numbers of a hypothesis.       *)
CalledText(id) ==
  LET tokens == [n \in DOMAIN called[id] |-> called[id][n].token]
  IN  IF options.includeEos THEN tokens ELSE Without(tokens, request.endIds)

(* It is that of the hypothesis.                                           *)
LEMMA TextIsCollected ==
  ASSUME Setup, DecodesAlone(request), ReportsTheResults(request), options.callback # "none",
         StreamInv, NEW h \in Hypotheses, HypothesisInv(h)
  PROVE  /\ CalledText(CallbackId(h)) = Collected(h)
         /\ Restored(hypotheses[h]).tokens = Collected(h)
<1>1. IsStream(called[CallbackId(h)], Shown(h), h \in finalized)
  BY DEF StreamInv
<1>2. [n \in DOMAIN called[CallbackId(h)] |-> called[CallbackId(h)][n].token] = Shown(h)
  BY <1>1 DEF IsStream
<1>3. options.includeEos = (request.kind # "transcribe")
  BY DEF Setup, Arguments
<1>4. CalledText(CallbackId(h)) =
        IF request.kind # "transcribe" THEN Shown(h) ELSE Without(Shown(h), request.endIds)
  BY <1>2, <1>3 DEF CalledText
<1>5. request.kind = "transcribe" => options.returnPrefix
  BY ArgumentsAre DEF ReturnPrefix
<1>6. CalledText(CallbackId(h)) = Collected(h)
  BY <1>4, <1>5 DEF Collected, Shown
<1>7. Restored(hypotheses[h]).tokens = Collected(h)
  <2>1. IsHypothesis(h) /\ MapBack(layer, hypotheses[h].tokens) = Collected(h)
    BY DEF HypothesisInv
  <2>2. Restored(hypotheses[h]) = [tokens |-> MapBack(layer, hypotheses[h].tokens),
                                    score |-> hypotheses[h].score]
    BY <2>1, HypothesisIs
  <2>3. PICK m : m = MapBack(layer, hypotheses[h].tokens)
    OBVIOUS
  <2> QED
    BY <2>1, <2>2, <2>3
<1> QED
  BY <1>6, <1>7

(* The hypotheses of a sentence are reported, each of them once.           *)
IsStreamed(ids, decoded) ==
  /\ \A id \in ids : \A n \in DOMAIN called[id] :
       (called[id][n].last \/ called[id][n].stop) <=> n = Len(called[id])
  /\ \A x : Cardinality({id \in ids : CalledText(id) = x})
              = Cardinality({m \in DOMAIN decoded : decoded[m].tokens = x})

LEMMA SentenceIsStreamed ==
  ASSUME Setup, DecodesAlone(request), ReportsTheResults(request), options.callback # "none",
         StreamInv, finalized = Hypotheses, \A h \in Hypotheses : HypothesisInv(h),
         NEW b \in Sentences(request), NEW ids, ids = {id \in DOMAIN called : id[1] = b}
  PROVE  IsStreamed(ids, Merged(b))
<1>1. PICK num \in Nat \ {0} : num = request.numHypotheses /\ num = options.numHypotheses
  BY ArgumentsAre
<1>2. b \in 1 .. Len(Run)
  <2>1. request.skipped = {}
    BY ArgumentsAre DEF ReportsTheResults
  <2> QED
    BY <2>1, AllAreRun
<1>3. \A h \in Hypotheses : IsHypothesis(h)
  BY DEF HypothesisInv
<1>4. PICK r : IsMergedBy(r, Merged(b), b)
  BY <1>2, <1>3, MergedIs
<1>5. PICK decoded : decoded = Merged(b)
  OBVIOUS
<1>6. /\ r \in [1 .. num -> 1 .. num] /\ \A p \in 1 .. num : \E n \in 1 .. num : r[n] = p
      /\ decoded = [n \in 1 .. num |-> Restored(hypotheses[Place(b, r[n])])]
  BY <1>1, <1>4, <1>5 DEF IsMergedBy
<1>7. \A m, n \in 1 .. num : r[m] = r[n] => m = n
  <2>1. r \in Surjection(1 .. num, 1 .. num)
    BY <1>6 DEF Surjection
  <2>2. IsFiniteSet(1 .. num)
    <3>1. 1 \in Int /\ num \in Int
      OBVIOUS
    <3> QED
      BY <3>1, FS_Interval
  <2>3. r \in Injection(1 .. num, 1 .. num)
    BY <2>1, <2>2, FS_Surjection
  <2> QED
    BY <2>3 DEF Injection, IsInjective
<1>8. ids = {<<b, p - 1>> : p \in 1 .. num}
  <2>1. DOMAIN called = Sentences(request) \X (0 .. num - 1)
    BY <1>1 DEF StreamInv
  <2>2. \A p \in 1 .. num : p - 1 \in 0 .. num - 1
    OBVIOUS
  <2>3. \A j \in 0 .. num - 1 : j + 1 \in 1 .. num /\ (j + 1) - 1 = j
    OBVIOUS
  <2>4. ASSUME NEW id \in ids PROVE \E p \in 1 .. num : id = <<b, p - 1>>
    <3>1. PICK j \in 0 .. num - 1 : id = <<b, j>>
      BY <2>1
    <3> QED
      BY <2>3, <3>1
  <2>5. ASSUME NEW p \in 1 .. num PROVE <<b, p - 1>> \in ids
    BY <2>1, <2>2
  <2> QED
    BY <2>4, <2>5
<1>9. ASSUME NEW p \in 1 .. num
      PROVE  Place(b, p) \in Hypotheses /\ CallbackId(Place(b, p)) = <<b, p - 1>>
  BY <1>1, <1>2, CallbackIdIs
<1>10. ASSUME NEW p \in 1 .. num
       PROVE  CalledText(<<b, p - 1>>) = Restored(hypotheses[Place(b, p)]).tokens
  <2>1. PICK h \in Hypotheses : h = Place(b, p) /\ CallbackId(h) = <<b, p - 1>>
    BY <1>9
  <2>2. CalledText(CallbackId(h)) = Collected(h) /\ Restored(hypotheses[h]).tokens = Collected(h)
    BY TextIsCollected
  <2> QED
    BY <2>1, <2>2
<1>11. ASSUME NEW id \in ids, NEW n \in DOMAIN called[id]
       PROVE  (called[id][n].last \/ called[id][n].stop) <=> n = Len(called[id])
  <2>1. PICK p \in 1 .. num : id = <<b, p - 1>>
    BY <1>8
  <2>2. PICK h \in Hypotheses : CallbackId(h) = id
    BY <1>9, <2>1
  <2>3. IsStream(called[id], Shown(h), h \in finalized)
    BY <2>2 DEF StreamInv
  <2> QED
    BY <2>3 DEF IsStream
<1>12. ASSUME NEW x
       PROVE  Cardinality({id \in ids : CalledText(id) = x})
                = Cardinality({m \in DOMAIN decoded : decoded[m].tokens = x})
  <2> DEFINE M == {m \in 1 .. num : decoded[m].tokens = x}
             T == {id \in ids : CalledText(id) = x}
             f == [m \in M |-> <<b, r[m] - 1>>]
  <2>1. DOMAIN decoded = 1 .. num
    BY <1>6
  <2>2. \A m \in 1 .. num : /\ r[m] \in 1 .. num /\ <<b, r[m] - 1>> \in ids
                            /\ CalledText(<<b, r[m] - 1>>) = decoded[m].tokens
    BY <1>6, <1>8, <1>10
  <2>3. f \in [M -> T]
    BY <2>2
  <2>4. ASSUME NEW m \in M, NEW n \in M, f[m] = f[n] PROVE m = n
    <3>1. r[m] - 1 = r[n] - 1
      BY <2>4
    <3>2. m \in 1 .. num /\ n \in 1 .. num
      OBVIOUS
    <3>3. r[m] \in 1 .. num /\ r[n] \in 1 .. num
      BY <2>2, <3>2
    <3> QED
      BY <1>7, <3>1, <3>2, <3>3
  <2>5. ASSUME NEW id \in T PROVE \E m \in M : f[m] = id
    <3>1. PICK p \in 1 .. num : id = <<b, p - 1>>
      BY <1>8
    <3>2. PICK m \in 1 .. num : r[m] = p
      BY <1>6
    <3>3. m \in M
      BY <2>2, <3>1, <3>2
    <3> QED
      BY <3>1, <3>2, <3>3
  <2>6. IsFiniteSet(M)
    <3>1. 1 \in Int /\ num \in Int
      OBVIOUS
    <3>2. IsFiniteSet(1 .. num)
      BY <3>1, FS_Interval
    <3>3. M \in SUBSET (1 .. num)
      OBVIOUS
    <3> QED
      BY <3>2, <3>3, FS_Subset
  <2> HIDE DEF M, T, f
  <2>7. f \in Bijection(M, T)
    BY <2>3, <2>4, <2>5 DEF Bijection, Injection, Surjection, IsInjective
  <2>8. Cardinality(T) = Cardinality(M)
    BY <2>6, <2>7, FS_Bijection DEF ExistsBijection
  <2> QED
    BY <2>1, <2>8 DEF M, T
<1>13. IsStreamed(ids, decoded)
  BY <1>11, <1>12, Zenon DEF IsStreamed
<1> QED
  BY <1>5, <1>13

(* The same of calls, an option, end tokens, the sentences that are run, a *)
(* sentence and its results.                                               *)
IsReported(calls, includeEos, endIds, run, b, decoded) ==
  LET ids == {id \in DOMAIN calls : id[1] = b}
      Streamed(id) == [n \in DOMAIN calls[id] |-> calls[id][n].token]
      Text(id) == IF includeEos THEN Streamed(id) ELSE Without(Streamed(id), endIds)
  IN  /\ \A id \in ids : \A n \in DOMAIN calls[id] :
           (calls[id][n].last \/ calls[id][n].stop) <=> n = Len(calls[id])
      /\ b \notin run => \A id \in ids : calls[id] = <<>>
      /\ \A n \in DOMAIN decoded :
           Cardinality({id \in ids : Text(id) = decoded[n].tokens})
             = Cardinality({m \in DOMAIN decoded : decoded[m].tokens = decoded[n].tokens})

(* The results are those that were reported.                               *)
LEMMA ResultsAreStreamed ==
  ASSUME SearchInv, AnswersInv, DecodesAlone(request), ReportsTheResults(request), StreamInv,
         MergeResults
  PROVE  StreamInv' /\ CallbackStreamsHypotheses'
<1>1. /\ Setup /\ stage = "merging" /\ stage' = "returned"
      /\ UNCHANGED constantVars /\ hypotheses' = hypotheses /\ generated' = generated
      /\ finalized' = finalized /\ called' = called
      /\ results' = [k \in Batch |-> Merged(k)]
  BY DEF SearchInv, MergeResults
<1>2. /\ request' = request /\ options' = options
      /\ Run' = Run /\ Hypotheses' = Hypotheses /\ \A h : Sentence(h)' = Sentence(h)
  BY <1>1, Constants
<1>3. finalized = Hypotheses /\ \A h \in Hypotheses : HypothesisInv(h)
  BY <1>1 DEF AnswersInv
<1>4. StreamInv'
  <2>1. \A h : Shown(h)' = Shown(h) /\ CallbackId(h)' = CallbackId(h)
    BY <1>1, <1>2 DEF Shown, CallbackId
  <2> QED
    BY <1>1, <1>2, <2>1 DEF StreamInv
<1> SUFFICES ASSUME options.callback # "none" PROVE CallbackStreamsHypotheses'
  BY <1>2, <1>4 DEF CallbackStreamsHypotheses
<1>5. /\ Batch = Sentences(request)
      /\ \A b \in Sentences(request) : b \in Range(Run) /\ PositionInRun(b) = b
  <2>1. request.skipped = {}
    BY <1>1, ArgumentsAre DEF ReportsTheResults
  <2>2. Sentences(request) = 1 .. Len(Run) /\ \A b \in Sentences(request) : Run[b] = b /\ b \in Range(Run)
    BY <1>1, <2>1, AllAreRun
  <2>3. Batch = 1 .. Len(Run)
    BY <1>1, ArgumentsAre
  <2>4. \A b \in Sentences(request) : PositionInRun(Run[b]) = b
    BY <1>1, <2>2, RunOnce
  <2> QED
    BY <2>2, <2>3, <2>4
<1>6. ASSUME NEW b \in Sentences(request), NEW ids, ids = {id \in DOMAIN called : id[1] = b}
      PROVE  IsStreamed(ids, results'[b])
  <2>1. results'[b] = Merged(b)
    BY <1>1, <1>5
  <2>2. IsStreamed(ids, Merged(b))
    BY <1>1, <1>3, <1>6, SentenceIsStreamed
  <2> QED
    BY <2>1, <2>2
<1>7. ASSUME NEW b \in Sentences(request)
      PROVE  IsReported(called', options'.includeEos, request'.endIds, Range(Run'), b,
                        IF b \in Range(Run') THEN results'[PositionInRun(b)'] ELSE <<>>)
  <2>1. PICK ids : ids = {id \in DOMAIN called : id[1] = b}
    OBVIOUS
  <2>2. PICK decoded : decoded = results'[b]
    OBVIOUS
  <2>3. b \in Range(Run) /\ PositionInRun(b) = b
    BY <1>5
  <2>4. (IF b \in Range(Run') THEN results'[PositionInRun(b)'] ELSE <<>>) = decoded
    <3>1. PositionInRun(b)' = PositionInRun(b)
      BY <1>2 DEF PositionInRun
    <3> QED
      BY <1>2, <2>2, <2>3, <3>1
  <2>5. IsStreamed(ids, decoded)
    BY <1>6, <2>1, <2>2
  <2>6. /\ \A id \in ids : \A n \in DOMAIN called[id] :
             (called[id][n].last \/ called[id][n].stop) <=> n = Len(called[id])
        /\ \A x : Cardinality({id \in ids : CalledText(id) = x})
                    = Cardinality({m \in DOMAIN decoded : decoded[m].tokens = x})
    BY <2>5 DEF IsStreamed
  <2>7. IsReported(called, options.includeEos, request.endIds, Range(Run), b, decoded)
    BY <2>1, <2>3, <2>6 DEF IsReported, CalledText
  <2> QED
    BY <1>1, <1>2, <2>4, <2>7
<1>8. (Sentences(request))' = Sentences(request)
  BY <1>2
<1>9. \A b \in Sentences(request)' :
        IsReported(called', options'.includeEos, request'.endIds, Range(Run'), b,
                   IF b \in Range(Run') THEN results'[PositionInRun(b)'] ELSE <<>>)
  BY <1>7, <1>8
<1> QED
  BY <1>4, <1>9, Zenon DEF CallbackStreamsHypotheses, IsReported


(* The callback of a greedy search gets the results: if the requests stay  *)
(* within the conditions of DecodesAlone, and no sentence is skipped and no*)
(* word left out of the output layer when there is a callback, then what it*)
(* got under one batch_id and hypothesis_id until decode returns is one of *)
(* the results of that sentence, token after token and each result once;   *)
(* and is_last, or the answer of the callback, ends it and nothing else.   *)
THEOREM CallbackGetsTheResults ==
  ASSUME \A r \in AllRequests : DecodesAlone(r) /\ ReportsTheResults(r)
  PROVE  Spec => []CallbackStreamsHypotheses
<1> DEFINE Inv == SearchInv /\ AnswersInv /\ StreamInv /\ CallbackStreamsHypotheses
<1>1. Init => Inv
  <2> SUFFICES ASSUME Init PROVE Inv
    OBVIOUS
  <2>1. DecodesAlone(request) /\ ReportsTheResults(request)
    BY DEF Init
  <2>2. stage # "returned"
    BY DEF Init
  <2> QED
    BY <2>1, <2>2, InitIs, InitAnswers, InitStreams DEF CallbackStreamsHypotheses
<1>2. Inv /\ [Next]_vars => Inv'
  <2> SUFFICES ASSUME Inv, [Next]_vars PROVE Inv'
    OBVIOUS
  <2>1. DecodesAlone(request) /\ ReportsTheResults(request)
    BY DEF SearchInv, Setup
  <2>2. SearchInv' /\ AnswersInv'
    BY <2>1, SearchGoesOn
  <2>3. CASE SearchStep
    <3>1. stage' # "returned"
      BY <2>1, <2>2, <2>3, StepAnswers
    <3>2. StreamInv'
      BY <2>1, <2>3, StreamsGoOn
    <3> QED
      BY <2>2, <3>1, <3>2 DEF CallbackStreamsHypotheses
  <2>4. CASE MergeResults
    BY <2>1, <2>2, <2>4, ResultsAreStreamed
  <2>5. CASE UNCHANGED vars
    <3>1. UNCHANGED constantVars /\ UNCHANGED <<called, generated, finalized, results, stage>>
      BY <2>5 DEF vars
    <3>2. /\ request' = request /\ options' = options /\ Run' = Run /\ Hypotheses' = Hypotheses
          /\ \A h : Sentence(h)' = Sentence(h)
      BY <3>1, Constants
    <3>3. \A h : Shown(h)' = Shown(h) /\ CallbackId(h)' = CallbackId(h)
      BY <3>1, <3>2 DEF Shown, CallbackId
    <3>4. StreamInv'
      BY <3>1, <3>2, <3>3 DEF StreamInv
    <3>5. \A b : PositionInRun(b)' = PositionInRun(b)
      BY <3>2 DEF PositionInRun
    <3> DEFINE Decoded(b) == IF b \in Range(Run) THEN results[PositionInRun(b)] ELSE <<>>
               Streamed ==
                 stage = "returned" /\ options.callback # "none" =>
                   \A b \in Sentences(request) :
                     IsReported(called, options.includeEos, request.endIds, Range(Run), b, Decoded(b))
    <3>6. Streamed
      BY Zenon DEF CallbackStreamsHypotheses, IsReported
    <3>7. Streamed'
      <4>1. \A b : Decoded(b)' = Decoded(b)
        BY <3>1, <3>2, <3>5
      <4> QED
        BY ONLY <3>1, <3>2, <3>6, <4>1
    <3>8. CallbackStreamsHypotheses'
      BY <3>7, Zenon DEF CallbackStreamsHypotheses, IsReported
    <3> QED
      BY <2>2, <3>4, <3>8
  <2> QED
    BY <2>3, <2>4, <2>5 DEF Next, Terminated
<1>3. Inv => CallbackStreamsHypotheses
  OBVIOUS
<1> QED
  BY <1>1, <1>2, <1>3, PTL DEF Spec

=============================================================================
