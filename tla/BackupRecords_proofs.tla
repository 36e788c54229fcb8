------------------------- MODULE BackupRecords_proofs -------------------------
(***************************************************************************)
(* Facts about the edits of a log, cited by the proofs about every module  *)
(* that keeps one: what they leave of its shape, and which records they    *)
(* touch when identifiers name one record each.  Then facts about sums     *)
(* over finite sets, which the totals of the stores are.                   *)
(***************************************************************************)
EXTENDS BackupRecords, FiniteSetTheorems, TLAPS

(* A freshly made record is a record.                                       *)
LEMMA NewRecordType ==
    ASSUME NEW t \in Targets, NEW now \in Nat
    PROVE  NewRecord(t, now) \in Record
  BY RecordsAssumption DEF NewRecord, Record, IdAt, Ids, Statuses, NoTime

(* Appending under a fresh number keeps a log a log.                        *)
LEMMA WithNewType ==
    ASSUME NEW bs, IsLog(bs), NEW n \in Numbers, NEW t \in Targets, NEW now \in Nat
    PROVE  IsLog(WithNew(bs, n, t, now))
  BY NewRecordType DEF IsLog, WithNew

(* So does each edit of the first match.                                    *)
LEMMA WithStatusType ==
    ASSUME NEW bs, IsLog(bs), NEW id, NEW status \in Statuses,
           NEW paths \in SUBSET Organisations, NEW size \in Nat, NEW now \in Nat
    PROVE  IsLog(WithStatus(bs, id, status, paths, size, now))
  <1>1. ASSUME NEW r \in Record PROVE Settled(r, status, paths, size, now) \in Record
    BY DEF Settled, Record
  <1> QED BY <1>1 DEF IsLog, WithStatus, EditFirst

(* Recording an upload keeps a log a log.                                   *)
LEMMA WithUploadType ==
    ASSUME NEW bs, IsLog(bs), NEW id, NEW status \in Statuses
    PROVE  IsLog(WithUpload(bs, id, status))
  <1>1. ASSUME NEW r \in Record PROVE Uploaded(r, status) \in Record
    BY DEF Uploaded, Record
  <1> QED BY <1>1 DEF IsLog, WithUpload, EditFirst

(* Marking a record deleted keeps a log a log.                              *)
LEMMA WithDeletionType ==
    ASSUME NEW bs, IsLog(bs), NEW id
    PROVE  IsLog(WithDeletion(bs, id))
  <1>1. ASSUME NEW r \in Record PROVE Deleted(r) \in Record
    BY DEF Deleted, Record, Statuses
  <1> QED BY <1>1 DEF IsLog, WithDeletion, EditFirst

(* Purging restricts the log.                                               *)
LEMMA PurgedType ==
    ASSUME NEW bs, IsLog(bs), NEW now
    PROVE  IsLog(Purged(bs, now))
  BY DEF IsLog, Purged

(* The empty log is a log.                                                  *)
LEMMA EmptyLogType == IsLog(EmptyLog)
  BY DEF IsLog, EmptyLog, Numbers

-------------------------------------------------------------------------------
(* The numbers in use after each edit, and the fields no edit touches.      *)
LEMMA EditDomains ==
    /\ \A bs, n, t, now : DOMAIN WithNew(bs, n, t, now) = DOMAIN bs \cup {n}
    /\ \A bs, id, status, paths, size, now :
          DOMAIN WithStatus(bs, id, status, paths, size, now) = DOMAIN bs
    /\ \A bs, id, status : DOMAIN WithUpload(bs, id, status) = DOMAIN bs
    /\ \A bs, id : DOMAIN WithDeletion(bs, id) = DOMAIN bs
    /\ \A bs, now : DOMAIN Purged(bs, now) \subseteq DOMAIN bs
  BY DEF WithNew, WithStatus, WithUpload, WithDeletion, EditFirst, Purged

(* Each identifier of the log belongs to one record.                        *)
OneRecordEach(bs) == \A m, n \in DOMAIN bs : bs[m].id = bs[n].id => m = n

(* Then the first match of an identifier is the only one ...                *)
LEMMA FirstIsTheOne ==
    ASSUME NEW bs, IsLog(bs), OneRecordEach(bs), NEW n \in DOMAIN bs, NEW id
    PROVE  IsFirst(bs, id, n) <=> bs[n].id = id
  <1>1. n \in Int
    BY DEF IsLog, Numbers
  <1>2. ASSUME bs[n].id = id PROVE \A m \in Matches(bs, id) : n <= m
    <2> SUFFICES ASSUME NEW m \in Matches(bs, id) PROVE n <= m
      OBVIOUS
    <2>1. m = n
      BY <1>2 DEF Matches, OneRecordEach
    <2> QED BY <1>1, <2>1
  <1> QED BY <1>2 DEF IsFirst, Matches

(* ... and the edits by identifier touch that record alone.                 *)
LEMMA EditsTheOne ==
    ASSUME NEW bs, IsLog(bs), OneRecordEach(bs), NEW n \in DOMAIN bs, NEW id, NEW now
    PROVE  /\ \A status, paths, size :
                 WithStatus(bs, id, status, paths, size, now)[n] =
                     IF bs[n].id = id THEN Settled(bs[n], status, paths, size, now) ELSE bs[n]
           /\ \A status : WithUpload(bs, id, status)[n] =
                     IF bs[n].id = id THEN Uploaded(bs[n], status) ELSE bs[n]
           /\ WithDeletion(bs, id)[n] = IF bs[n].id = id THEN Deleted(bs[n]) ELSE bs[n]
  BY FirstIsTheOne DEF WithStatus, WithUpload, WithDeletion, EditFirst

-------------------------------------------------------------------------------
(* Some subset among several contains no other of them: induction over the  *)
(* subsets of a finite set goes by a least counterexample.                  *)
LEMMA LeastCounterexample ==
    ASSUME NEW S, IsFiniteSet(S), NEW T, T \subseteq SUBSET S, T # {}
    PROVE  \E s \in T : \A t \in T : t \subseteq s => t = s
  <1> DEFINE R == StrictSubsetOrdering(S)
             D == FiniteSubsetsOf(S)
  <1>1. IsWellFoundedOn(R, D)
    BY FS_StrictSubsetOrderingWellFounded
  <1>2. T \subseteq D
    BY FS_Subset DEF FiniteSubsetsOf
  <1>3. PICK s \in T : \A t \in T : ~(<<t, s>> \in R)
    <2> HIDE DEF R, D
    <2> QED BY <1>1, <1>2, WFMin
  <1> QED BY <1>3 DEF StrictSubsetOrdering

(* A sum goes through a set from one chosen element to the next.            *)
Pick(s) == CHOOSE x \in s : TRUE
SumFrom(g, f, s) == IF s = {} THEN 0 ELSE f[Pick(s)] + g[s \ {Pick(s)}]
Sums(g, f, S) == g = [s \in SUBSET S |-> SumFrom(g, f, s)]

(* The chosen element is one, and the set is smaller without it.            *)
LEMMA Picked == \A s : s # {} => Pick(s) \in s /\ s \ {Pick(s)} \subseteq s /\ s \ {Pick(s)} # s
  BY DEF Pick

(* Two functions that go through sets like that agree where both are        *)
(* defined ...                                                              *)
LEMMA SumsAgree ==
    ASSUME NEW S, IsFiniteSet(S), NEW f, NEW A, A \subseteq S, NEW B, B \subseteq S,
           NEW g, Sums(g, f, A), NEW h, Sums(h, f, B), NEW s \in SUBSET A, s \in SUBSET B
    PROVE  g[s] = h[s]
  <1> DEFINE Bad == {t \in SUBSET S : t \subseteq A /\ t \subseteq B /\ g[t] # h[t]}
  <1> SUFFICES ASSUME Bad # {} PROVE FALSE
    OBVIOUS
  <1>1. PICK t \in Bad : \A u \in Bad : u \subseteq t => u = t
    <2>1. Bad \subseteq SUBSET S
      OBVIOUS
    <2> HIDE DEF Bad
    <2> QED BY <2>1, LeastCounterexample
  <1>2. g[t] = SumFrom(g, f, t) /\ h[t] = SumFrom(h, f, t)
    BY <1>1 DEF Sums
  <1>3. t # {}
    BY <1>1, <1>2 DEF SumFrom
  <1>4. g[t \ {Pick(t)}] = h[t \ {Pick(t)}]
    BY <1>1, <1>3, Picked
  <1> QED BY <1>1, <1>2, <1>4 DEF SumFrom

(* ... and there is one on the subsets of every finite set.                 *)
LEMMA SumsExist ==
    ASSUME NEW S, IsFiniteSet(S), NEW f
    PROVE  \E g : Sums(g, f, S)
  <1> DEFINE Bad == {t \in SUBSET S : ~\E g : Sums(g, f, t)}
             sum(t) == CHOOSE g : Sums(g, f, t)
             value(s) == IF s = {} THEN 0
                         ELSE f[Pick(s)] + sum(s \ {Pick(s)})[s \ {Pick(s)}]
  <1> SUFFICES ASSUME Bad # {} PROVE FALSE
    OBVIOUS
  <1>1. PICK t \in Bad : \A u \in Bad : u \subseteq t => u = t
    <2>1. Bad \subseteq SUBSET S
      OBVIOUS
    <2> HIDE DEF Bad
    <2> QED BY <2>1, LeastCounterexample
  <1>2. \A u \in SUBSET t : u # t => Sums(sum(u), f, u)
    BY <1>1
  <1> DEFINE h == [s \in SUBSET t |-> value(s)]
  <1> HIDE DEF sum
  <1>3. ASSUME NEW u \in SUBSET t, u # t PROVE sum(u)[u] = value(u)
    <2>1. sum(u)[u] = SumFrom(sum(u), f, u)
      BY <1>2, <1>3 DEF Sums
    <2>2. ASSUME u # {} PROVE sum(u)[u \ {Pick(u)}] = sum(u \ {Pick(u)})[u \ {Pick(u)}]
      <3> DEFINE w == u \ {Pick(u)}
      <3>1. w \in SUBSET u /\ w \in SUBSET t /\ w # t
        BY <2>2, <1>3, Picked
      <3>2. Sums(sum(u), f, u) /\ Sums(sum(w), f, w)
        BY <1>2, <1>3, <3>1
      <3> HIDE DEF w
      <3>3. u \subseteq S /\ w \subseteq S
        BY <1>1, <3>1
      <3>4. sum(u)[w] = sum(w)[w]
        <4> DEFINE gu == sum(u)
                   gw == sum(w)
        <4>1. Sums(gu, f, u) /\ Sums(gw, f, w) /\ w \in SUBSET u /\ w \in SUBSET w
          BY <3>1, <3>2
        <4> HIDE DEF gu, gw
        <4>2. gu[w] = gw[w]
          BY <3>3, <4>1, SumsAgree
        <4> QED BY <4>2 DEF gu, gw
      <3> QED BY <3>4 DEF w
    <2> QED BY <2>1, <2>2 DEF SumFrom
  <1>4. ASSUME NEW s \in SUBSET t PROVE value(s) = SumFrom(h, f, s)
    <2>1. CASE s = {}
      BY <2>1 DEF SumFrom
    <2>2. CASE s # {}
      <3> DEFINE w == s \ {Pick(s)}
      <3>1. w \in SUBSET t /\ w # t
        BY <2>2, Picked
      <3> HIDE DEF w
      <3>2. h[w] = sum(w)[w]
        BY <1>3, <3>1
      <3> HIDE DEF h
      <3>3. value(s) = f[Pick(s)] + sum(w)[w]
        BY <2>2 DEF w
      <3>4. SumFrom(h, f, s) = f[Pick(s)] + h[w]
        BY <2>2 DEF SumFrom, w
      <3> QED BY <3>2, <3>3, <3>4
    <2> QED BY <2>1, <2>2
  <1>5. Sums(h, f, t)
    <2> HIDE DEF value
    <2>1. h = [s \in SUBSET t |-> SumFrom(h, f, s)]
      BY <1>4
    <2> HIDE DEF h
    <2> QED BY <2>1 DEF Sums
  <1> QED BY <1>1, <1>5

(* What a sum is made of.                                                   *)
LEMMA SumByPicking ==
    ASSUME NEW f
    PROVE  /\ SumFunctionOnSet(f, {}) = 0
           /\ \A S : IsFiniteSet(S) /\ S # {} =>
                 SumFunctionOnSet(f, S) = f[Pick(S)] + SumFunctionOnSet(f, S \ {Pick(S)})
  <1> DEFINE sum(S) == CHOOSE g : Sums(g, f, S)
  <1>1. \A S : SumFunctionOnSet(f, S) = sum(S)[S]
    BY DEF SumFunctionOnSet, FoldFunctionOnSet, MapThenFoldSet, Sums, SumFrom, Pick
  <1>2. \A S : IsFiniteSet(S) => Sums(sum(S), f, S)
    BY SumsExist
  <1> HIDE DEF sum
  <1>3. SumFunctionOnSet(f, {}) = 0
    <2>1. IsFiniteSet({})
      BY FS_EmptySet
    <2> QED BY <1>1, <1>2, <2>1 DEF Sums, SumFrom
  <1>4. ASSUME NEW S, IsFiniteSet(S), S # {}
        PROVE  SumFunctionOnSet(f, S) = f[Pick(S)] + SumFunctionOnSet(f, S \ {Pick(S)})
    <2> DEFINE w == S \ {Pick(S)}
    <2>1. w \subseteq S
      OBVIOUS
    <2> HIDE DEF w
    <2>2. IsFiniteSet(w)
      BY <1>4, <2>1, FS_Subset
    <2>3. Sums(sum(S), f, S) /\ Sums(sum(w), f, w)
      BY <1>2, <1>4, <2>2
    <2>4. sum(S)[w] = sum(w)[w]
      BY <1>4, <2>1, <2>3, SumsAgree
    <2>5. sum(S)[S] = f[Pick(S)] + sum(S)[w]
      BY <1>4, <2>3 DEF Sums, SumFrom, w
    <2> QED BY <1>1, <2>4, <2>5 DEF w
  <1> QED BY <1>3, <1>4

(* A sum of natural numbers is one.                                         *)
LEMMA SumType ==
    ASSUME NEW S, IsFiniteSet(S), NEW f, \A x \in S : f[x] \in Nat
    PROVE  SumFunctionOnSet(f, S) \in Nat
  <1> DEFINE sum(s) == SumFunctionOnSet(f, s)
             Bad == {t \in SUBSET S : sum(t) \notin Nat}
  <1>1. /\ sum({}) = 0
        /\ \A s \in SUBSET S : s # {} => sum(s) = f[Pick(s)] + sum(s \ {Pick(s)})
    BY SumByPicking, FS_Subset
  <1> HIDE DEF sum
  <1> SUFFICES ASSUME Bad # {} PROVE FALSE
    BY DEF sum
  <1>2. PICK t \in Bad : \A u \in Bad : u \subseteq t => u = t
    <2>1. Bad \subseteq SUBSET S
      OBVIOUS
    <2> HIDE DEF Bad
    <2> QED BY <2>1, LeastCounterexample
  <1>3. t # {}
    <2>1. sum({}) \in Nat /\ sum(t) \notin Nat
      BY <1>1, <1>2
    <2> QED BY <2>1
  <1>4. sum(t \ {Pick(t)}) \in Nat
    BY <1>2, <1>3, Picked
  <1>5. f[Pick(t)] \in Nat
    BY <1>2, <1>3, Picked
  <1> QED BY <1>1, <1>2, <1>3, <1>4, <1>5

(* It is the same whichever element is taken out of it first ...            *)
LEMMA SumRemoves ==
    ASSUME NEW S, IsFiniteSet(S), NEW f, \A x \in S : f[x] \in Nat, NEW x \in S
    PROVE  SumFunctionOnSet(f, S) = f[x] + SumFunctionOnSet(f, S \ {x})
  <1> DEFINE sum(s) == SumFunctionOnSet(f, s)
             Bad == {t \in SUBSET S : \E y \in t : sum(t) # f[y] + sum(t \ {y})}
  <1>1. \A s \in SUBSET S : s # {} => sum(s) = f[Pick(s)] + sum(s \ {Pick(s)})
    BY SumByPicking, FS_Subset
  <1>2. \A s \in SUBSET S : sum(s) \in Nat
    BY SumType, FS_Subset
  <1> HIDE DEF sum
  <1> SUFFICES ASSUME Bad # {} PROVE FALSE
    BY DEF sum
  <1>3. PICK t \in Bad : \A u \in Bad : u \subseteq t => u = t
    <2>1. Bad \subseteq SUBSET S
      OBVIOUS
    <2> HIDE DEF Bad
    <2> QED BY <2>1, LeastCounterexample
  <1>4. PICK y \in t : sum(t) # f[y] + sum(t \ {y})
    BY <1>3
  <1> DEFINE p == Pick(t)
             a == t \ {p}
             b == t \ {y}
             c == (t \ {p}) \ {y}
  <1>5. p \in t /\ a \subseteq t /\ a # t /\ sum(t) = f[p] + sum(a)
    BY <1>1, <1>3, <1>4, Picked
  <1> HIDE DEF p
  <1>6. y # p
    BY <1>4, <1>5
  <1>7. a \notin Bad /\ b \notin Bad
    BY <1>3, <1>4, <1>5
  <1>8. sum(a) = f[y] + sum(c)
    BY <1>3, <1>4, <1>6, <1>7
  <1>9. sum(b) = f[p] + sum(c)
    <2>1. b \ {p} = c /\ p \in b
      BY <1>5, <1>6
    <2> HIDE DEF c
    <2> QED BY <1>3, <1>7, <2>1
  <1>10. sum(a) \in Nat /\ sum(b) \in Nat /\ sum(c) \in Nat /\ f[y] \in Nat /\ f[p] \in Nat
    BY <1>2, <1>3, <1>4, <1>5
  <1>11. sum(t) # f[y] + sum(b)
    BY <1>4
  <1> HIDE DEF a, b, c
  <1> QED BY <1>5, <1>8, <1>9, <1>10, <1>11

(* ... and depends on the values of its elements alone.                     *)
LEMMA SumCongruent ==
    ASSUME NEW S, IsFiniteSet(S), NEW f, NEW g, \A x \in S : f[x] = g[x]
    PROVE  SumFunctionOnSet(f, S) = SumFunctionOnSet(g, S)
  <1> DEFINE sum(s) == SumFunctionOnSet(f, s)
             tot(s) == SumFunctionOnSet(g, s)
             Bad == {t \in SUBSET S : sum(t) # tot(t)}
  <1>1. /\ sum({}) = 0 /\ tot({}) = 0
        /\ \A s \in SUBSET S : s # {} => /\ sum(s) = f[Pick(s)] + sum(s \ {Pick(s)})
                                         /\ tot(s) = g[Pick(s)] + tot(s \ {Pick(s)})
    BY SumByPicking, FS_Subset
  <1> HIDE DEF sum, tot
  <1> SUFFICES ASSUME Bad # {} PROVE FALSE
    BY DEF sum, tot
  <1>2. PICK t \in Bad : \A u \in Bad : u \subseteq t => u = t
    <2>1. Bad \subseteq SUBSET S
      OBVIOUS
    <2> HIDE DEF Bad
    <2> QED BY <2>1, LeastCounterexample
  <1>3. t # {}
    BY <1>1, <1>2
  <1>4. sum(t \ {Pick(t)}) = tot(t \ {Pick(t)}) /\ f[Pick(t)] = g[Pick(t)]
    BY <1>2, <1>3, Picked
  <1> QED BY <1>1, <1>2, <1>3, <1>4

(* Sums over two disjoint sets add up to the sum over both ...              *)
LEMMA SumSplits ==
    ASSUME NEW A, IsFiniteSet(A), NEW B, IsFiniteSet(B), A \cap B = {},
           NEW f, \A x \in A \cup B : f[x] \in Nat
    PROVE  SumFunctionOnSet(f, A \cup B) = SumFunctionOnSet(f, A) + SumFunctionOnSet(f, B)
  <1> DEFINE sum(s) == SumFunctionOnSet(f, s)
             Bad == {t \in SUBSET A : sum(t \cup B) # sum(t) + sum(B)}
  <1>1. IsFiniteSet(A \cup B)
    BY FS_Union
  <1>2. \A s \in SUBSET (A \cup B) : IsFiniteSet(s) /\ sum(s) \in Nat
    BY <1>1, SumType, FS_Subset
  <1>3. \A s \in SUBSET (A \cup B) : \A x \in s : sum(s) = f[x] + sum(s \ {x})
    BY <1>2, SumRemoves
  <1>4. sum({}) = 0
    BY SumByPicking
  <1> HIDE DEF sum
  <1> SUFFICES ASSUME Bad # {} PROVE FALSE
    BY DEF sum
  <1>5. PICK t \in Bad : \A u \in Bad : u \subseteq t => u = t
    <2>1. Bad \subseteq SUBSET A
      OBVIOUS
    <2> HIDE DEF Bad
    <2> QED BY <2>1, LeastCounterexample
  <1>6. sum(B) \in Nat /\ sum(t) \in Nat
    BY <1>2, <1>5
  <1>7. t # {}
    <2> SUFFICES ASSUME t = {} PROVE FALSE
      OBVIOUS
    <2>1. t \cup B = B /\ sum(t) = 0
      BY <1>4
    <2>2. sum(t \cup B) # sum(t) + sum(B)
      BY <1>5
    <2>3. sum(t \cup B) = sum(B)
      BY <2>1
    <2> QED BY <1>6, <2>1, <2>2, <2>3
  <1>8. PICK p : p \in t
    BY <1>7
  <1> DEFINE u == t \ {p}
             both == t \cup B
  <1>9. u \subseteq A /\ u \subseteq t /\ u # t /\ both \ {p} = u \cup B /\ p \in both
        /\ both \subseteq A \cup B
    BY <1>5, <1>8
  <1>10. sum(u \cup B) = sum(u) + sum(B)
    BY <1>5, <1>9
  <1>11. sum(t) = f[p] + sum(u) /\ sum(both) # sum(t) + sum(B)
    BY <1>3, <1>5, <1>8
  <1> HIDE DEF both, u
  <1>12. sum(both) = f[p] + sum(u \cup B)
    BY <1>3, <1>9
  <1>13. sum(u) \in Nat /\ f[p] \in Nat
    BY <1>2, <1>5, <1>8, <1>9
  <1> QED BY <1>6, <1>10, <1>11, <1>12, <1>13

(* ... and so do sums over the parts a set falls into by some key.          *)
LEMMA SumByKey ==
    ASSUME NEW S, IsFiniteSet(S), NEW f, \A x \in S : f[x] \in Nat,
           NEW K, IsFiniteSet(K), NEW key, \A x \in S : key[x] \in K,
           NEW part, \A k \in K : part[k] = SumFunctionOnSet(f, {x \in S : key[x] = k})
    PROVE  SumFunctionOnSet(part, K) = SumFunctionOnSet(f, S)
  <1> DEFINE sum(s) == SumFunctionOnSet(f, s)
             all(t) == SumFunctionOnSet(part, t)
             of(t) == {x \in S : key[x] \in t}
             one(k) == {x \in S : key[x] = k}
             Bad == {t \in SUBSET K : all(t) # sum(of(t))}
  <1>1. \A s \in SUBSET S : IsFiniteSet(s) /\ sum(s) \in Nat
    BY SumType, FS_Subset
  <1>2. \A k \in K : part[k] = sum(one(k)) /\ part[k] \in Nat
    BY <1>1
  <1>3. /\ all({}) = 0 /\ sum({}) = 0
        /\ \A t \in SUBSET K : t # {} => all(t) = part[Pick(t)] + all(t \ {Pick(t)})
    BY SumByPicking, FS_Subset
  <1>4. \A a, b \in SUBSET S : a \cap b = {} => sum(a \cup b) = sum(a) + sum(b)
    <2> SUFFICES ASSUME NEW a \in SUBSET S, NEW b \in SUBSET S, a \cap b = {}
                 PROVE  sum(a \cup b) = sum(a) + sum(b)
      OBVIOUS
    <2>1. IsFiniteSet(a) /\ IsFiniteSet(b) /\ \A x \in a \cup b : f[x] \in Nat
      BY <1>1
    <2> QED BY <2>1, SumSplits
  <1> HIDE DEF sum, all
  <1>5. Bad = {} => all(K) = sum(S)
    <2>1. of(K) = S
      OBVIOUS
    <2>2. K \in SUBSET K
      OBVIOUS
    <2> HIDE DEF of
    <2> QED BY <2>1, <2>2
  <1> SUFFICES ASSUME Bad # {} PROVE FALSE
    BY <1>5 DEF all, sum
  <1>6. PICK t \in Bad : \A u \in Bad : u \subseteq t => u = t
    <2>1. Bad \subseteq SUBSET K
      OBVIOUS
    <2> HIDE DEF Bad
    <2> QED BY <2>1, LeastCounterexample
  <1>7. t # {}
    <2>1. of({}) = {}
      OBVIOUS
    <2> HIDE DEF of
    <2> QED BY <1>3, <1>6, <2>1
  <1> DEFINE p == Pick(t)
             u == t \ {p}
  <1>8. p \in t /\ u \subseteq t /\ u # t
    BY <1>7, Picked
  <1>9. all(t) = part[p] + all(u)
    BY <1>3, <1>6, <1>7
  <1> HIDE DEF p
  <1>10. /\ of(t) = one(p) \cup of(u) /\ one(p) \cap of(u) = {}
         /\ one(p) \in SUBSET S /\ of(u) \in SUBSET S /\ u \in SUBSET K
    BY <1>6, <1>8
  <1>11. part[p] = sum(one(p))
    BY <1>2, <1>6, <1>8
  <1> HIDE DEF u, of, one
  <1>12. all(u) = sum(of(u))
    BY <1>6, <1>8, <1>10
  <1>13. sum(of(t)) = sum(one(p)) + sum(of(u))
    BY <1>4, <1>10
  <1> QED BY <1>6, <1>9, <1>11, <1>12, <1>13

(* A set has as many elements as the sum of a one for each.                 *)
LEMMA CardinalityIsSum ==
    ASSUME NEW S, IsFiniteSet(S), NEW f, \A x \in S : f[x] = 1
    PROVE  SumFunctionOnSet(f, S) = Cardinality(S)
  <1> DEFINE sum(s) == SumFunctionOnSet(f, s)
             Bad == {t \in SUBSET S : sum(t) # Cardinality(t)}
  <1>1. \A t \in SUBSET S : IsFiniteSet(t)
    BY FS_Subset
  <1>2. /\ sum({}) = 0
        /\ \A t \in SUBSET S : t # {} => sum(t) = f[Pick(t)] + sum(t \ {Pick(t)})
    BY <1>1, SumByPicking
  <1> HIDE DEF sum
  <1> SUFFICES ASSUME Bad # {} PROVE FALSE
    BY DEF sum
  <1>3. PICK t \in Bad : \A u \in Bad : u \subseteq t => u = t
    <2>1. Bad \subseteq SUBSET S
      OBVIOUS
    <2> HIDE DEF Bad
    <2> QED BY <2>1, LeastCounterexample
  <1>4. t # {}
    BY <1>2, <1>3, FS_EmptySet
  <1> DEFINE u == t \ {Pick(t)}
  <1>5. Pick(t) \in t /\ u \subseteq t /\ u # t /\ IsFiniteSet(t)
    BY <1>1, <1>3, <1>4, Picked
  <1>6. sum(t) = 1 + sum(u)
    BY <1>2, <1>3, <1>4, <1>5
  <1>7. Cardinality(u) = Cardinality(t) - 1 /\ Cardinality(t) \in Nat
    BY <1>5, FS_RemoveElement, FS_CardinalityType
  <1> HIDE DEF u
  <1>8. sum(u) = Cardinality(u)
    BY <1>3, <1>5
  <1> QED BY <1>3, <1>6, <1>7, <1>8

(* One of them is the largest, and one the smallest.                        *)
HasExtremes(t) ==
    /\ \E x \in t : \A y \in t : x >= y
    /\ \E x \in t : \A y \in t : x <= y

(* That is so of finitely many numbers, if there are any.                   *)
LEMMA Extremes ==
    ASSUME NEW S, IsFiniteSet(S), S # {}, S \subseteq Int
    PROVE  HasExtremes(S)
  <1> DEFINE Bad == {t \in SUBSET S : t # {} /\ ~HasExtremes(t)}
  <1> SUFFICES ASSUME Bad # {} PROVE FALSE
    OBVIOUS
  <1>1. PICK t \in Bad : \A u \in Bad : u \subseteq t => u = t
    <2>1. Bad \subseteq SUBSET S
      OBVIOUS
    <2> HIDE DEF Bad
    <2>2. IsFiniteSet(S) /\ Bad # {}
      OBVIOUS
    <2> QED BY ONLY <2>1, <2>2, LeastCounterexample
  <1>2. PICK p : p \in t
    BY <1>1
  <1> DEFINE u == t \ {p}
  <1>3. CASE u = {}
    <2>1. t = {p} /\ p \in Int
      BY <1>1, <1>2, <1>3
    <2> QED BY <1>1, <2>1 DEF HasExtremes
  <1>4. CASE u # {}
    <2>1. HasExtremes(u)
      BY <1>1, <1>2, <1>4
    <2>2. PICK a \in u : \A y \in u : a >= y
      BY <2>1 DEF HasExtremes
    <2>3. PICK b \in u : \A y \in u : b <= y
      BY <2>1 DEF HasExtremes
    <2>4. a \in Int /\ b \in Int /\ p \in Int /\ t \subseteq Int
      BY <1>1, <1>2
    <2>5. \E x \in t : \A y \in t : x >= y
      BY <1>2, <2>2, <2>4
    <2>6. \E x \in t : \A y \in t : x <= y
      BY <1>2, <2>3, <2>4
    <2> QED BY <1>1, <2>5, <2>6 DEF HasExtremes
  <1> QED BY <1>3, <1>4
===============================================================================
