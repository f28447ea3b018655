-------------------------- MODULE MultiDown_proofs --------------------------
(***************************************************************************)
(* Theorems about the segmented download engine, for every file size,      *)
(* number of workers, segment threshold and number of attempts.            *)
(***************************************************************************)
EXTENDS MultiDown, FiniteSetTheorems, TLAPS

USE SizeAssumption, LimitAssumption, NAssumption, MaxTryAssumption

-----------------------------------------------------------------------------
(***************************************************************************)
(* The partition of a fresh download.                                      *)
(***************************************************************************)

LEMMA DivBounds ==
    ASSUME NEW a \in Nat, NEW p \in Nat \ {0}
    PROVE  /\ a \div p \in Nat
           /\ p * (a \div p) <= a
           /\ a < p * (a \div p) + p
OBVIOUS

LEMMA TimesMono ==
    ASSUME NEW a \in Nat, NEW b \in Nat, NEW p \in Nat, a <= b
    PROVE  a * p <= b * p
OBVIOUS

LEMMA TimesSucc ==
    ASSUME NEW a \in Int, NEW p \in Nat
    PROVE  (a + 1) * p = a * p + p
OBVIOUS

\* The segment size is positive and all segments fit in the file.
LEMMA PerSizeFits ==
    /\ PerSize \in Nat \ {0} /\ ThreadNum \in 1 .. N
    /\ ThreadNum * PerSize <= Size
<1>1. CASE Size < Limit
  BY <1>1 DEF PerSize, ThreadNum
<1>2. CASE ~(Size < Limit)
  <2>1. PerSize = Size \div N /\ ThreadNum = N
    BY <1>2 DEF PerSize, ThreadNum
  <2>2. /\ Size \div N \in Nat
        /\ N * (Size \div N) <= Size
        /\ Size < N * (Size \div N) + N
    BY DivBounds
  <2>3. Size \div N # 0
    BY <1>2, <2>2
  <2> QED BY <2>1, <2>2, <2>3
<1> QED BY <1>1, <1>2

\* Each segment of a fresh download is a non-empty part of the file.
LEMMA PartitionSound ==
    ASSUME NEW s \in 0 .. ThreadNum - 1
    PROVE  /\ Partition(s) \in Seg
           /\ Partition(s).threadNum = s + 1 /\ Partition(s).ds = 0
           /\ 0 <= Partition(s).sp /\ Partition(s).sp <= Partition(s).ep
           /\ Partition(s).ep < Size
<1> DEFINE p == PerSize
           m == s * p
<1>1. p \in Nat \ {0} /\ ThreadNum \in 1 .. N /\ ThreadNum * p <= Size
  BY PerSizeFits
<1>2. s \in Nat /\ m \in Nat
  BY <1>1
<1>3. (s + 1) * p = m + p
  BY <1>1, <1>2, TimesSucc
<1>4. (s + 1) * p <= ThreadNum * p
  BY <1>1, <1>2, TimesMono
<1>5. m + p <= Size
  <2> HIDE DEF m
  <2> QED BY <1>1, <1>2, <1>3, <1>4
<1>6. Partition(s) = [threadNum |-> s + 1, sp |-> m,
                      ep |-> IF s + 1 = ThreadNum THEN Size - 1 ELSE m + p - 1,
                      ds |-> 0]
  BY <1>1, <1>2 DEF Partition
<1> HIDE DEF m, p
<1> QED BY <1>1, <1>2, <1>5, <1>6 DEF Seg

\* Every block of the file lies in a segment of a fresh download.
LEMMA PartitionCovers ==
    ASSUME NEW b \in Block
    PROVE  \E s \in 0 .. ThreadNum - 1 : Covers(Partition(s), b)
<1> DEFINE p == PerSize
           n == ThreadNum
           last == (n - 1) * p
<1>1. p \in Nat \ {0} /\ n \in 1 .. N /\ n * p <= Size
  BY PerSizeFits
<1>2. last \in Nat
  BY <1>1
<1>3. CASE b >= last
  <2>1. /\ Partition(n - 1).sp = last
        /\ Partition(n - 1).ep = Size - 1
    BY <1>1 DEF Partition
  <2> HIDE DEF last
  <2> QED BY <1>1, <1>2, <1>3, <2>1 DEF Covers, Block
<1>4. CASE b < last
  <2> DEFINE q == b \div p
             m == q * p
  <2>1. q \in Nat /\ p * q <= b /\ b < p * q + p
    BY <1>1, DivBounds DEF Block
  <2>2. m \in Nat /\ m <= b /\ b < m + p
    BY <1>1, <2>1
  <2>3. q < n - 1
    <3>1. SUFFICES ASSUME n - 1 <= q PROVE FALSE
      BY <1>1, <2>1
    <3>2. last <= m
      BY <1>1, <2>1, <3>1, TimesMono
    <3> HIDE DEF last, m
    <3> QED BY <1>2, <1>4, <2>2, <3>2 DEF Block
  <2>4. /\ Partition(q).sp = m
        /\ Partition(q).ep = m + p - 1
    <3> HIDE DEF q
    <3> QED BY <1>1, <2>1, <2>3 DEF Partition
  <2> HIDE DEF m, q
  <2> QED BY <1>1, <2>1, <2>2, <2>3, <2>4 DEF Covers, Block
<1> HIDE DEF last
<1> QED BY <1>2, <1>3, <1>4 DEF Block

-----------------------------------------------------------------------------
(***************************************************************************)
(* The compaction of the unfinished slots in a saved trailer.              *)
(***************************************************************************)

LEMMA SlotFinite ==
    ASSUME NEW S \in SUBSET Slot
    PROVE  /\ IsFiniteSet(S) /\ Cardinality(S) \in 0 .. N
<1>1. IsFiniteSet(Slot) /\ Cardinality(Slot) = N
  BY FS_Interval DEF Slot
<1> QED BY <1>1, FS_Subset, FS_CardinalityType

Below(S, u) == {x \in S : x < u}

LEMMA BelowFinite ==
    ASSUME NEW S \in SUBSET Slot, NEW u \in Slot
    PROVE  /\ IsFiniteSet(Below(S, u)) /\ Cardinality(Below(S, u)) \in Nat
           /\ Below(S, u) \subseteq S /\ u \notin Below(S, u)
<1>1. Below(S, u) \in SUBSET S /\ u \notin Below(S, u)
  BY DEF Below, Slot
<1> QED BY <1>1, SlotFinite, FS_Subset, FS_CardinalityType

\* Two members of S have different numbers of smaller members.
LEMMA RankInjective ==
    ASSUME NEW S \in SUBSET Slot, NEW s \in S, NEW t \in S,
           Cardinality(Below(S, s)) = Cardinality(Below(S, t))
    PROVE  s = t
<1>1. ASSUME NEW u \in S, NEW v \in S, u < v
      PROVE  Cardinality(Below(S, u)) < Cardinality(Below(S, v))
  <2>1. \A x \in S : x \in Int
    BY DEF Slot
  <2>2. Below(S, u) \in SUBSET Below(S, v) /\ u \in Below(S, v)
    BY <1>1, <2>1 DEF Below
  <2>3. Below(S, u) # Below(S, v)
    BY <2>2, BelowFinite
  <2> QED BY <2>2, <2>3, BelowFinite, FS_Subset
<1>2. ~(s < t) /\ ~(t < s)
  BY <1>1, BelowFinite
<1> QED BY <1>2 DEF Slot

LEMMA RankRange ==
    ASSUME NEW S \in SUBSET Slot, NEW s \in S
    PROVE  Cardinality(Below(S, s)) + 1 \in 1 .. Cardinality(S)
<1>1. Below(S, s) # S
  BY BelowFinite
<1> QED BY <1>1, SlotFinite, BelowFinite, FS_Subset

\* Every rank up to the size of S belongs to a member: an injection between
\* sets of the same size is onto.
LEMMA RankOnto ==
    ASSUME NEW S \in SUBSET Slot, NEW k \in 1 .. Cardinality(S)
    PROVE  \E s \in S : Cardinality(Below(S, s)) = k - 1
<1> DEFINE T == 1 .. Cardinality(S)
           f == [s \in S |-> Cardinality(Below(S, s)) + 1]
<1>1. IsFiniteSet(S) /\ Cardinality(S) \in Nat
  BY SlotFinite
<1>2. IsFiniteSet(T) /\ Cardinality(T) = Cardinality(S)
  BY <1>1, FS_Interval
<1>3. f \in [S -> T]
  BY RankRange
<1>4. \A s, t \in S : f[s] = f[t] => s = t
  <2> SUFFICES ASSUME NEW s \in S, NEW t \in S, f[s] = f[t] PROVE s = t
    OBVIOUS
  <2>1. Cardinality(Below(S, s)) \in Nat /\ Cardinality(Below(S, t)) \in Nat
    BY BelowFinite
  <2>2. Cardinality(Below(S, s)) + 1 = Cardinality(Below(S, t)) + 1
    OBVIOUS
  <2>3. Cardinality(Below(S, s)) = Cardinality(Below(S, t))
    BY <2>1, <2>2
  <2> QED BY <2>3, RankInjective
<1>5. f \in Injection(S, T)
  BY <1>3, <1>4 DEF Injection, IsInjective
<1>6. f \in Surjection(S, T)
  <2> HIDE DEF f, T
  <2> QED BY <1>1, <1>2, <1>5, FS_Injection
<1>7. PICK s \in S : f[s] = k
  BY <1>6 DEF Surjection
<1>8. Cardinality(Below(S, s)) = k - 1
  BY <1>7, BelowFinite
<1> QED BY <1>8

\* Nth enumerates the members of S.
LEMMA NthMember ==
    ASSUME NEW S \in SUBSET Slot, NEW k \in 1 .. Cardinality(S)
    PROVE  Nth(S, k) \in S /\ Cardinality(Below(S, Nth(S, k))) = k - 1
BY RankOnto DEF Nth, Below

LEMMA NthOnto ==
    ASSUME NEW S \in SUBSET Slot, NEW s \in S
    PROVE  \E k \in 1 .. Cardinality(S) : Nth(S, k) = s
<1> DEFINE k == Cardinality(Below(S, s)) + 1
<1>1. k \in 1 .. Cardinality(S) /\ k - 1 = Cardinality(Below(S, s))
  BY RankRange, BelowFinite
<1>2. Nth(S, k) \in S /\ Cardinality(Below(S, Nth(S, k))) = k - 1
  BY <1>1, NthMember
<1>3. Nth(S, k) = s
  BY <1>1, <1>2, RankInjective
<1> QED BY <1>1, <1>3

-----------------------------------------------------------------------------
(***************************************************************************)
(* Type correctness, whatever the environment does.                        *)
(***************************************************************************)

LEMMA NoSegType == NoSeg \in Seg /\ NoSeg.ep < Size
BY DEF NoSeg, Seg

LEMMA PartitionType ==
    ASSUME NEW s \in Slot
    PROVE  Partition(s) \in Seg /\ Partition(s).ep < Size
<1>1. ThreadNum \in 1 .. N
  BY PerSizeFits
<1>2. CASE s < ThreadNum
  BY <1>1, <1>2, PartitionSound DEF Slot
<1>3. CASE ~(s < ThreadNum)
  BY <1>1, <1>3, NoSegType DEF Partition, Slot
<1> QED BY <1>2, <1>3

\* What a cache file is after the trailer of the slots S was written.
LEMMA SavedTrailer ==
    ASSUME TypeInv, NEW S \in SUBSET Slot
    PROVE  /\ Saved(S).there = tmp.there /\ Saved(S).data = tmp.data
           /\ Saved(S).hdr = "ok"
           /\ Saved(S).segnum \in 0 .. N
           /\ Saved(S).segnum = Cardinality(S)
           /\ Saved(S).segs \in [1 .. N -> Seg]
           /\ \A k \in 1 .. Cardinality(S) :
                 Nth(S, k) \in S /\ Saved(S).segs[k] = seg[Nth(S, k)]
           /\ \A k \in 1 .. N : Saved(S).segs[k].ep < Size
           /\ Saved(S) = [there |-> tmp.there, data |-> tmp.data, hdr |-> "ok",
                          segnum |-> Cardinality(S), segs |-> Saved(S).segs]
<1> DEFINE n == Cardinality(S)
           segs == [k \in 1 .. N |-> IF k <= n THEN seg[Nth(S, k)]
                                               ELSE tmp.segs[k]]
<1>1. n \in 0 .. N
  BY SlotFinite
<1>2. \A k \in 1 .. n : Nth(S, k) \in S
  BY NthMember
<1>3. \A k \in 1 .. n : seg[Nth(S, k)] \in Seg /\ seg[Nth(S, k)].ep < Size
  BY <1>2 DEF TypeInv, TypeOK
<1>4. /\ segs \in [1 .. N -> Seg]
      /\ \A k \in 1 .. n : segs[k] = seg[Nth(S, k)]
      /\ \A k \in 1 .. N : segs[k].ep < Size
  <2>1. \A k \in 1 .. N : tmp.segs[k] \in Seg /\ tmp.segs[k].ep < Size
    BY DEF TypeInv, TypeOK, CacheFile
  <2> QED BY <1>1, <1>3, <2>1
<1>5. Saved(S) = [tmp EXCEPT !.hdr = "ok", !.segnum = n, !.segs = segs]
  BY DEF Saved
<1>6. Saved(S) = [there |-> tmp.there, data |-> tmp.data, hdr |-> "ok",
                  segnum |-> n, segs |-> segs]
  <2> HIDE DEF segs, n
  <2> QED BY <1>5 DEF TypeInv, TypeOK, CacheFile
<1> HIDE DEF segs
<1> QED BY <1>1, <1>2, <1>4, <1>6

LEMMA SavedType ==
    ASSUME TypeInv, NEW S \in SUBSET Slot
    PROVE  Saved(S) \in CacheFile /\ \A k \in 1 .. N : Saved(S).segs[k].ep < Size
BY SavedTrailer DEF TypeInv, TypeOK, CacheFile

LEMMA NoTmpType == NoTmp \in CacheFile /\ \A k \in 1 .. N : NoTmp.segs[k].ep < Size
BY NoSegType DEF NoTmp, CacheFile

LEMMA TruncatedType ==
    ASSUME TypeInv
    PROVE  /\ Truncated \in CacheFile /\ \A k \in 1 .. N : Truncated.segs[k].ep < Size
           /\ Truncated.there /\ Truncated.data = tmp.data
           /\ Truncated.hdr = "none" /\ Truncated.segnum = 0
<1> DEFINE d == tmp.data
           f == NoTmp.segs
<1>1. NoTmp = [there |-> FALSE, data |-> {}, hdr |-> "none", segnum |-> 0, segs |-> f]
  BY DEF NoTmp
<1>2. f \in [1 .. N -> Seg] /\ (\A k \in 1 .. N : f[k].ep < Size) /\ d \in SUBSET Block
  BY NoTmpType DEF TypeInv, TypeOK, CacheFile
<1>3. Truncated = [NoTmp EXCEPT !.there = TRUE, !.data = d]
  BY DEF Truncated
<1> HIDE DEF d, f
<1>4. Truncated = [there |-> TRUE, data |-> d, hdr |-> "none", segnum |-> 0, segs |-> f]
  BY <1>1, <1>3
<1> QED BY <1>2, <1>4 DEF CacheFile, d

LEMMA OrphanedType ==
    ASSUME TypeInv
    PROVE  /\ Orphaned(job) \in [Slot -> Job]
           /\ \A s \in Slot : Orphaned(job)[s].pos = job[s].pos
                             /\ Orphaned(job)[s].end = job[s].end
BY DEF TypeInv, TypeOK, Orphaned, Job

LEMMA NoJobType == NoJob \in Job /\ NoJob.pos = 0 /\ NoJob.end = 0
BY DEF NoJob, Job

\* A worker that leaves its transfer stays well typed.
LEMMA LeaveType ==
    ASSUME TypeInv, NEW s \in Slot, NEW r \in {"ok", "err", "nfound"}, Leave(s, r)
    PROVE  /\ cond' \in [Slot -> {"stop", "run"}]
           /\ job' \in [Slot -> Job]
           /\ \A t \in Slot : job'[t].pos >= 0 /\ job'[t].end <= Size
<1> DEFINE j == [at |-> "code", pos |-> 0, end |-> 0, ret |-> r, fd |-> "none"]
<1>1. j \in Job /\ j.pos = 0 /\ j.end = 0
  BY DEF Job
<1>2. job' = [job EXCEPT ![s] = j] /\ cond' = [cond EXCEPT ![s] = "stop"]
  BY DEF Leave
<1> HIDE DEF j
<1>3. cond' \in [Slot -> {"stop", "run"}]
  BY <1>2 DEF TypeInv, TypeOK
<1>4. job' \in [Slot -> Job]
  BY <1>1, <1>2 DEF TypeInv, TypeOK
<1>5. \A t \in Slot : job'[t] = IF t = s THEN j ELSE job[t]
  BY <1>2 DEF TypeInv, TypeOK
<1> QED BY <1>1, <1>3, <1>4, <1>5 DEF TypeInv

LEMMA TypeInit == Init => TypeInv
<1> SUFFICES ASSUME Init PROVE TypeInv
  OBVIOUS
<1>1. 0 \in 0 .. MaxTry
  OBVIOUS
<1> QED BY <1>1, NoSegType, NoJobType, NoTmpType DEF Init, Zeroed, TypeInv, TypeOK

LEMMA TypeStep == TypeInv /\ [Next]_vars => TypeInv'
<1> SUFFICES ASSUME TypeInv, [Next]_vars PROVE TypeInv'
  OBVIOUS
<1> USE DEF TypeInv, TypeOK, Goto, Return, mTask, ctl, files
<1>1. CASE StartTask
  BY <1>1 DEF StartTask
<1>2. CASE NextTry
  BY <1>2 DEF NextTry
<1>3. CASE GiveUp
  BY <1>3 DEF GiveUp
<1>4. CASE pcs_chk_downfile_size
  BY <1>4 DEF pcs_chk_downfile_size
<1>5. CASE LocalExists
  BY <1>5 DEF LocalExists
<1>6. CASE pcs_create_tmp_down_file
  BY <1>6, NoTmpType DEF pcs_create_tmp_down_file, CacheFile
<1>7. CASE CreateTmpFails
  BY <1>7, NoTmpType, OrphanedType DEF CreateTmpFails, RemoveTmp
<1>8. CASE pcs_multi_down_initinfo
  <2>1. seg' \in [Slot -> Seg] /\ \A s \in Slot : seg'[s].ep < Size
    BY <1>8, PartitionType DEF pcs_multi_down_initinfo
  <2>2. ThreadNum \in 0 .. N
    BY PerSizeFits
  <2>3. /\ [k \in 1 .. N |-> Partition(k - 1)] \in [1 .. N -> Seg]
        /\ \A k \in 1 .. N : Partition(k - 1).ep < Size
    <3>1. \A k \in 1 .. N : k - 1 \in Slot
      BY DEF Slot
    <3> QED BY <3>1, PartitionType
  <2>4. tmp' \in CacheFile /\ \A k \in 1 .. N : tmp'.segs[k].ep < Size
    BY <1>8, <2>2, <2>3 DEF pcs_multi_down_initinfo, CacheFile
  <2> QED BY <1>8, <2>1, <2>4 DEF pcs_multi_down_initinfo
<1>9. CASE InitInfoFails
  BY <1>9, NoSegType, NoTmpType, OrphanedType DEF InitInfoFails, Clear, RemoveTmp
<1>10. CASE pcs_multi_initinfo_from_file
  <2>1. \A g \in Seg : g.ep < Size => Loaded(g) \in Seg /\ Loaded(g).ep < Size
    BY DEF Loaded, Seg
  <2>2. \A s \in Slot : s + 1 \in 1 .. N
    BY DEF Slot
  <2>3. \A s \in Slot : tmp.segs[s + 1] \in Seg /\ tmp.segs[s + 1].ep < Size
    BY <2>2 DEF CacheFile
  <2>4. seg' = [s \in Slot |-> IF s < tmp.segnum THEN Loaded(tmp.segs[s + 1])
                                                 ELSE NoSeg]
    BY <1>10 DEF pcs_multi_initinfo_from_file
  <2>5. seg' \in [Slot -> Seg] /\ \A s \in Slot : seg'[s].ep < Size
    BY <2>1, <2>3, <2>4, NoSegType
  <2> QED BY <1>10, <2>5 DEF pcs_multi_initinfo_from_file
<1>11. CASE FromFileFails
  BY <1>11, NoSegType, NoTmpType, OrphanedType DEF FromFileFails, Clear, RemoveTmp
<1>30. CASE FromFileUnread
  BY <1>30 DEF FromFileUnread
<1>12. CASE pcs_multi_down_setstart
  BY <1>12 DEF pcs_multi_down_setstart
<1>13. CASE Interrupted
  BY <1>13 DEF Interrupted, Stop, Active
<1>14. CASE GoOn
  BY <1>14 DEF GoOn
<1>15. CASE pcs_multi_down_chk_condition
  BY <1>15 DEF pcs_multi_down_chk_condition, Stop, Active
<1>16. CASE pcs_multi_down_update_mdinfo
  <2>1. Pending \in SUBSET Slot
    BY DEF Pending, Unfinished
  <2> QED BY <1>16, <2>1, SavedType DEF pcs_multi_down_update_mdinfo
<1>17. CASE NoUpdate
  BY <1>17 DEF NoUpdate
<1>18. CASE pcs_multi_down_chk_finish
  <2>1. CASE NotFoundFirst
    BY <1>18, <2>1 DEF pcs_multi_down_chk_finish, Stop, Active
  <2>2. CASE ~NotFoundFirst
    BY <1>18, <2>2, TruncatedType DEF pcs_multi_down_chk_finish, Look
  <2> QED BY <2>1, <2>2
<1>31. CASE TruncateFails
  BY <1>31 DEF TruncateFails
<1>32. CASE RenameAside
  BY <1>32, NoTmpType, OrphanedType DEF RenameAside, RemoveTmp
<1>33. CASE RenameToFinal
  <2>1. local' \in [by : {"nobody", "user", "late", "download"}, data : SUBSET Block]
    BY <1>33 DEF RenameToFinal, CacheFile
  <2>2. job' = [s \in Slot |-> IF job[s].fd = "tmp" THEN [job[s] EXCEPT !.fd = "local"]
                                                   ELSE job[s]]
    BY <1>33 DEF RenameToFinal
  <2>3. /\ job' \in [Slot -> Job]
        /\ \A s \in Slot : job'[s].pos = job[s].pos /\ job'[s].end = job[s].end
    BY <2>2 DEF Job
  <2> QED BY <1>33, <2>1, <2>3, NoTmpType DEF RenameToFinal
<1>34. CASE RenameFails
  BY <1>34 DEF RenameFails
<1>19. CASE pcs_multi_down_set_interupte
  <2>1. Unfinished \in SUBSET Slot
    BY DEF Unfinished
  <2> QED BY <1>19, <2>1, SavedType
          DEF pcs_multi_down_set_interupte, AfterStop
<1>20. CASE SaveFails
  BY <1>20 DEF SaveFails, AfterStop
<1>21. CASE DropNotFound
  BY <1>21, NoTmpType, OrphanedType DEF DropNotFound, AfterStop, RemoveTmp
<1>22. ASSUME NEW s \in Slot, Worker(s)
       PROVE  TypeInv'
  <2>1. CASE thread_down_task(s)
    <3> DEFINE j == [at |-> "ask", ret |-> "err", fd |-> "tmp",
                     pos |-> seg[s].sp + seg[s].ds,
                     end |-> IF seg[s].ds = DownSize(seg[s]) THEN Size
                                                             ELSE seg[s].ep + 1]
    <3>1. j \in Job /\ j.pos >= 0 /\ j.end <= Size
      BY <2>1 DEF thread_down_task, Seg, Job
    <3>2. job' = [job EXCEPT ![s] = j]
      BY <2>1 DEF thread_down_task
    <3> HIDE DEF j
    <3> QED BY <2>1, <3>1, <3>2 DEF thread_down_task
  <2>2. CASE TaskFails(s)
    BY <2>2, LeaveType DEF TaskFails
  <2>3. CASE Answered(s)
    <3>1. /\ job' \in [Slot -> Job]
          /\ \A t \in Slot : job'[t].pos = job[t].pos /\ job'[t].end = job[t].end
      BY <2>3 DEF Answered, Job
    <3> QED BY <2>3, <3>1 DEF Answered
  <2>4. CASE write_callback_multi_down(s)
    <3>1. job[s].pos \in Block
      BY <2>4 DEF write_callback_multi_down, Block, Job
    <3>2. job' = [job EXCEPT ![s] = [job[s] EXCEPT !.pos = job[s].pos + 1]]
      BY <2>4 DEF write_callback_multi_down
    <3>5. /\ job' \in [Slot -> Job]
          /\ \A t \in Slot : job'[t].pos >= 0 /\ job'[t].end = job[t].end
      <4> DEFINE j == [job[s] EXCEPT !.pos = job[s].pos + 1]
      <4>1. j \in Job /\ j.pos >= 0 /\ j.end = job[s].end
        BY DEF Job
      <4>4. job' = [job EXCEPT ![s] = j]
        BY <3>2
      <4> HIDE DEF j
      <4>2. job' \in [Slot -> Job]
        BY <4>1, <4>4
      <4>3. \A t \in Slot : job'[t] = IF t = s THEN j ELSE job[t]
        BY <4>4
      <4> QED BY <4>1, <4>2, <4>3
    <3>3. tmp' \in CacheFile /\ \A k \in 1 .. N : tmp'.segs[k].ep < Size
      BY <2>4, <3>1 DEF write_callback_multi_down, CacheFile
    <3>4. local' \in [by : {"nobody", "user", "late", "download"}, data : SUBSET Block]
      BY <2>4, <3>1 DEF write_callback_multi_down
    <3> QED BY <2>4, <3>5, <3>3, <3>4 DEF write_callback_multi_down
  <2>5. CASE trans_callback_multi_down(s)
    <3>1. DownSize(seg[s]) \in Int /\ job[s].end - job[s].pos \in Int
      BY DEF DownSize, Seg, Job
    <3>2. /\ seg' \in [Slot -> Seg]
          /\ \A t \in Slot : seg'[t].ep = seg[t].ep
      BY <2>5, <3>1 DEF trans_callback_multi_down, Seg
    <3> QED BY <2>5, <3>2 DEF trans_callback_multi_down
  <2>6. CASE Abort(s)
    BY <2>6, LeaveType DEF Abort
  <2>7. CASE NetworkError(s)
    BY <2>7, LeaveType DEF NetworkError
  <2>8. CASE Complete(s)
    BY <2>8, LeaveType DEF Complete
  <2>9. ASSUME NEW r \in {"err", "nfound"}, Refused(s, r)
        PROVE  TypeInv'
    <3>1. /\ Leave(s, r) /\ UNCHANGED <<intr, re, ctl>>
      BY <2>9 DEF Refused
    <3>2. CASE "errorbody" \in Faults
      <4>1. DownSize(seg[s]) \in Int
        BY DEF DownSize, Seg
      <4>2. /\ seg' \in [Slot -> Seg]
            /\ \A t \in Slot : seg'[t].ep = seg[t].ep
        <5>1. seg' = [seg EXCEPT ![s].ds = DownSize(seg[s])]
          BY <2>9, <3>2 DEF Refused
        <5> QED BY <4>1, <5>1 DEF Seg
      <4>3. tmp' \in CacheFile /\ \A k \in 1 .. N : tmp'.segs[k].ep < Size
        <5>1. \/ UNCHANGED tmp
              \/ tmp' = [tmp EXCEPT !.data = tmp.data \ {job[s].pos},
                                    !.hdr = IF job[s].pos >= Size THEN "none" ELSE tmp.hdr]
          BY <2>9, <3>2 DEF Refused
        <5>2. CASE UNCHANGED tmp
          BY <5>2
        <5>3. CASE ~ UNCHANGED tmp
          <6> DEFINE h == IF job[s].pos >= Size THEN "none" ELSE tmp.hdr
                     d == tmp.data \ {job[s].pos}
          <6>1. h \in {"none", "short", "ok"} /\ d \in SUBSET Block
            BY DEF CacheFile
          <6>2. tmp' = [tmp EXCEPT !.data = d, !.hdr = h]
            BY <5>1, <5>3
          <6> HIDE DEF h, d
          <6> QED BY <6>1, <6>2 DEF CacheFile
        <5> QED BY <5>2, <5>3
      <4>4. local' \in [by : {"nobody", "user", "late", "download"}, data : SUBSET Block]
        BY <2>9, <3>2 DEF Refused
      <4> QED BY <3>1, <4>2, <4>3, <4>4, LeaveType
    <3>3. CASE "errorbody" \notin Faults
      BY <2>9, <3>1, <3>3, LeaveType DEF Refused
    <3> QED BY <3>2, <3>3
  <2>10. CASE SetReCode(s)
    BY <2>10, NoJobType DEF SetReCode, Job
  <2> QED BY <1>22, <2>1, <2>2, <2>3, <2>4, <2>5, <2>6, <2>7, <2>8, <2>9,
             <2>10 DEF Worker
<1>23. CASE Crash
  BY <1>23, NoSegType, NoJobType DEF Crash, Restart, Clear
<1>24. CASE CrashInSave
  <2> DEFINE n == Cardinality(IF pc = "update" THEN Pending ELSE Unfinished)
  <2>1. n \in 0 .. N
    BY SlotFinite DEF Unfinished, Pending
  <2>2. tmp' = [tmp EXCEPT !.hdr = "ok", !.segnum = n]
    BY <1>24 DEF CrashInSave
  <2> HIDE DEF n
  <2>3. tmp' \in CacheFile /\ \A k \in 1 .. N : tmp'.segs[k].ep < Size
    BY <2>1, <2>2 DEF CacheFile
  <2> QED BY <1>24, <2>3, NoSegType, NoJobType DEF CrashInSave, Restart, Clear
<1>25. CASE CrashInInit
  <2>1. tmp' \in CacheFile /\ \A k \in 1 .. N : tmp'.segs[k].ep < Size
    BY <1>25 DEF CrashInInit, CacheFile
  <2> QED BY <1>25, <2>1, NoSegType, NoJobType DEF CrashInInit, Restart, Clear
<1>26. CASE UserFile
  BY <1>26 DEF UserFile
<1>27. CASE UNCHANGED vars
  BY <1>27 DEF vars
<1>29. CASE WebDelete
  BY <1>29, NoTmpType, OrphanedType DEF WebDelete, RemoveTmp
<1> QED
  BY <1>1, <1>2, <1>3, <1>4, <1>5, <1>6, <1>7, <1>8, <1>9, <1>10, <1>11, <1>12,
     <1>13, <1>14, <1>15, <1>16, <1>17, <1>18, <1>19, <1>20, <1>21, <1>22,
     <1>23, <1>24, <1>25, <1>26, <1>27, <1>29, <1>30, <1>31, <1>32, <1>33, <1>34
  DEF Next, Control, Environment

\* Every reachable state is well typed and no transfer leaves the file,
\* whatever faults are admitted.
THEOREM TypeCorrect == Spec => []TypeOK
<1>1. TypeInv => TypeOK
  BY DEF TypeInv
<1> QED BY <1>1, TypeInit, TypeStep, PTL DEF Spec

-----------------------------------------------------------------------------
(***************************************************************************)
(* No hole is ever published, in a tame environment.                       *)
(***************************************************************************)

LEMMA SoundMono ==
    ASSUME NEW g, NEW d, NEW e, Sound(g, d), d \subseteq e
    PROVE  Sound(g, e)
BY DEF Sound

\* The segment of an unfinished slot, or of one that has something pending,
\* is sound; and every missing block lies in such a segment.
LEMMA SaveKeepsCover ==
    ASSUME IInv, InAttempt, tmp.there,
           NEW S \in SUBSET Slot, S = Unfinished \/ S = Pending
    PROVE  LET f == Saved(S)
           IN  /\ \A k \in 1 .. f.segnum : Sound(f.segs[k], f.data)
               /\ \A b \in Block \ f.data :
                     \E k \in 1 .. f.segnum : Covers(f.segs[k], b)
<1>1. /\ Saved(S).data = tmp.data /\ Saved(S).segnum = Cardinality(S)
      /\ \A k \in 1 .. Cardinality(S) :
            Nth(S, k) \in S /\ Saved(S).segs[k] = seg[Nth(S, k)]
  BY SavedTrailer DEF IInv
<1>2. ASSUME NEW s \in S
      PROVE  s \in Slot /\ Active(s) /\ Sound(seg[s], tmp.data)
  BY DEF Unfinished, Pending, IInv, SlotInv
<1>3. ASSUME NEW b \in Block \ tmp.data
      PROVE  \E s \in S : Covers(seg[s], b)
  <2>1. PICK s \in Slot : Active(s) /\ Covers(seg[s], b)
    BY DEF IInv, SlotInv
  <2>2. s \in Unfinished
    BY <2>1 DEF IInv, ResultInv, Unfinished, Done
  <2>3. seg[s].ds < DownSize(seg[s])
    <3>1. Sound(seg[s], tmp.data) /\ seg[s] \in Seg /\ b \in Int
      BY <2>1 DEF IInv, SlotInv, TypeInv, TypeOK, Block
    <3>2. ~(seg[s].sp <= b /\ b < seg[s].sp + seg[s].ds)
      BY <3>1 DEF Sound
    <3> QED BY <2>1, <3>1, <3>2 DEF Covers, Sound, DownSize, Seg
  <2> QED BY <2>1, <2>2, <2>3 DEF Pending
<1>4. ASSUME NEW b \in Block \ tmp.data
      PROVE  \E k \in 1 .. Cardinality(S) : Covers(Saved(S).segs[k], b)
  <2>1. PICK s \in S : Covers(seg[s], b)
    BY <1>3
  <2>2. PICK k \in 1 .. Cardinality(S) : Nth(S, k) = s
    BY NthOnto
  <2> QED BY <1>1, <2>1, <2>2
<1> QED BY <1>1, <1>2, <1>4

\* When all slots have stopped with success there is no block left to fetch.
LEMMA AllOkIsAll ==
    ASSUME IInv, pc = "finish", AllOk, tmp.there
    PROVE  tmp.data = Block
<1>1. tmp.data \in SUBSET Block
  BY DEF IInv, TypeInv, TypeOK, CacheFile
<1>2. ASSUME NEW b \in Block \ tmp.data PROVE FALSE
  <2>1. PICK s \in Slot : Active(s) /\ Covers(seg[s], b)
    BY <1>2 DEF IInv, SlotInv, InAttempt
  <2>2. re[s] = "ok"
    BY <2>1 DEF AllOk
  <2> QED BY <1>2, <2>1, <2>2 DEF IInv, ResultInv, InAttempt
<1> QED BY <1>1, <1>2

LEMMA IInvInit == Init => IInv
<1> SUFFICES ASSUME Init PROVE IInv
  OBVIOUS
<1>1. TypeInv
  BY TypeInit
<1> QED BY <1>1 DEF Init, Zeroed, IInv, TrailerInv, SlotInv, ResultInv, JobInv,
                    RenameInv, InAttempt, PublishedComplete, NoTmp, NoJob, Active

LEMMA IInvStep == Tame /\ IInv /\ [Next]_vars => IInv'
<1> SUFFICES ASSUME Tame, IInv, [Next]_vars PROVE IInv'
  OBVIOUS
<1>0. TypeInv /\ TypeInv'
  BY TypeStep DEF IInv
<1> USE <1>0 DEF IInv, TrailerInv, SlotInv, ResultInv, JobInv, RenameInv, InAttempt,
                 PublishedComplete, Goto, Return, mTask, ctl, files, Active
<1>a. /\ "notfound" \notin Faults /\ "straggler" \notin Faults
      /\ "errorbody" \notin Faults /\ "torn" \notin Faults
  BY DEF Tame
<1>b. ASSUME Stopped
      PROVE  \A s \in Slot : cond[s] = "stop" /\ job[s].at \in {"idle", "code"}
  <2>1. \A s \in Slot : cond[s] = "stop" /\ job[s] \in Job
    BY <1>a, <1>b DEF Stopped, TypeInv, TypeOK
  <2> QED BY <2>1 DEF Job
<1>c. ASSUME Quiet
      PROVE  \A s \in Slot : job[s].at = "idle" /\ job[s].ret = "err"
                            /\ job[s].fd = "none"
  BY <1>a, <1>c DEF Quiet
<1>1. CASE StartTask
  BY <1>1 DEF StartTask
<1>2. CASE NextTry
  BY <1>2 DEF NextTry
<1>3. CASE GiveUp
  BY <1>3 DEF GiveUp
<1>4. CASE pcs_chk_downfile_size
  BY <1>4 DEF pcs_chk_downfile_size
<1>5. CASE LocalExists
  BY <1>5 DEF LocalExists
<1>6. CASE pcs_create_tmp_down_file
  BY <1>6 DEF pcs_create_tmp_down_file, NoTmp
<1>7. CASE CreateTmpFails
  BY <1>7 DEF CreateTmpFails, RemoveTmp, Orphaned, NoTmp
<1>8. CASE pcs_multi_down_initinfo
  <2>1. /\ pc = "init" /\ pc' = "setstart" /\ tmp.there
        /\ seg' = [s \in Slot |-> Partition(s)]
        /\ cond' = [s \in Slot |-> "stop"] /\ re' = [s \in Slot |-> "none"]
        /\ tmp' = [tmp EXCEPT !.hdr = "ok",
                              !.segnum = ThreadNum,
                              !.segs = [k \in 1 .. N |-> Partition(k - 1)]]
        /\ UNCHANGED <<job, local, why>>
    BY <1>8 DEF pcs_multi_down_initinfo
  <2>2. \A s \in Slot : job[s].at = "idle" /\ job[s].ret = "err"
                        /\ job[s].fd = "none"
    BY <1>8, <1>c DEF pcs_multi_down_initinfo
  <2>3. /\ tmp'.there /\ tmp'.hdr = "ok" /\ tmp'.segnum = ThreadNum
        /\ tmp'.data = tmp.data
        /\ \A k \in 1 .. N : tmp'.segs[k] = Partition(k - 1)
    BY <2>1 DEF TypeInv, TypeOK, CacheFile
  <2>4. ThreadNum \in 1 .. N
    BY PerSizeFits
  <2>5. \A s \in 0 .. ThreadNum - 1 : Sound(Partition(s), tmp'.data)
    <3>1. ASSUME NEW s \in 0 .. ThreadNum - 1, NEW g, g = Partition(s)
          PROVE  Sound(g, tmp'.data)
      <4>1. /\ g \in Seg /\ g.threadNum = s + 1 /\ g.ds = 0
            /\ 0 <= g.sp /\ g.sp <= g.ep /\ g.ep < Size
        BY <3>1, PartitionSound
      <4>2. s + 1 # 0 /\ g.sp \in Int /\ g.ep \in Int
        BY <2>4, <4>1 DEF Seg
      <4> QED BY <4>1, <4>2 DEF Sound, Block
    <3> QED BY <3>1
  <2>6. \A s \in Slot : Partition(s).threadNum # 0 => s \in 0 .. ThreadNum - 1
    BY <2>4 DEF Partition, NoSeg, Slot
  <2>7. TrailerInv'
    <3>1. \A k \in 1 .. tmp'.segnum : k - 1 \in 0 .. ThreadNum - 1 /\ k \in 1 .. N
      BY <2>3, <2>4
    <3>2. \A k \in 1 .. tmp'.segnum : Sound(tmp'.segs[k], tmp'.data)
      BY <2>3, <2>5, <3>1
    <3>3. ASSUME NEW b \in Block PROVE \E k \in 1 .. tmp'.segnum : Covers(tmp'.segs[k], b)
      <4>1. PICK s \in 0 .. ThreadNum - 1 : Covers(Partition(s), b)
        BY PartitionCovers
      <4>2. s + 1 \in 1 .. tmp'.segnum /\ tmp'.segs[s + 1] = Partition(s)
        BY <2>3, <2>4
      <4> QED BY <4>1, <4>2
    <3> QED BY <2>3, <3>2, <3>3
  <2>8. SlotInv'
    <3>1. \A s \in Slot : Active(s)' => Sound(seg'[s], tmp'.data)
      BY <2>1, <2>5, <2>6
    <3>2. ASSUME NEW b \in Block PROVE \E s \in Slot : Active(s)' /\ Covers(seg'[s], b)
      <4>1. PICK s \in 0 .. ThreadNum - 1 : Covers(Partition(s), b)
        BY PartitionCovers
      <4>2. s \in Slot /\ seg'[s] = Partition(s) /\ Partition(s).threadNum # 0
        BY <2>1, <2>4, PartitionSound DEF Slot
      <4> QED BY <4>1, <4>2
    <3> QED BY <2>3, <3>1, <3>2
  <2>9. ResultInv'
    BY <2>1, <2>2
  <2>10. JobInv'
    <3>1. \A s \in Slot : Partition(s).ds = 0
      BY DEF Partition, NoSeg
    <3>2. \A s \in Slot : seg'[s].ds >= 0
      BY <2>1, <3>1
    <3> QED BY <2>1, <2>2, <3>2
  <2> QED BY <2>1, <2>7, <2>8, <2>9, <2>10
<1>9. CASE InitInfoFails
  BY <1>9, <1>c DEF InitInfoFails, Clear, RemoveTmp, Orphaned, NoTmp
<1>10. CASE pcs_multi_initinfo_from_file
  <2>1. /\ pc' = "setstart" /\ tmp.there /\ tmp.hdr = "ok"
        /\ seg' = [s \in Slot |-> IF s < tmp.segnum THEN Loaded(tmp.segs[s + 1])
                                                     ELSE NoSeg]
        /\ cond' = [s \in Slot |-> "stop"] /\ re' = [s \in Slot |-> "none"]
        /\ UNCHANGED <<job, local, tmp, why>>
    BY <1>10 DEF pcs_multi_initinfo_from_file, NeedsInit, MayAccept
  <2>2. \A s \in Slot : job[s].at = "idle" /\ job[s].ret = "err"
                        /\ job[s].fd = "none"
    BY <1>10, <1>c DEF pcs_multi_initinfo_from_file
  <2>3. tmp.segnum \in 0 .. N /\ tmp.segs \in [1 .. N -> Seg]
    BY DEF TypeInv, TypeOK, CacheFile
  <2>4. ASSUME NEW g \in Seg, Sound(g, tmp.data)
        PROVE  /\ Sound(Loaded(g), tmp.data)
               /\ \A b \in Block : Covers(g, b) => Covers(Loaded(g), b)
    BY <2>4 DEF Sound, Loaded, Seg, Covers, Block
  <2>5. SlotInv'
    <3>1. ASSUME NEW s \in Slot, Active(s)' PROVE Sound(seg'[s], tmp'.data)
      <4>1. s < tmp.segnum /\ seg'[s] = Loaded(tmp.segs[s + 1])
        BY <2>1, <3>1 DEF NoSeg
      <4>2. s + 1 \in 1 .. tmp.segnum /\ s + 1 \in 1 .. N
        BY <2>3, <4>1 DEF Slot
      <4> QED BY <2>1, <2>3, <2>4, <4>1, <4>2
    <3>2. ASSUME NEW b \in Block \ tmp.data
          PROVE  \E s \in Slot : Active(s)' /\ Covers(seg'[s], b)
      <4>1. PICK k \in 1 .. tmp.segnum : Covers(tmp.segs[k], b)
        BY <2>1
      <4>2. k - 1 \in Slot /\ k - 1 < tmp.segnum /\ (k - 1) + 1 = k /\ k \in 1 .. N
        BY <2>3 DEF Slot
      <4>3. seg'[k - 1] = Loaded(tmp.segs[k])
        BY <2>1, <4>2
      <4>4. Sound(tmp.segs[k], tmp.data) /\ tmp.segs[k] \in Seg
        BY <2>1, <2>3, <4>2
      <4>5. Loaded(tmp.segs[k]).threadNum # 0 /\ Covers(Loaded(tmp.segs[k]), b)
        BY <2>4, <4>1, <4>4 DEF Sound
      <4> QED BY <4>2, <4>3, <4>5
    <3> QED BY <2>1, <3>1, <3>2
  <2>6. ResultInv'
    BY <2>1, <2>2
  <2>7. JobInv'
    <3>1. \A g \in Seg : Loaded(g).ds >= 0
      BY DEF Loaded, Seg
    <3>2. ASSUME NEW s \in Slot PROVE seg'[s].ds >= 0
      <4>1. s + 1 \in 1 .. N
        BY DEF Slot
      <4>2. tmp.segs[s + 1] \in Seg /\ NoSeg.ds = 0
        BY <2>3, <4>1 DEF NoSeg
      <4> QED BY <2>1, <3>1, <4>2
    <3> QED BY <2>1, <2>2, <3>2
  <2> QED BY <2>1, <2>5, <2>6, <2>7
<1>11. CASE FromFileFails
  BY <1>11, <1>c DEF FromFileFails, Clear, RemoveTmp, Orphaned, NoTmp
<1>30. CASE FromFileUnread
  BY <1>30 DEF FromFileUnread
<1>12. CASE pcs_multi_down_setstart
  BY <1>12 DEF pcs_multi_down_setstart
<1>13. CASE Interrupted
  BY <1>13 DEF Interrupted, Stop
<1>14. CASE GoOn
  BY <1>14 DEF GoOn
<1>15. CASE pcs_multi_down_chk_condition
  BY <1>15 DEF pcs_multi_down_chk_condition, Stop
<1>16. CASE pcs_multi_down_update_mdinfo
  <2>1. /\ pc = "update" /\ pc' = "finish" /\ tmp' = Saved(Pending) /\ tmp.there
        /\ UNCHANGED <<cond, intr, re, seg, job, local, why>>
    BY <1>16 DEF pcs_multi_down_update_mdinfo
  <2>2. Pending \in SUBSET Slot
    BY DEF Pending, Unfinished
  <2>3. tmp'.there = tmp.there /\ tmp'.data = tmp.data /\ tmp'.hdr = "ok"
    BY <2>1, <2>2, SavedTrailer
  <2>4. TrailerInv'
    BY <2>1, <2>2, <2>3, SaveKeepsCover
  <2>5. SlotInv' /\ ResultInv' /\ JobInv'
    BY <2>1, <2>3
  <2> QED BY <2>1, <2>4, <2>5
<1>17. CASE NoUpdate
  BY <1>17 DEF NoUpdate
<1>18. CASE pcs_multi_down_chk_finish
  <2>1. CASE NotFoundFirst
    BY <2>1 DEF NotFoundFirst
  <2>2. CASE ~NotFoundFirst /\ AllOk /\ tmp.there
    <3>1. /\ tmp' = Truncated /\ pc = "finish" /\ pc' \in {"aside", "rename"}
          /\ local.by # "nobody" => pc' = "aside"
          /\ UNCHANGED <<cond, intr, re, seg, job, local, why>>
      BY <1>18, <2>2 DEF pcs_multi_down_chk_finish, Look
    <3>2. tmp.data = Block
      BY <2>2, <3>1, AllOkIsAll
    <3>3. \A s \in Slot : job[s].at \in {"idle", "code"} /\ job[s].fd = "none"
                          /\ cond[s] = "stop"
      <4>1. \A s \in Slot : cond[s] = "stop" /\ job[s] \in Job
        BY <2>2, <3>1 DEF AllOk, TypeInv, TypeOK
      <4> QED BY <4>1 DEF Job
    <3>4. tmp'.there /\ tmp'.hdr = "none" /\ tmp'.data = Block
      BY <3>1, <3>2, TruncatedType
    <3> QED BY <3>1, <3>3, <3>4
  <2>3. CASE ~NotFoundFirst /\ ~(AllOk /\ tmp.there)
    BY <1>18, <2>3 DEF pcs_multi_down_chk_finish
  <2> QED BY <2>1, <2>2, <2>3
<1>31. CASE TruncateFails
  BY <1>31 DEF TruncateFails
<1>32. CASE RenameAside
  <2>1. /\ pc = "aside" /\ pc' = "rename" /\ tmp' = NoTmp /\ job' = Orphaned(job)
        /\ UNCHANGED <<cond, intr, re, seg, local, why>>
    BY <1>32 DEF RenameAside, RemoveTmp, Tame
  <2>2. \A s \in Slot : job[s].fd = "none" /\ job'[s] = job[s]
    BY <2>1 DEF Orphaned, TypeInv, TypeOK
  <2> QED BY <2>1, <2>2 DEF NoTmp
<1>33. CASE RenameToFinal
  <2>1. /\ pc = "rename" /\ pc' = "size" /\ tmp' = NoTmp /\ tmp.there
        /\ local' = [by |-> "download", data |-> tmp.data]
        /\ UNCHANGED <<cond, intr, re, seg, why>>
    BY <1>33 DEF RenameToFinal
  <2>2. \A s \in Slot : job[s].fd = "none" /\ job'[s] = job[s]
    BY <1>33, <2>1 DEF RenameToFinal, TypeInv, TypeOK
  <2> QED BY <2>1, <2>2 DEF NoTmp
<1>34. CASE RenameFails
  BY <1>34 DEF RenameFails
<1>19. CASE pcs_multi_down_set_interupte
  <2>1. /\ pc = "stop" /\ tmp' = Saved(Unfinished) /\ AfterStop /\ tmp.there
        /\ UNCHANGED <<cond, intr, re, seg, job, local>>
    BY <1>19 DEF pcs_multi_down_set_interupte
  <2>2. Unfinished \in SUBSET Slot
    BY DEF Unfinished
  <2>3. tmp'.there = tmp.there /\ tmp'.data = tmp.data /\ tmp'.hdr = "ok"
    BY <2>1, <2>2, SavedTrailer
  <2>4. TrailerInv'
    BY <2>1, <2>2, <2>3, SaveKeepsCover
  <2>5. \A s \in Slot : cond[s] = "stop" /\ job[s].at \in {"idle", "code"}
    BY <1>19, <1>b DEF pcs_multi_down_set_interupte
  <2>6. pc' \in {"try", "idle"} /\ why' = "interp"
    BY <2>1 DEF AfterStop
  <2>7. SlotInv' /\ ResultInv' /\ JobInv'
    BY <2>1, <2>5, <2>6
  <2>8. RenameInv' /\ PublishedComplete'
    BY <2>1, <2>6
  <2> QED BY <2>1, <2>4, <2>7, <2>8
<1>20. CASE SaveFails
  BY <1>b, <1>20 DEF SaveFails, AfterStop
<1>21. CASE DropNotFound
  BY <1>21 DEF DropNotFound
<1>22. ASSUME NEW s \in Slot, Worker(s)
       PROVE  IInv'
  <2>0. /\ job[s] \in Job /\ seg[s] \in Seg /\ job \in [Slot -> Job]
        /\ cond \in [Slot -> {"stop", "run"}] /\ seg \in [Slot -> Seg]
        /\ re \in [Slot -> {"none", "ok", "err", "nfound"}]
        /\ tmp.data \subseteq Block
    BY DEF TypeInv, TypeOK, CacheFile
  <2>a. ASSUME NEW r \in {"ok", "err"}, Leave(s, r), cond[s] = "run",
               r = "ok" /\ tmp.there => \A b \in Block : Covers(seg[s], b) => b \in tmp.data,
               UNCHANGED <<re, seg, tmp, local, pc, why>>
        PROVE  IInv'
    <3> DEFINE j == [at |-> "code", pos |-> 0, end |-> 0, ret |-> r, fd |-> "none"]
    <3>1. /\ j.at = "code" /\ j.ret = r /\ j.fd = "none"
          /\ job' = [job EXCEPT ![s] = j] /\ cond' = [cond EXCEPT ![s] = "stop"]
      BY <2>a DEF Leave
    <3> HIDE DEF j
    <3>2. \A t \in Slot : /\ job'[t] = IF t = s THEN j ELSE job[t]
                         /\ cond'[t] = IF t = s THEN "stop" ELSE cond[t]
      BY <2>0, <3>1
    <3>3. TrailerInv' /\ SlotInv'
      BY <2>a
    <3>4. ResultInv'
      BY <2>a, <3>1, <3>2
    <3>5. JobInv'
      BY <2>a, <3>1, <3>2
    <3> QED BY <2>a, <3>3, <3>4, <3>5
  <2>1. CASE thread_down_task(s)
    <3>0. tmp.there
      BY <2>1 DEF thread_down_task
    <3> DEFINE j == [at |-> "ask", ret |-> "err", fd |-> "tmp",
                     pos |-> seg[s].sp + seg[s].ds,
                     end |-> IF seg[s].ds = DownSize(seg[s]) THEN Size
                                                             ELSE seg[s].ep + 1]
    <3>1. /\ job[s].at = "idle" /\ cond[s] = "run" /\ Active(s)
          /\ UNCHANGED <<cond, intr, re, seg, tmp, local, pc, why>>
          /\ job' = [job EXCEPT ![s] = j]
      BY <2>1 DEF thread_down_task
    <3>2. InAttempt /\ pc # "setstart" /\ Sound(seg[s], tmp.data) /\ seg[s].ds >= 0
      BY <3>0, <3>1
    <3>3. /\ j.at = "ask" /\ j.ret = "err" /\ j.fd = "tmp"
          /\ j.pos = seg[s].sp + seg[s].ds
          /\ seg[s].sp <= j.pos /\ j.pos <= j.end /\ j.end <= Size
          /\ \/ j.end = seg[s].ep + 1
             \/ j.end = Size /\ seg[s].ep < j.pos
          /\ \A b \in Block : seg[s].sp <= b /\ b < j.pos => b \in tmp.data
      BY <2>0, <3>1, <3>2 DEF Sound, DownSize, Seg, Block
    <3> HIDE DEF j
    <3>4. \A t \in Slot : job'[t] = IF t = s THEN j ELSE job[t]
      BY <2>0, <3>1
    <3>5. JobInv'
      BY <3>1, <3>2, <3>3, <3>4
    <3>6. TrailerInv' /\ SlotInv' /\ ResultInv'
      BY <3>1, <3>3, <3>4
    <3> QED BY <3>1, <3>5, <3>6
  <2>2. CASE TaskFails(s)
    BY <2>2, <2>a DEF TaskFails
  <2>3. CASE Answered(s)
    <3>1. \A t \in Slot : /\ job'[t].at = IF t = s THEN "get" ELSE job[t].at
                         /\ job'[t].pos = job[t].pos /\ job'[t].end = job[t].end
                         /\ job'[t].ret = job[t].ret /\ job'[t].fd = job[t].fd
      BY <2>0, <2>3 DEF Answered, Job
    <3>2. job[s].at = "ask" /\ UNCHANGED <<cond, intr, re, seg, tmp, local, pc, why>>
      BY <2>3 DEF Answered
    <3>3. TrailerInv' /\ SlotInv' /\ ResultInv'
      BY <3>1, <3>2
    <3>4. JobInv'
      BY <3>1, <3>2
    <3> QED BY <3>2, <3>3, <3>4
  <2>4. CASE write_callback_multi_down(s)
    <3> DEFINE p == job[s].pos
    <3>1. /\ job[s].at = "get" /\ p < job[s].end
          /\ UNCHANGED <<cond, intr, re, seg, pc, why>>
          /\ job' = [job EXCEPT ![s] = [job[s] EXCEPT !.pos = p + 1]]
      BY <2>4 DEF write_callback_multi_down
    <3>2. /\ job[s].fd # "local" /\ (tmp.there => job[s].fd = "tmp")
          /\ cond[s] = "run" /\ InAttempt /\ pc # "setstart"
          /\ p \in Int /\ job[s].end \in Int /\ seg[s].sp <= p /\ job[s].end <= Size
      BY <2>0, <3>1 DEF Job
    <3>3. /\ tmp' = IF job[s].fd = "tmp" THEN [tmp EXCEPT !.data = tmp.data \cup {p}]
                                         ELSE tmp
          /\ local' = local
      BY <2>4, <3>2 DEF write_callback_multi_down
    <3>4. /\ tmp'.there = tmp.there /\ tmp'.hdr = tmp.hdr
          /\ tmp'.segnum = tmp.segnum /\ tmp'.segs = tmp.segs
          /\ tmp.data \subseteq tmp'.data
          /\ tmp.there => tmp'.data = tmp.data \cup {p}
      BY <3>2, <3>3 DEF TypeInv, TypeOK, CacheFile
    <3>5. \A t \in Slot : /\ job'[t].at = job[t].at /\ job'[t].end = job[t].end
                         /\ job'[t].ret = job[t].ret /\ job'[t].fd = job[t].fd
                         /\ job'[t].pos = IF t = s THEN p + 1 ELSE job[t].pos
      BY <2>0, <3>1 DEF Job
    <3>6. \A g : Sound(g, tmp.data) => Sound(g, tmp'.data)
      BY <3>4, SoundMono
    <3>7. TrailerInv'
      BY <3>4, <3>6
    <3>8. SlotInv'
      BY <3>1, <3>4, <3>6
    <3>9. ResultInv'
      BY <3>1, <3>4, <3>5
    <3>10. JobInv'
      <4>1. ASSUME tmp.there, NEW b \in Block, seg[s].sp <= b, b < p + 1
            PROVE  b \in tmp'.data
        BY <3>1, <3>2, <3>4, <4>1 DEF Block
      <4>2. /\ seg[s].sp <= p + 1 /\ p + 1 <= job[s].end
            /\ job[s].end = Size /\ seg[s].ep < p => seg[s].ep < p + 1
        BY <2>0, <3>1, <3>2 DEF Seg
      <4>3. /\ job'[s].at = "get" /\ job'[s].fd = job[s].fd /\ job'[s].pos = p + 1
            /\ job'[s].end = job[s].end /\ seg'[s] = seg[s] /\ cond'[s] = "run"
        BY <3>1, <3>2, <3>5
      <4>4. \A t \in Slot \ {s} : job'[t].pos = job[t].pos
        BY <3>5
      <4>5. tmp.there => \A t \in Slot : \A b \in Block :
               seg[t].sp <= b /\ b < job'[t].pos /\ job[t].at \in {"ask", "get"}
               => b \in tmp'.data
        BY <3>4, <4>1, <4>3, <4>4
      <4> HIDE DEF p
      <4>6. ASSUME NEW t \in Slot, job'[t].at \in {"ask", "get"}
            PROVE  /\ cond'[t] = "run" /\ job'[t].fd # "local"
                   /\ seg'[t].sp <= job'[t].pos
                   /\ job'[t].pos <= job'[t].end /\ job'[t].end <= Size
                   /\ \/ job'[t].end = seg'[t].ep + 1
                      \/ job'[t].end = Size /\ seg'[t].ep < job'[t].pos
                   /\ tmp'.there =>
                         /\ job'[t].fd = "tmp"
                         /\ \A b \in Block :
                               seg'[t].sp <= b /\ b < job'[t].pos => b \in tmp'.data
        <5>1. CASE t = s
          <6>1. \/ job[s].end = seg[s].ep + 1
                \/ job[s].end = Size /\ seg[s].ep < p
            BY <3>1 DEF p
          <6> QED BY <3>1, <3>2, <3>4, <4>2, <4>3, <4>5, <5>1, <6>1
        <5>2. CASE t # s
          BY <3>1, <3>4, <3>5, <4>4, <4>5, <4>6, <5>2
        <5> QED BY <5>1, <5>2
      <4>7. ASSUME NEW t \in Slot
            PROVE  /\ ~InAttempt' => job'[t].at \in {"idle", "code"} /\ cond'[t] = "stop"
                   /\ pc' = "setstart" => /\ cond'[t] = "stop" /\ job'[t].at = "idle"
                                          /\ re'[t] = "none" /\ seg'[t].ds >= 0
                   /\ job'[t].at = "idle" => job'[t].ret = "err"
                   /\ job'[t].at \in {"idle", "code"} => job'[t].fd = "none"
                   /\ cond'[t] = "run" /\ job'[t].at = "idle" => seg'[t].ds >= 0
                   /\ cond'[t] = "run" =>
                         /\ Active(t)' /\ re'[t] = "none"
                         /\ job'[t].at \in {"idle", "ask", "get"} /\ job'[t].ret = "err"
        BY <3>1, <3>2, <3>5
      <4>8. pc' # "init"
        BY <3>1, <3>2
      <4> QED BY <4>6, <4>7, <4>8
    <3>11. RenameInv'
      BY <3>1, <3>2
    <3> QED BY <3>3, <3>7, <3>8, <3>9, <3>10, <3>11
  <2>5. CASE trans_callback_multi_down(s)
    <3> DEFINE d == DownSize(seg[s]) - (job[s].end - job[s].pos)
               g == [seg[s] EXCEPT !.ds = d]
    <3>1. /\ job[s].at = "get" /\ seg' = [seg EXCEPT ![s] = g]
          /\ UNCHANGED <<cond, re, job, tmp, local, pc, why>>
      BY <2>5 DEF trans_callback_multi_down
    <3>2. /\ cond[s] = "run" /\ InAttempt /\ pc # "setstart" /\ Active(s)
          /\ tmp.there => Sound(seg[s], tmp.data)
      BY <3>1
    <3>3. /\ g.sp = seg[s].sp /\ g.ep = seg[s].ep /\ g.threadNum = seg[s].threadNum
          /\ g.ds = d
      BY <2>0 DEF Seg
    <3>4. d = seg[s].ep - seg[s].sp + 1 - (job[s].end - job[s].pos)
      <4>1. seg[s].threadNum # 0
        BY <3>2
      <4>2. DownSize(seg[s]) = seg[s].ep - seg[s].sp + 1
        BY <4>1, Zenon DEF DownSize
      <4>3. seg[s].sp \in Int /\ seg[s].ep \in Int /\ job[s].pos \in Int
            /\ job[s].end \in Int
        BY <2>0 DEF Seg, Job
      <4> QED BY <4>2, <4>3
    <3>5. ASSUME tmp.there PROVE Sound(g, tmp.data)
      <4> HIDE DEF d, g
      <4>1. /\ seg[s].sp \in Int /\ seg[s].ep \in Int /\ seg[s].ds \in Int
            /\ job[s].pos \in Int /\ job[s].end \in Int
        BY <2>0 DEF Seg, Job
      <4>2. g.sp + g.ds <= job[s].pos /\ g.sp + g.ds <= g.ep + 1
        BY <3>1, <3>3, <3>4, <4>1
      <4>3. \A b \in Block : seg[s].sp <= b /\ b < job[s].pos => b \in tmp.data
        BY <3>1, <3>5
      <4>4. \A b \in Block : g.sp <= b /\ b < g.sp + g.ds => b \in tmp.data
        BY <3>3, <3>4, <4>1, <4>2, <4>3 DEF Block
      <4> QED BY <3>2, <3>3, <3>5, <4>2, <4>4 DEF Sound
    <3> HIDE DEF d, g
    <3>6. \A t \in Slot : seg'[t] = IF t = s THEN g ELSE seg[t]
      BY <2>0, <3>1
    <3>7. \A t \in Slot : seg'[t].sp = seg[t].sp /\ seg'[t].ep = seg[t].ep
                         /\ seg'[t].threadNum = seg[t].threadNum
      BY <3>3, <3>6
    <3>8. TrailerInv'
      BY <3>1
    <3>9. SlotInv'
      BY <3>1, <3>5, <3>6, <3>7 DEF Covers
    <3>10. ResultInv'
      BY <3>1, <3>7 DEF Covers
    <3>11. JobInv'
      BY <3>1, <3>2, <3>6, <3>7
    <3> QED BY <3>1, <3>8, <3>9, <3>10, <3>11
  <2>6. CASE Abort(s)
    BY <2>6, <2>a DEF Abort
  <2>7. CASE NetworkError(s)
    BY <2>7, <2>a DEF NetworkError
  <2>8. CASE Complete(s)
    <3>1. ASSUME tmp.there, NEW b \in Block, Covers(seg[s], b) PROVE b \in tmp.data
      <4>1. job[s].at = "get" /\ job[s].pos = job[s].end
        BY <2>8 DEF Complete
      <4>2. /\ \/ job[s].end = seg[s].ep + 1
               \/ job[s].end = Size /\ seg[s].ep < job[s].pos
            /\ seg[s].sp <= b /\ b < job[s].pos => b \in tmp.data
        BY <3>1, <4>1
      <4> QED BY <2>0, <3>1, <4>1, <4>2 DEF Covers, Block, Seg, Job
    <3>2. Leave(s, "ok") /\ cond[s] = "run" /\ UNCHANGED <<re, seg, tmp, local, pc, why>>
      BY <2>8 DEF Complete
    <3> QED BY <2>a, <3>1, <3>2
  <2>9. ASSUME NEW r \in {"err", "nfound"}, Refused(s, r)
        PROVE  IInv'
    BY <1>a, <2>9, <2>a DEF Refused
  <2>10. CASE SetReCode(s)
    <3>1. /\ job[s].at = "code" /\ re' = [re EXCEPT ![s] = job[s].ret]
          /\ job' = [job EXCEPT ![s] = NoJob]
          /\ UNCHANGED <<cond, seg, tmp, local, pc, why>>
      BY <2>10 DEF SetReCode
    <3>2. \A t \in Slot : /\ job'[t] = IF t = s THEN NoJob ELSE job[t]
                         /\ re'[t] = IF t = s THEN job[s].ret ELSE re[t]
      BY <2>0, <3>1
    <3>3. NoJob.at = "idle" /\ NoJob.ret = "err" /\ NoJob.fd = "none"
      BY DEF NoJob
    <3>4. cond[s] = "stop" /\ pc # "setstart"
      BY <2>0, <3>1
    <3>5. TrailerInv' /\ SlotInv'
      BY <3>1
    <3>6. ResultInv'
      BY <3>1, <3>2, <3>3
    <3>7. JobInv'
      BY <3>1, <3>2, <3>3, <3>4
    <3> QED BY <3>1, <3>5, <3>6, <3>7
  <2> QED BY <1>22, <2>1, <2>2, <2>3, <2>4, <2>5, <2>6, <2>7, <2>8, <2>9,
             <2>10 DEF Worker
<1>23. CASE Crash
  BY <1>23 DEF Crash, Restart, Clear, NoJob
<1>24. CASE CrashInSave
  BY <1>24 DEF CrashInSave, Tame
<1>25. CASE CrashInInit
  BY <1>25 DEF CrashInInit, Tame
<1>26. CASE UserFile
  BY <1>26 DEF UserFile, TypeInv, TypeOK
<1>27. CASE UNCHANGED vars
  BY <1>27 DEF vars
<1>29. CASE WebDelete
  <2>1. tmp' = NoTmp /\ job' = Orphaned(job) /\ ~NoTmp.there
        /\ UNCHANGED <<cond, intr, re, seg, local, pc, why>>
    BY <1>29 DEF WebDelete, RemoveTmp, NoTmp
  <2>2. \A s \in Slot :
           /\ job'[s].at = job[s].at /\ job'[s].ret = job[s].ret
           /\ job'[s].pos = job[s].pos /\ job'[s].end = job[s].end
           /\ job'[s].fd = IF job[s].fd = "tmp" THEN "none" ELSE job[s].fd
    BY <2>1 DEF Orphaned, TypeInv, TypeOK, Job
  <2>3. ResultInv' /\ TrailerInv' /\ SlotInv'
    BY <2>1, <2>2
  <2>4. JobInv'
    BY <2>1, <2>2
  <2> QED BY <2>1, <2>3, <2>4
<1> QED
  BY <1>1, <1>2, <1>3, <1>4, <1>5, <1>6, <1>7, <1>8, <1>9, <1>10, <1>11, <1>12,
     <1>13, <1>14, <1>15, <1>16, <1>17, <1>18, <1>19, <1>20, <1>21, <1>22,
     <1>23, <1>24, <1>25, <1>26, <1>27, <1>29, <1>30, <1>31, <1>32, <1>33, <1>34
  DEF Next, Control, Environment

\* In a tame environment a file at its final path is complete, however often
\* the download was paused, failed, crashed and was resumed.
THEOREM NoHolePublished ==
    ASSUME Tame PROVE Spec => []PublishedComplete
<1>1. IInv => PublishedComplete
  BY DEF IInv
<1> QED BY Tame, <1>1, IInvInit, IInvStep, PTL DEF Spec

LEMMA TrailerCovers == IInv => ResumeCovers
<1> SUFFICES ASSUME IInv, tmp.there, tmp.hdr = "ok", NEW b \in Block \ tmp.data
             PROVE  \E k \in 1 .. tmp.segnum : b \in Rest(tmp.segs[k])
  BY DEF ResumeCovers
<1>1. PICK k \in 1 .. tmp.segnum : Covers(tmp.segs[k], b)
  BY DEF IInv, TrailerInv
<1>2. Sound(tmp.segs[k], tmp.data)
  BY DEF IInv, TrailerInv
<1>3. tmp.segs[k] \in Seg
  BY DEF IInv, TypeInv, TypeOK, CacheFile
<1> QED BY <1>1, <1>2, <1>3 DEF Sound, Covers, Rest, Seg, Block

\* In a tame environment nothing is lost over a restart: what the trailer of
\* the cache file makes the next attempt skip is in the file.
THEOREM ResumeLosesNothing ==
    ASSUME Tame PROVE Spec => []ResumeCovers
BY Tame, TrailerCovers, IInvInit, IInvStep, PTL DEF Spec

-----------------------------------------------------------------------------
(***************************************************************************)
(* Segments share no block, whatever the environment does.                 *)
(***************************************************************************)

InFile(g)   == g.sp \in Block /\ g.ep \in Block /\ g.sp <= g.ep
Apart(g, h) == g.threadNum # h.threadNum /\ (g.ep < h.sp \/ h.ep < g.sp)

\* The same part of the file for the same worker; ds moves.
SamePart(g, h) == g.threadNum = h.threadNum /\ g.sp = h.sp /\ g.ep = h.ep

SlotsApart ==
    \A s \in Slot : Active(s) =>
        InFile(seg[s]) /\ \A t \in Slot \ {s} : Active(t) => Apart(seg[s], seg[t])

TrailerApart ==
    \A k \in 1 .. tmp.segnum :
        /\ tmp.segs[k].threadNum # 0 /\ InFile(tmp.segs[k])
        /\ \A l \in (1 .. tmp.segnum) \ {k} : Apart(tmp.segs[k], tmp.segs[l])

ApartInv == TypeInv /\ SlotsApart /\ TrailerApart

\* Two segments of a fresh download are apart: the earlier one is not the last,
\* so that it ends where the next begins.
LEMMA PartitionApart ==
    ASSUME NEW s \in 0 .. ThreadNum - 1, NEW t \in 0 .. ThreadNum - 1, s < t
    PROVE  Partition(s).ep < Partition(t).sp
<1> DEFINE p == PerSize
           m == s * p
           n == t * p
<1>1. p \in Nat \ {0} /\ ThreadNum \in 1 .. N
  BY PerSizeFits
<1>2. m \in Nat /\ n \in Nat
  BY <1>1
<1>3. (s + 1) * p = m + p
  BY <1>1, TimesSucc
<1>4. (s + 1) * p <= n
  <2>1. s + 1 \in Nat /\ t \in Nat /\ s + 1 <= t
    BY <1>1
  <2> QED BY <1>1, <2>1, TimesMono
<1>5. m + p <= n
  <2> HIDE DEF m, n
  <2> QED BY <1>1, <1>2, <1>3, <1>4
<1>6. Partition(s).ep = m + p - 1 /\ Partition(t).sp = n
  BY <1>1 DEF Partition
<1> HIDE DEF m, n, p
<1> QED BY <1>1, <1>2, <1>5, <1>6

LEMMA PartitionInFile ==
    ASSUME NEW s \in 0 .. ThreadNum - 1
    PROVE  InFile(Partition(s)) /\ Partition(s).threadNum = s + 1
<1>1. Partition(s).sp \in Int /\ Partition(s).ep \in Int
  BY PartitionSound DEF Seg
<1> QED BY <1>1, PartitionSound DEF InFile, Block

LEMMA PartitionsApart ==
    ASSUME NEW s \in 0 .. ThreadNum - 1, NEW t \in 0 .. ThreadNum - 1, s # t
    PROVE  Apart(Partition(s), Partition(t))
<1>1. s \in Int /\ t \in Int
  BY PerSizeFits
<1>2. Partition(s).threadNum # Partition(t).threadNum
  BY <1>1, PartitionInFile
<1>3. s < t \/ t < s
  BY <1>1
<1> QED BY <1>2, <1>3, PartitionApart DEF Apart

\* What happens to mTask in a step: it is cleared, filled anew or from the
\* trailer, or its segments stay what they are but for ds.
LEMMA SegChanges ==
    ASSUME TypeInv, [Next]_vars
    PROVE  \/ \A s \in Slot : seg'[s] = NoSeg
           \/ \A s \in Slot : seg'[s] = Partition(s)
           \/ \A s \in Slot : seg'[s] = IF s < tmp.segnum THEN Loaded(tmp.segs[s + 1])
                                                          ELSE NoSeg
           \/ \A s \in Slot : SamePart(seg'[s], seg[s])
<1> DEFINE Kept == \A s \in Slot : SamePart(seg'[s], seg[s])
<1>k. UNCHANGED seg => Kept
  BY DEF SamePart
<1>t. seg \in [Slot -> Seg]
  BY DEF TypeInv, TypeOK
<1> USE DEF mTask
<1>1. CASE StartTask \/ NextTry \/ GiveUp \/ pcs_chk_downfile_size \/ LocalExists
  BY <1>1, <1>k DEF StartTask, NextTry, GiveUp, pcs_chk_downfile_size, LocalExists
<1>2. CASE pcs_create_tmp_down_file \/ CreateTmpFails \/ FromFileUnread
  BY <1>2, <1>k DEF pcs_create_tmp_down_file, CreateTmpFails, FromFileUnread
<1>3. CASE InitInfoFails \/ FromFileFails
  BY <1>3 DEF InitInfoFails, FromFileFails, Clear
<1>4. CASE pcs_multi_down_initinfo
  BY <1>4 DEF pcs_multi_down_initinfo
<1>5. CASE pcs_multi_initinfo_from_file
  BY <1>5 DEF pcs_multi_initinfo_from_file
<1>6. CASE \/ pcs_multi_down_setstart \/ Interrupted \/ GoOn \/ pcs_multi_down_chk_condition
           \/ pcs_multi_down_update_mdinfo \/ NoUpdate \/ pcs_multi_down_chk_finish
           \/ TruncateFails \/ RenameAside \/ RenameToFinal \/ RenameFails
           \/ pcs_multi_down_set_interupte \/ SaveFails \/ DropNotFound
  BY <1>6, <1>k DEF TruncateFails, RenameAside, RenameToFinal, RenameFails, pcs_multi_down_setstart, Interrupted, GoOn, Stop, pcs_multi_down_chk_condition,
              pcs_multi_down_update_mdinfo, NoUpdate, pcs_multi_down_chk_finish,
              pcs_multi_down_set_interupte, SaveFails, DropNotFound
<1>7. ASSUME NEW s \in Slot, Worker(s)
      PROVE  Kept
  <2>1. CASE \E d \in Int : seg' = [seg EXCEPT ![s].ds = d]
    <3>1. PICK d \in Int : seg' = [seg EXCEPT ![s].ds = d]
      BY <2>1
    <3>2. \A t \in Slot : seg'[t] = IF t = s THEN [seg[s] EXCEPT !.ds = d] ELSE seg[t]
      BY <1>t, <3>1
    <3> QED BY <1>t, <3>2 DEF Kept, SamePart, Seg
  <2>2. CASE UNCHANGED seg
    BY <2>2, <1>k
  <2>3. DownSize(seg[s]) \in Int /\ DownSize(seg[s]) - (job[s].end - job[s].pos) \in Int
    BY DEF TypeInv, TypeOK, Seg, Job, DownSize
  <2>4. CASE trans_callback_multi_down(s)
    BY <2>1, <2>3, <2>4 DEF trans_callback_multi_down
  <2>5. ASSUME NEW r \in {"err", "nfound"}, Refused(s, r) PROVE Kept
    BY <2>1, <2>2, <2>3, <2>5 DEF Refused
  <2> QED BY <1>7, <2>2, <2>4, <2>5 DEF Worker, thread_down_task, TaskFails, Answered,
             write_callback_multi_down, Abort, NetworkError, Complete, SetReCode
<1>8. CASE Crash \/ CrashInSave \/ CrashInInit
  BY <1>8 DEF Crash, CrashInSave, CrashInInit, Restart, Clear
<1>9. CASE WebDelete \/ UserFile \/ UNCHANGED vars
  BY <1>9, <1>k DEF WebDelete, UserFile, vars
<1> QED BY <1>1, <1>2, <1>3, <1>4, <1>5, <1>6, <1>7, <1>8, <1>9
        DEF Next, Control, Environment, Kept

\* What happens to the trailer: it is dropped, written anew, saved from active
\* slots, or left with its first segments, or all.
TrailerCut ==
    tmp'.segnum <= tmp.segnum /\ \A k \in 1 .. tmp'.segnum : tmp'.segs[k] = tmp.segs[k]

ActiveSlots == {s \in Slot : Active(s)}

\* The trailer is written in one piece.
Whole == "torn" \notin Faults

LEMMA TrailerChanges ==
    ASSUME Whole, TypeInv, [Next]_vars
    PROVE  \/ tmp'.segnum = 0
           \/ /\ tmp'.segnum = ThreadNum
              /\ \A k \in 1 .. N : tmp'.segs[k] = Partition(k - 1)
           \/ \E S \in SUBSET ActiveSlots : tmp' = Saved(S) /\ UNCHANGED seg
           \/ TrailerCut
<1>t. /\ tmp \in CacheFile
      /\ tmp.segnum \in Nat
  BY DEF TypeInv, TypeOK, CacheFile
<1>k. UNCHANGED tmp => TrailerCut
  BY <1>t DEF TrailerCut
<1>n. NoTmp.segnum = 0
  BY DEF NoTmp
<1>c. ASSUME tmp'.segnum = tmp.segnum, tmp'.segs = tmp.segs PROVE TrailerCut
  BY <1>c, <1>t DEF TrailerCut
<1> USE DEF files, RemoveTmp
<1>1. CASE StartTask \/ NextTry \/ GiveUp \/ pcs_chk_downfile_size \/ LocalExists
  BY <1>1, <1>k DEF StartTask, NextTry, GiveUp, pcs_chk_downfile_size, LocalExists
<1>2. CASE pcs_create_tmp_down_file
  <2>1. tmp' = [NoTmp EXCEPT !.there = TRUE, !.data = tmp.data]
    BY <1>2 DEF pcs_create_tmp_down_file
  <2> QED BY <2>1 DEF NoTmp
<1>3. CASE CreateTmpFails \/ FromFileUnread \/ InitInfoFails \/ FromFileFails
  BY <1>3, <1>k, <1>n DEF CreateTmpFails, FromFileUnread, InitInfoFails, FromFileFails
<1>4. CASE pcs_multi_down_initinfo
  <2>1. tmp' = [tmp EXCEPT !.hdr = "ok", !.segnum = ThreadNum,
                           !.segs = [k \in 1 .. N |-> Partition(k - 1)]]
    BY <1>4 DEF pcs_multi_down_initinfo
  <2> QED BY <1>t, <2>1 DEF CacheFile
<1>5. CASE pcs_multi_initinfo_from_file \/ pcs_multi_down_setstart \/ Interrupted \/ GoOn
  BY <1>5, <1>k DEF pcs_multi_initinfo_from_file, pcs_multi_down_setstart, Interrupted, GoOn, Stop
<1>6. CASE pcs_multi_down_chk_condition \/ NoUpdate \/ SaveFails
  BY <1>6, <1>k DEF pcs_multi_down_chk_condition, Stop, NoUpdate, SaveFails
<1>7. CASE pcs_multi_down_update_mdinfo
  <2>1. tmp' = Saved(Pending) /\ UNCHANGED seg
    BY <1>7 DEF pcs_multi_down_update_mdinfo, mTask
  <2>2. Pending \in SUBSET ActiveSlots
    BY DEF Pending, Unfinished, ActiveSlots
  <2> QED BY <2>1, <2>2
<1>8. CASE pcs_multi_down_set_interupte
  <2>1. tmp' = Saved(Unfinished) /\ UNCHANGED seg
    BY <1>8 DEF pcs_multi_down_set_interupte, mTask
  <2>2. Unfinished \in SUBSET ActiveSlots
    BY DEF Unfinished, ActiveSlots
  <2> QED BY <2>1, <2>2
<1>9. CASE \/ pcs_multi_down_chk_finish \/ TruncateFails \/ RenameAside \/ RenameToFinal
           \/ RenameFails \/ DropNotFound \/ WebDelete
  BY <1>9, <1>k, <1>n, TruncatedType
  DEF pcs_multi_down_chk_finish, Stop, TruncateFails, RenameAside, RenameToFinal, RenameFails,
      DropNotFound, WebDelete
<1>10. ASSUME NEW s \in Slot, Worker(s)
       PROVE  TrailerCut
  <2>1. tmp'.segnum = tmp.segnum /\ tmp'.segs = tmp.segs
    <3>1. CASE write_callback_multi_down(s)
      BY <1>t, <3>1 DEF write_callback_multi_down, CacheFile
    <3>2. ASSUME NEW r \in {"err", "nfound"}, Refused(s, r)
          PROVE  tmp'.segnum = tmp.segnum /\ tmp'.segs = tmp.segs
      BY <1>t, <3>2 DEF Refused, CacheFile
    <3> QED BY <1>10, <3>1, <3>2 DEF Worker, thread_down_task, TaskFails, Answered,
               trans_callback_multi_down, Abort, NetworkError, Complete, SetReCode
  <2> QED BY <2>1, <1>c
<1>11. CASE CrashInSave
  BY <1>11 DEF CrashInSave, Whole
<1>12. CASE CrashInInit
  <2>1. tmp' = [tmp EXCEPT !.hdr = "short"]
    BY <1>12 DEF CrashInInit
  <2>2. tmp'.segnum = tmp.segnum /\ tmp'.segs = tmp.segs
    BY <1>t, <2>1 DEF CacheFile
  <2> QED BY <2>2, <1>c
<1>13. CASE Crash \/ UserFile \/ UNCHANGED vars
  BY <1>13, <1>k DEF Crash, UserFile, vars
<1> QED BY <1>1, <1>2, <1>3, <1>4, <1>5, <1>6, <1>7, <1>8, <1>9, <1>10, <1>11, <1>12, <1>13
        DEF Next, Control, Environment

LEMMA SlotsApartStep == ApartInv /\ [Next]_vars => SlotsApart'
<1> SUFFICES ASSUME ApartInv, [Next]_vars,
                    NEW s \in Slot, (Active(s))'
             PROVE  /\ InFile(seg'[s])
                    /\ \A t \in Slot \ {s} : (Active(t))' => Apart(seg'[s], seg'[t])
  BY DEF SlotsApart, InFile, Apart
<1>t. /\ TypeInv /\ \A k \in 1 .. N : tmp.segs[k] \in Seg
      /\ tmp.segnum \in 0 .. N /\ \A x \in Slot : x \in Int /\ x + 1 \in 1 .. N
  BY DEF ApartInv, TypeInv, TypeOK, CacheFile, Slot
<1>z. ~(NoSeg.threadNum # 0)
  BY DEF NoSeg
<1>1. CASE \A x \in Slot : seg'[x] = NoSeg
  BY <1>1, <1>z DEF Active
<1>2. CASE \A x \in Slot : seg'[x] = Partition(x)
  <2>1. ThreadNum \in 1 .. N
    BY PerSizeFits
  <2>2. \A x \in Slot : (Active(x))' => x \in 0 .. ThreadNum - 1
    <3>1. \A x \in Slot : x >= ThreadNum => Partition(x) = NoSeg
      BY DEF Partition
    <3>2. \A x \in Slot : (Active(x))' => ~(x >= ThreadNum)
      BY <1>2, <1>z, <3>1 DEF Active
    <3> QED BY <2>1, <3>2 DEF Slot
  <2> QED BY <1>2, <2>2, PartitionInFile, PartitionsApart
<1>3. CASE \A x \in Slot : seg'[x] = IF x < tmp.segnum THEN Loaded(tmp.segs[x + 1]) ELSE NoSeg
  <2>1. \A x \in Slot : (Active(x))' => x + 1 \in 1 .. tmp.segnum /\ seg'[x] = Loaded(tmp.segs[x + 1])
    BY <1>3, <1>z, <1>t DEF Active
  <2>2. \A x \in Slot : (Active(x))' => SamePart(seg'[x], tmp.segs[x + 1])
    BY <2>1, <1>t DEF Loaded, SamePart, Seg
  <2>3. \A x, y \in Slot : x # y => x + 1 # y + 1
    BY <1>t
  <2> QED BY <2>1, <2>2, <2>3 DEF ApartInv, TrailerApart, InFile, Apart, SamePart
<1>4. CASE \A x \in Slot : SamePart(seg'[x], seg[x])
  BY <1>4 DEF ApartInv, SlotsApart, Active, InFile, Apart, SamePart
<1> QED BY <1>t, <1>1, <1>2, <1>3, <1>4, SegChanges

LEMMA TrailerApartStep == Whole /\ ApartInv /\ [Next]_vars => TrailerApart'
<1> SUFFICES ASSUME Whole, ApartInv, [Next]_vars, NEW k \in 1 .. tmp'.segnum
             PROVE  /\ tmp'.segs[k].threadNum # 0 /\ InFile(tmp'.segs[k])
                    /\ \A l \in (1 .. tmp'.segnum) \ {k} : Apart(tmp'.segs[k], tmp'.segs[l])
  BY DEF TrailerApart, InFile, Apart
<1>t. TypeInv
  BY DEF ApartInv
<1>1. CASE tmp'.segnum = 0
  BY <1>1
<1>2. CASE tmp'.segnum = ThreadNum /\ \A l \in 1 .. N : tmp'.segs[l] = Partition(l - 1)
  <2>1. ThreadNum \in 1 .. N
    BY PerSizeFits
  <2>2. \A l \in 1 .. tmp'.segnum :
           l \in Int /\ l - 1 \in 0 .. ThreadNum - 1 /\ tmp'.segs[l] = Partition(l - 1)
    BY <1>2, <2>1
  <2>3. \A l \in 1 .. tmp'.segnum : l # k => l - 1 # k - 1
    BY <2>2
  <2>4. \A l \in 1 .. tmp'.segnum : Partition(l - 1).threadNum # 0 /\ InFile(Partition(l - 1))
    <3> SUFFICES ASSUME NEW l \in 1 .. tmp'.segnum
                 PROVE  Partition(l - 1).threadNum # 0 /\ InFile(Partition(l - 1))
      OBVIOUS
    <3>1. Partition(l - 1).threadNum = (l - 1) + 1
      BY <2>2, PartitionInFile
    <3> QED BY <2>2, <3>1, PartitionInFile
  <2> QED BY <2>2, <2>3, <2>4, PartitionsApart
<1>3. CASE \E S \in SUBSET ActiveSlots : tmp' = Saved(S) /\ UNCHANGED seg
  <2>1. PICK S \in SUBSET ActiveSlots : tmp' = Saved(S)
    BY <1>3
  <2>2. S \in SUBSET Slot
    BY DEF ActiveSlots
  <2>3. /\ tmp'.segnum = Cardinality(S)
        /\ \A l \in 1 .. Cardinality(S) : tmp'.segs[l] = seg[Nth(S, l)]
    BY <1>t, <2>1, <2>2, SavedTrailer
  <2>4. \A l \in 1 .. Cardinality(S) :
           Nth(S, l) \in S /\ Cardinality(Below(S, Nth(S, l))) = l - 1
    BY <2>2, NthMember
  <2>5. Cardinality(S) \in Int
    BY <2>2, SlotFinite
  <2>6. \A l \in 1 .. Cardinality(S) : l # k => Nth(S, l) # Nth(S, k)
    BY <2>3, <2>4, <2>5
  <2>7. \A x \in S : x \in Slot /\ Active(x)
    BY DEF ActiveSlots
  <2>8. \A x \in S : seg[x].threadNum # 0 /\ InFile(seg[x])
    BY <2>7 DEF ApartInv, SlotsApart, Active
  <2>9. \A x, y \in S : x # y => Apart(seg[x], seg[y])
    BY <2>7 DEF ApartInv, SlotsApart
  <2> HIDE DEF Apart, InFile
  <2> QED BY <2>3, <2>4, <2>6, <2>8, <2>9
<1>4. CASE TrailerCut
  <2>1. \A l \in 1 .. tmp'.segnum : l \in 1 .. tmp.segnum /\ tmp'.segs[l] = tmp.segs[l]
    <3>1. tmp.segnum \in Int /\ tmp'.segnum \in Int
      BY <1>t, TypeStep DEF ApartInv, TypeInv, TypeOK, CacheFile
    <3> QED BY <1>4, <3>1 DEF TrailerCut
  <2> QED BY <2>1 DEF ApartInv, TrailerApart
<1> QED BY <1>t, <1>1, <1>2, <1>3, <1>4, TrailerChanges

\* Unless a save is torn, no two workers are given the same block, and none a
\* block outside the file, over any sequence of interruptions, saves and loads,
\* with stragglers, stored error pages, deletions and all other faults.  (The
\* header of one save over the segments of another gives a segment twice.)
THEOREM NoOverlap ==
    ASSUME Whole PROVE Spec => []SegmentsDisjoint
<1>1. Init => ApartInv
  <2> SUFFICES ASSUME Init PROVE ApartInv
    OBVIOUS
  <2>1. SlotsApart
    BY DEF Init, Zeroed, NoSeg, SlotsApart, Active
  <2>2. TrailerApart
    BY DEF Init, NoTmp, TrailerApart
  <2> QED BY <2>1, <2>2, TypeInit DEF ApartInv
<1>2. ApartInv /\ [Next]_vars => ApartInv'
  BY Whole, TypeStep, SlotsApartStep, TrailerApartStep DEF ApartInv
<1>3. ApartInv => SegmentsDisjoint
  BY DEF ApartInv, SlotsApart, SegmentsDisjoint, InFile, Apart, Active
<1> QED BY <1>1, <1>2, <1>3, PTL DEF Spec

-----------------------------------------------------------------------------
(***************************************************************************)
(* The engine implements FileFetch.                                        *)
(***************************************************************************)

\* The workers have nothing to do with what the queue sees.
LEMMA WorkersUnseen ==
    ASSUME Tame, IInv, NEW s \in Slot, Worker(s)
    PROVE  UNCHANGED <<local, pc, res>>
<1>1. job[s].at = "get" => job[s].fd # "local"
  BY DEF IInv, JobInv
<1>2. "errorbody" \notin Faults
  BY DEF Tame
<1> QED BY <1>1, <1>2 DEF Worker, thread_down_task, TaskFails, Answered, write_callback_multi_down,
              trans_callback_multi_down, Abort, NetworkError, Complete, Refused, SetReCode,
              files, ctl

\* What the queue sees of a step of the control thread: nothing, a begin, an
\* end, or the renaming of the cache file.
Unseen  == UNCHANGED <<local, res>> /\ (pc = "idle" <=> pc' = "idle")
Ends(r) == pc # "idle" /\ pc' = "idle" /\ res' = r /\ UNCHANGED local
Renamed ==
    /\ pc = "rename" /\ tmp.there
    /\ local' = [by |-> "download", data |-> tmp.data]
    /\ pc' = "size" /\ UNCHANGED res

LEMMA ControlSeen ==
    ASSUME Control
    PROVE  \/ Unseen
           \/ pc = "idle" /\ pc' = "try" /\ res' = "none" /\ UNCHANGED local
           \/ \E r \in {"gone", "failed", "stop"} : Ends(r)
           \/ local.by # "nobody" /\ Ends("ok")
           \/ Renamed
<1> USE DEF Unseen, Ends, Renamed, Goto, Return, files, ctl
<1>1. CASE StartTask \/ NextTry \/ GiveUp \/ pcs_chk_downfile_size \/ LocalExists
  BY <1>1 DEF StartTask, NextTry, GiveUp, pcs_chk_downfile_size, LocalExists
<1>2. CASE \/ pcs_create_tmp_down_file \/ CreateTmpFails \/ pcs_multi_down_initinfo
           \/ InitInfoFails \/ pcs_multi_initinfo_from_file \/ FromFileFails \/ FromFileUnread
  BY <1>2 DEF pcs_create_tmp_down_file, CreateTmpFails, pcs_multi_down_initinfo, InitInfoFails,
              pcs_multi_initinfo_from_file, FromFileFails, FromFileUnread
<1>3. CASE \/ pcs_multi_down_setstart \/ Interrupted \/ GoOn \/ pcs_multi_down_chk_condition
           \/ pcs_multi_down_update_mdinfo \/ NoUpdate
  BY <1>3 DEF pcs_multi_down_setstart, Interrupted, GoOn, Stop, pcs_multi_down_chk_condition,
              pcs_multi_down_update_mdinfo, NoUpdate
<1>4. CASE pcs_multi_down_chk_finish \/ TruncateFails
  BY <1>4 DEF pcs_multi_down_chk_finish, Stop, Look, TruncateFails
<1>6. CASE RenameAside \/ RenameToFinal \/ RenameFails
  BY <1>6 DEF RenameAside, RenameToFinal, RenameFails
<1>5. CASE pcs_multi_down_set_interupte \/ SaveFails \/ DropNotFound
  BY <1>5 DEF pcs_multi_down_set_interupte, SaveFails, DropNotFound, AfterStop
<1> QED BY <1>1, <1>2, <1>3, <1>4, <1>5, <1>6 DEF Control

LEMMA EnvironmentSeen ==
    ASSUME Environment
    PROVE  \/ pc' = "idle" /\ res' = "none" /\ UNCHANGED local
           \/ UNCHANGED <<local, pc, res>>
           \/ /\ local.by = "nobody" /\ UNCHANGED <<pc, res>>
              /\ local' = [local EXCEPT !.by = IF pc = "rename" THEN "late" ELSE "user"]
<1>1. CASE Crash \/ CrashInSave \/ CrashInInit
  BY <1>1 DEF Crash, CrashInSave, CrashInInit, Restart, Return, files
<1>2. CASE WebDelete \/ UserFile
  BY <1>2 DEF WebDelete, UserFile, ctl
<1> QED BY <1>1, <1>2 DEF Environment

phaseM == IF pc = "idle" THEN "off" ELSE "on"
fileM  == CASE local.by = "nobody" -> "none"
            [] local.by = "user" -> "user"
            [] local.by = "late" -> "late"
            [] OTHER -> IF local.data = Block THEN "whole" ELSE "broken"

LEMMA FetchStep ==
    Tame /\ IInv /\ [Next]_vars => Fetch!Next \/ UNCHANGED <<phaseM, res, fileM>>
<1> SUFFICES ASSUME Tame, IInv, [Next]_vars
             PROVE  Fetch!Next \/ UNCHANGED <<phaseM, res, fileM>>
  OBVIOUS
<1> USE DEF phaseM, fileM
<1>1. CASE Control
  <2>1. CASE Unseen
    BY <2>1 DEF Unseen
  <2>2. CASE pc = "idle" /\ pc' = "try" /\ res' = "none" /\ UNCHANGED local
    BY <2>2 DEF Fetch!Next, Fetch!Begin
  <2>3. ASSUME NEW r \in {"gone", "failed", "stop"}, Ends(r) PROVE Fetch!Next
    <3>1. Fetch!End(r) /\ r \in Fetch!Result
      BY <2>3 DEF Ends, Fetch!End, Fetch!Result
    <3> QED BY <3>1 DEF Fetch!Next
  <2>4. CASE local.by # "nobody" /\ Ends("ok")
    <3>1. Fetch!End("ok") /\ "ok" \in Fetch!Result
      BY <2>4 DEF Ends, Fetch!End, Fetch!Result
    <3> QED BY <3>1 DEF Fetch!Next
  <2>5. CASE Renamed
    <3>1. local'.by = "download" /\ local'.data = Block
      BY <2>5 DEF Renamed, IInv, RenameInv
    <3>2. local.by \in {"nobody", "late"}
      BY <2>5 DEF Renamed, IInv, RenameInv
    <3> QED BY <2>5, <3>1, <3>2 DEF Renamed, Fetch!Next, Fetch!Publish
  <2> QED BY <1>1, <2>1, <2>2, <2>3, <2>4, <2>5, ControlSeen
<1>2. ASSUME NEW s \in Slot, Worker(s) PROVE UNCHANGED <<phaseM, res, fileM>>
  BY <1>2, WorkersUnseen
<1>3. CASE Environment
  <2>1. CASE pc' = "idle" /\ res' = "none" /\ UNCHANGED local
    BY <2>1 DEF Fetch!Next, Fetch!Die
  <2>2. CASE UNCHANGED <<local, pc, res>>
    BY <2>2
  <2>3. CASE /\ local.by = "nobody" /\ UNCHANGED <<pc, res>>
             /\ local' = [local EXCEPT !.by = IF pc = "rename" THEN "late" ELSE "user"]
    <3>1. local'.by = IF pc = "rename" THEN "late" ELSE "user"
      BY <2>3 DEF IInv, TypeInv, TypeOK
    <3> QED BY <2>3, <3>1 DEF Fetch!Next, Fetch!Foreign
  <2> QED BY <1>3, <2>1, <2>2, <2>3, EnvironmentSeen
<1>4. CASE UNCHANGED vars
  BY <1>4 DEF vars
<1> QED BY <1>1, <1>2, <1>3, <1>4 DEF Next

\* In a tame environment the engine implements FileFetch: the file appears at
\* its final path whole, is not written again by a late worker, is there when the
\* queue is told so, and replaces no file of the user's but one that was put
\* there between access(lpath) and rename: rename replaces that one.
THEOREM EngineImplementsFetch ==
    ASSUME Tame PROVE Spec => FetchSpec
<1>1. Init => Fetch!Init
  BY DEF Init, Fetch!Init
<1>2. IInv /\ [Next]_vars
      => [Fetch!Next]_<<IF pc = "idle" THEN "off" ELSE "on", res,
                        CASE local.by = "nobody" -> "none"
                          [] local.by = "user" -> "user"
                          [] local.by = "late" -> "late"
                          [] OTHER -> IF local.data = Block THEN "whole" ELSE "broken">>
  BY Tame, FetchStep DEF phaseM, fileM
<1>3. IInv /\ [Next]_vars => IInv'
  BY Tame, IInvStep
<1> QED BY <1>1, <1>2, <1>3, IInvInit, PTL DEF Spec, FetchSpec, Fetch!Spec

=============================================================================
