--------------------------- MODULE SvrStat_proofs ----------------------------
(***************************************************************************)
(* Facts about the statistics of one node, for every configuration.        *)
(***************************************************************************)
EXTENDS SvrStat, TLAPS

\* Division by a positive number stays in the integers.
LEMMA DivInt ==
  ASSUME NEW a \in Int, NEW b \in Nat \ {0}
  PROVE  a \div b \in Int
  OBVIOUS

\* What a rebuild may leave in the limit before it is clamped.
LooseStat == [limit : Int, reqAll : Nat, rej : Nat, suc : Nat, err : Nat,
              contErr : Nat, preAll : Nat, lastErr : BOOLEAN, lastAlarm : Nat,
              avgErr : Nat, load : Nat]

\* The fields of a record and the constants, as numbers.
LEMMA Fields ==
  ASSUME NEW st \in LooseStat
  PROVE  /\ st.limit \in Int /\ st.reqAll \in Nat /\ st.rej \in Nat /\ st.suc \in Nat
         /\ st.err \in Nat /\ st.contErr \in Nat /\ st.preAll \in Nat
         /\ st.lastErr \in BOOLEAN /\ st.lastAlarm \in Nat /\ st.avgErr \in Nat
         /\ st.load \in Nat
  BY DEF LooseStat

\* A well-formed record is a loose one whose limit is not negative.
LEMMA StatIsLoose ==
  ASSUME NEW st
  PROVE  st \in Stat <=> st \in LooseStat /\ st.limit \in Nat
  BY DEF Stat, LooseStat

\* The constants as numbers.
LEMMA Positive ==
  /\ ReqMin \in Nat /\ ReqMin > 0 /\ ReqMax \in Nat /\ ReqMax > 0
  /\ RateUnit \in Nat /\ RateUnit > 0 /\ ErrMin \in Nat /\ ExtendRate \in Nat
  /\ DownErrReq \in Nat /\ DownErrReq > 0 /\ DownErrRate \in Nat
  /\ ProbeTimes \in Nat /\ ProbeTimes > 0
  BY StatAssumption

\* Counting an outcome or a call given out keeps a record well formed and
\* touches neither limit nor load (CallerNode, RouteCheck).
LEMMA CountersType ==
  ASSUME NEW st \in Stat
  PROVE  \A x \in {Succeeded(st), Failed(st), Granted(st), Refused(st),
                    [Refused(st) EXCEPT !.rej = @ + 1]} :
           x \in Stat /\ x.limit = st.limit /\ x.load = st.load
  <1> DEFINE Same(x) == x \in Stat /\ x.limit = st.limit /\ x.load = st.load
  <1>0. \A n \in Nat : n + 1 \in Nat /\ Smaller(n + 1, DownErrReq) \in Nat
    BY Positive DEF Smaller
  <1>1. Same(Succeeded(st))
    <2>1. st.suc + 1 \in Nat /\ 0 \in Nat BY StatIsLoose, Fields
    <2> QED BY <2>1, Zenon DEF Succeeded, Stat
  <1>2. Same(Failed(st))
    <2>1. st.err + 1 \in Nat /\ Smaller(st.contErr + 1, DownErrReq) \in Nat
      BY <1>0, StatIsLoose, Fields
    <2> QED BY <2>1, Zenon DEF Failed, Stat
  <1>3. Same(Granted(st))
    <2>1. st.reqAll + 1 \in Nat /\ st.preAll + 1 \in Nat BY StatIsLoose, Fields
    <2> QED BY <2>1, Zenon DEF Granted, Stat
  <1>4. Same(Refused(st))
    BY DEF Refused, Stat
  <1>5. Same([Refused(st) EXCEPT !.rej = @ + 1])
    BY <1>4 DEF Stat
  <1> QED BY <1>1, <1>2, <1>3, <1>4, <1>5

\* A node that comes back has the probe limit and the load and error rate it
\* is given (RebuildErrRoute).
LEMMA RecoveredType ==
  ASSUME NEW st \in Stat, NEW load \in Nat, NEW avg \in Nat
  PROVE  /\ Recovered(st, load, avg) \in Stat
         /\ Recovered(st, load, avg).load = load
  BY Positive, Zenon DEF Recovered, Stat

\* Settling the counts and clearing the average error rate leave the limit
\* (the head of ReqRebuild).
LEMMA SettledType ==
  ASSUME NEW st \in Stat
  PROVE  /\ Settled(st) \in Stat /\ Calmed(Settled(st)) \in Stat
         /\ Settled(st).limit = st.limit /\ Calmed(Settled(st)).limit = st.limit
         /\ Calmed(Settled(st)).reqAll = Settled(st).reqAll
  <1>1. Settled(st) \in Stat /\ Settled(st).limit = st.limit
    <2>1. Larger(st.reqAll, st.err + st.suc) \in Nat BY StatIsLoose, Fields DEF Larger
    <2> QED BY <2>1 DEF Settled, Stat
  <1>2. \A x \in Stat : Calmed(x) \in Stat /\ Calmed(x).limit = x.limit
                        /\ Calmed(x).reqAll = x.reqAll
    BY DEF Calmed, Stat
  <1> QED BY <1>1, <1>2

\* The limit never shrinks while a node extends, whatever it is compared with.
LEMMA ExpandedType ==
  ASSUME NEW st \in Stat, NEW limit \in Nat, NEW d \in Nat \ {0}
  PROVE  /\ Expanded(st, limit, d) \in LooseStat
         /\ Expanded(st, limit, d).limit >= limit
  <1> DEFINE ext  == (st.reqAll * ExtendRate) \div RateUnit
             dest == st.reqAll + ext
             over == st.lastErr /\ st.suc <= st.lastAlarm
             add  == GetAddCount(st, limit, over, d)
             lim  == IF limit < dest THEN Smaller(dest, limit + add) ELSE limit
             alarm == IF over THEN st.lastAlarm ELSE 0
  <1>0. /\ st.reqAll \in Nat /\ st.suc \in Nat /\ st.lastAlarm \in Nat
        /\ st.lastErr \in BOOLEAN
    BY StatIsLoose, Fields
  <1>1. ext \in Int
    <2>1. st.reqAll * ExtendRate \in Int BY <1>0, Positive
    <2> QED BY <2>1, Positive, DivInt
  <1>2. add \in Int /\ add >= 0
    <2>1. (st.lastAlarm - st.reqAll) * ExtendRate \in Int BY <1>0, Positive
    <2>2. limit * ExtendRate \in Int BY <1>0, Positive
    <2>3. RateUnit * d \in Nat \ {0} BY <1>0, Positive
    <2>4. ((st.lastAlarm - st.reqAll) * ExtendRate) \div RateUnit \in Int
      BY <2>1, Positive, DivInt
    <2>5. (limit * ExtendRate) \div (RateUnit * d) \in Int
      BY <2>2, <2>3, DivInt
    <2> QED BY <2>4, <2>5, Positive DEF GetAddCount, Larger
  <1>3. lim \in Int /\ lim >= limit
    <2> HIDE DEF ext, add
    <2> QED BY <1>0, <1>1, <1>2 DEF Smaller
  <1>4. over \in BOOLEAN /\ alarm \in Nat
    BY <1>0
  <1>5. Expanded(st, limit, d) = [st EXCEPT !.lastErr = over, !.lastAlarm = alarm, !.limit = lim]
    BY Zenon DEF Expanded
  <1> HIDE DEF over, alarm, lim
  <1>6. [st EXCEPT !.lastErr = over, !.lastAlarm = alarm, !.limit = lim] \in LooseStat
    <2>1. st \in LooseStat BY StatIsLoose
    <2> QED BY <1>3, <1>4, <2>1, Zenon DEF LooseStat
  <1>7. [st EXCEPT !.lastErr = over, !.lastAlarm = alarm, !.limit = lim].limit = lim
    BY Zenon DEF Stat
  <1> QED BY <1>3, <1>5, <1>6, <1>7

\* Shrinking leaves an integer, which only the clamp makes positive.
LEMMA ShrunkType ==
  ASSUME NEW st \in Stat, NEW limit \in Nat, st.reqAll > 0
  PROVE  Shrunk(st, limit) \in LooseStat
  <1> DEFINE eff   == EffErr(st)
             lim   == IF st.reqAll > limit
                      THEN limit - (limit * eff) \div (RateUnit * st.reqAll)
                      ELSE st.reqAll - eff \div RateUnit
             alarm == IF st.reqAll > ReqMin THEN st.reqAll ELSE 0
             over  == st.reqAll > ReqMin
  <1>0. st.reqAll \in Nat /\ st.err \in Nat /\ st.avgErr \in Nat
    BY StatIsLoose, Fields
  <1>1. eff \in Int
    BY <1>0, Positive DEF EffErr, RawErr
  <1>2. lim \in Int
    <2> HIDE DEF eff
    <2>1. limit * eff \in Int /\ RateUnit * st.reqAll \in Nat \ {0}
      BY <1>0, <1>1, Positive
    <2>2. (limit * eff) \div (RateUnit * st.reqAll) \in Int /\ eff \div RateUnit \in Int
      BY <1>1, <2>1, Positive, DivInt
    <2> QED BY <1>0, <2>2
  <1>3. over \in BOOLEAN /\ alarm \in Nat
    BY <1>0
  <1>4. Shrunk(st, limit) = [st EXCEPT !.lastErr = over, !.lastAlarm = alarm, !.limit = lim]
    BY Zenon DEF Shrunk
  <1> HIDE DEF over, alarm, lim
  <1>5. [st EXCEPT !.lastErr = over, !.lastAlarm = alarm, !.limit = lim] \in LooseStat
    <2>1. st \in LooseStat BY StatIsLoose
    <2> QED BY <1>2, <1>3, <2>1, Zenon DEF LooseStat
  <1> QED BY <1>4, <1>5

\* A suspect is cut to ReqMin + 1 and no lower; the limit that is stored lies
\* between ReqMin and ReqMax, or is ReqMin when ReqMax is not above it.
LEMMA SuspectedType ==
  ASSUME NEW st \in LooseStat, NEW errRate
  PROVE  /\ Suspected(st, errRate) \in LooseStat
         /\ st.limit > ReqMin => Suspected(st, errRate).limit > ReqMin
  <1>1. ReqMin + 1 \in Int BY Positive
  <1>2. [st EXCEPT !.limit = ReqMin + 1] \in LooseStat
    BY <1>1, Zenon DEF LooseStat
  <1>3. [st EXCEPT !.limit = ReqMin + 1].limit = ReqMin + 1
    BY Zenon DEF LooseStat
  <1> QED BY <1>2, <1>3, Positive DEF Suspected

\* The limit that is stored is at least ReqMin; a limit above ReqMin stays
\* above it when ReqMax is (the last lines of ReqRebuild).
LEMMA ClampedType ==
  ASSUME NEW st \in LooseStat
  PROVE  /\ Clamped(st) \in Stat
         /\ Clamped(st).limit >= ReqMin
         /\ ReqMin < ReqMax /\ st.limit > ReqMin => Clamped(st).limit > ReqMin
  <1> DEFINE lim == Larger(ReqMin, Smaller(st.limit, ReqMax))
  <1>1. /\ lim \in Nat /\ lim >= ReqMin
        /\ ReqMin < ReqMax /\ st.limit > ReqMin => lim > ReqMin
    BY Fields, Positive DEF Larger, Smaller
  <1>2. Clamped(st) = [st EXCEPT !.limit = lim]
    BY Zenon DEF Clamped
  <1> HIDE DEF lim
  <1>3. [st EXCEPT !.limit = lim] \in Stat /\ [st EXCEPT !.limit = lim].limit = lim
    BY <1>1, Zenon DEF Stat, LooseStat
  <1> QED BY <1>1, <1>2, <1>3

\* Zeroing a period's counters keeps the record well formed and its limit.
LEMMA ResetType ==
  ASSUME NEW st \in Stat
  PROVE  Reset(st) \in Stat /\ Reset(st).limit = st.limit /\ Reset(st).rej = 0
  <1>1. 0 \in Nat OBVIOUS
  <1> QED BY <1>1, Zenon DEF Reset, Stat

\* A limit never set is opened above ReqMin, where a node may be selected.
LEMMA OpenLimitType ==
  ASSUME NEW st \in Stat
  PROVE  /\ OpenLimit(st) \in Nat
         /\ Selectable(st) => OpenLimit(st) > ReqMin
  BY StatIsLoose, Fields, Positive DEF OpenLimit, Selectable

\* An average error rate is only cleared where the error rate is within
\* ErrMin without it, so clearing it does not change the verdict.
LEMMA CalmedVerdict ==
  ASSUME NEW st \in Stat
  PROVE  WithinErrMin(st) <=> WithinErrMin(Calmed(st))
  <1>0. st.reqAll \in Nat /\ st.err \in Nat /\ st.avgErr \in Nat
    BY StatIsLoose, Fields
  <1>1. CASE RawErr(st) <= ErrMin * st.reqAll
    <2>1. Calmed(st).err = st.err /\ Calmed(st).reqAll = st.reqAll /\ Calmed(st).avgErr = 0
      BY <1>1, Zenon DEF Calmed, Stat
    <2>2. RawErr(Calmed(st)) = RawErr(st)
      BY <2>1, Zenon DEF RawErr
    <2>3. /\ ErrMin * st.reqAll \in Nat /\ st.avgErr * st.reqAll \in Nat
          /\ (ErrMin + st.avgErr) * st.reqAll = ErrMin * st.reqAll + st.avgErr * st.reqAll
          /\ (ErrMin + 0) * st.reqAll = ErrMin * st.reqAll
          /\ RawErr(st) \in Int
      BY <1>0, Positive DEF RawErr
    <2> QED BY <1>1, <2>1, <2>2, <2>3 DEF WithinErrMin
  <1>2. CASE ~(RawErr(st) <= ErrMin * st.reqAll)
    <2>1. Calmed(st) = st BY <1>2, Zenon DEF Calmed
    <2> QED BY <2>1, Zenon
  <1> QED BY <1>1, <1>2

\* The end of a period (ReqRebuild): a node with no traffic keeps its limit,
\* any other gets one of at least ReqMin, and one that may be selected and
\* whose error rate is within bounds may be selected again.
LEMMA ReqRebuildType ==
  ASSUME NEW stat \in Stat, NEW d \in Nat \ {0}
  PROVE  /\ ReqRebuild(stat, d) \in Stat
         /\ ReqRebuild(stat, d).rej = 0
         /\ /\ ReqMin < ReqMax
            /\ Selectable(stat)
            /\ WithinErrMin(Settled(stat))
            => Selectable(ReqRebuild(stat, d))
  <1> DEFINE st    == Calmed(Settled(stat))
             limit == OpenLimit(st)
             up    == Expanded(st, limit, d)
             low   == Shrunk(st, limit)
             sup   == Suspected(up, RawErr(st))
             slow  == Suspected(low, EffErr(st))
  <1>1. st \in Stat /\ st.limit = stat.limit /\ st.reqAll \in Nat
    BY SettledType, StatIsLoose, Fields
  <1>2. Selectable(stat) => Selectable(st)
    BY <1>1 DEF Selectable
  <1>3. WithinErrMin(Settled(stat)) <=> WithinErrMin(st)
    BY SettledType, CalmedVerdict
  <1>4. ReqRebuild(stat, d) =
          IF st.reqAll = 0 THEN Reset(stat)
          ELSE IF WithinErrMin(st) THEN Reset(Clamped(sup)) ELSE Reset(Clamped(slow))
    BY Zenon DEF ReqRebuild
  <1> HIDE DEF st
  <1>5. limit \in Nat /\ (Selectable(st) => limit > ReqMin)
    BY <1>1, OpenLimitType
  <1> HIDE DEF limit
  <1>6. CASE st.reqAll = 0
    <2>1. ReqRebuild(stat, d) = Reset(stat) BY <1>4, <1>6, Zenon
    <2> QED BY <2>1, ResetType DEF Selectable
  <1>7. CASE st.reqAll # 0 /\ WithinErrMin(st)
    <2>1. ReqRebuild(stat, d) = Reset(Clamped(sup)) BY <1>4, <1>7, Zenon
    <2>2. up \in LooseStat /\ up.limit >= limit /\ up.limit \in Int
      BY <1>1, <1>5, ExpandedType, Fields
    <2> HIDE DEF up
    <2>3. sup \in LooseStat /\ (up.limit > ReqMin => sup.limit > ReqMin)
      BY <2>2, SuspectedType
    <2> HIDE DEF sup
    <2>4. /\ Clamped(sup) \in Stat
          /\ ReqMin < ReqMax /\ sup.limit > ReqMin => Clamped(sup).limit > ReqMin
      BY <2>3, ClampedType
    <2>5. Selectable(st) => up.limit > ReqMin
      BY <1>5, <2>2, Positive
    <2> QED BY <1>2, <2>1, <2>3, <2>4, <2>5, ResetType DEF Selectable
  <1>8. CASE st.reqAll # 0 /\ ~WithinErrMin(st)
    <2>1. ReqRebuild(stat, d) = Reset(Clamped(slow)) BY <1>4, <1>8, Zenon
    <2>2. low \in LooseStat BY <1>1, <1>5, <1>8, ShrunkType
    <2> HIDE DEF low
    <2>3. slow \in LooseStat BY <2>2, SuspectedType
    <2> HIDE DEF slow
    <2>4. Clamped(slow) \in Stat BY <2>3, ClampedType
    <2> QED BY <1>3, <1>8, <2>1, <2>4, ResetType
  <1> QED BY <1>6, <1>7, <1>8
==============================================================================
