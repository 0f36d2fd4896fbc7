------------------------ MODULE OrchestrationProofs ------------------------
(***************************************************************************)
(* For every policy and any number of tasks, agents, keys and children:    *)
(* what the orchestration service promises.                                *)
(*                                                                         *)
(* None of the properties is inductive.  That no update is lost rests on   *)
(* SeenIsPast: a mapping keeps its version as long as it is not changed,   *)
(* so the version an agent passes back names the one mapping it has read.  *)
(* A pending split must not outlive what it was decided on (SplitIsValid)  *)
(* and the child files are those of splits that succeeded, those that were *)
(* left behind and, apart from both, its own (FilesHaveOwners).            *)
(***************************************************************************)
EXTENDS Orchestration, TLAPS, NaturalsInduction, WellFoundedInduction

-----------------------------------------------------------------------------
(* The run history. *)

\* One step of DroppedKeys.
Remember(keys, k) == IF k = NoKey \/ Contains(keys, k) THEN keys ELSE Append(keys, k)

OptKeys == Keys \cup {NoKey}

LEMMA DroppedKeysUnfolds ==
  ASSUME NEW h
  PROVE  /\ DroppedKeys(h, 1) = Remember(h.dropped, h.events[1].key)
         /\ DroppedKeys(h, 2) = Remember(Remember(h.dropped, h.events[1].key), h.events[2].key)
<1>. DEFINE s0 == h.dropped
            s1 == Remember(s0, h.events[1].key)
            s2 == Remember(s1, h.events[2].key)
            R(f, n) == [i \in 0..n |-> IF i = 0 THEN h.dropped
                         ELSE IF h.events[i].key = NoKey \/ Contains(f[i - 1], h.events[i].key)
                              THEN f[i - 1] ELSE Append(f[i - 1], h.events[i].key)]
            F(n) == CHOOSE f : f = R(f, n)
            g1 == [i \in 0..1 |-> IF i = 0 THEN s0 ELSE s1]
            g2 == [i \in 0..2 |-> IF i = 0 THEN s0 ELSE IF i = 1 THEN s1 ELSE s2]
<1>1. g1 = R(g1, 1)
  <2>1. \A i \in 0..1 : g1[i] = R(g1, 1)[i]
    <3>1. g1[0] = s0 /\ g1[1] = s1
      OBVIOUS
    <3>2. 0..1 = {0, 1} /\ 1 - 1 = 0
      OBVIOUS
    <3>. QED
      BY <3>1, <3>2 DEF Remember
  <2>. QED
    BY <2>1
<1>2. g2 = R(g2, 2)
  <2>1. \A i \in 0..2 : g2[i] = R(g2, 2)[i]
    <3>1. g2[0] = s0 /\ g2[1] = s1 /\ g2[2] = s2
      OBVIOUS
    <3>2. 0..2 = {0, 1, 2} /\ 1 - 1 = 0 /\ 2 - 1 = 1
      OBVIOUS
    <3>. QED
      BY <3>1, <3>2 DEF Remember
  <2>. QED
    BY <2>1
<1>3. F(1) = R(F(1), 1) /\ F(2) = R(F(2), 2)
  <2>. HIDE DEF R
  <2>. QED
    BY <1>1, <1>2
<1>4. DroppedKeys(h, 1) = F(1)[1] /\ DroppedKeys(h, 2) = F(2)[2]
  BY DEF DroppedKeys
<1>5. /\ F(1)[0] = s0 /\ F(1)[1] = Remember(F(1)[0], h.events[1].key)
  <2>. HIDE DEF F
  <2>1. /\ R(F(1), 1)[0] = s0
        /\ R(F(1), 1)[1] = Remember(F(1)[0], h.events[1].key)
    BY DEF Remember
  <2>. HIDE DEF R
  <2>. QED
    BY <1>3, <2>1
<1>6. /\ F(2)[0] = s0 /\ F(2)[1] = Remember(F(2)[0], h.events[1].key)
      /\ F(2)[2] = Remember(F(2)[1], h.events[2].key)
  <2>. HIDE DEF F
  <2>1. /\ R(F(2), 2)[0] = s0
        /\ R(F(2), 2)[1] = Remember(F(2)[0], h.events[1].key)
        /\ R(F(2), 2)[2] = Remember(F(2)[1], h.events[2].key)
    BY DEF Remember
  <2>. HIDE DEF R
  <2>. QED
    BY <1>3, <2>1
<1>. HIDE DEF F
<1>. QED
  BY <1>4, <1>5, <1>6

LEMMA RememberIsUnique ==
  ASSUME NEW s \in Seq(Keys), NEW k \in OptKeys
  PROVE  /\ Remember(s, k) \in Seq(Keys)
         /\ IsInjective(s) => IsInjective(Remember(s, k))
         /\ \A x : Contains(Remember(s, k), x) => Contains(s, x) \/ (x = k /\ k # NoKey)
<1>1. CASE k = NoKey \/ Contains(s, k)
  <2>1. Remember(s, k) = s
    BY <1>1 DEF Remember
  <2>. QED
    BY <2>1
<1>2. CASE ~(k = NoKey \/ Contains(s, k))
  <2>1. Remember(s, k) = Append(s, k) /\ k \in Keys
    BY <1>2 DEF Remember, OptKeys
  <2>2. /\ Append(s, k) \in Seq(Keys) /\ Len(Append(s, k)) = Len(s) + 1
        /\ \A i \in 1..Len(s) : Append(s, k)[i] = s[i]
        /\ Append(s, k)[Len(s) + 1] = k
    BY <2>1
  <2>3. \A x : Contains(Append(s, k), x) => Contains(s, x) \/ x = k
    BY <2>2 DEF Contains
  <2>4. ASSUME IsInjective(s), NEW i \in 1..Len(s) + 1, NEW j \in 1..Len(s) + 1,
               Append(s, k)[i] = Append(s, k)[j]
        PROVE  i = j
    BY <1>2, <2>2, <2>4 DEF IsInjective, Contains
  <2>. QED
    BY <1>2, <2>1, <2>2, <2>3, <2>4 DEF IsInjective
<1>. QED
  BY <1>1, <1>2

LEMMA BoundedIsUnique ==
  ASSUME NEW s \in Seq(Keys)
  PROVE  /\ Bounded(s) \in Seq(Keys)
         /\ IsInjective(s) => IsInjective(Bounded(s))
         /\ \A x : Contains(Bounded(s), x) => Contains(s, x)
<1>1. CASE Len(s) <= MaxDroppedKeys
  <2>1. Bounded(s) = s
    BY <1>1 DEF Bounded
  <2>. QED
    BY <2>1
<1>2. CASE ~(Len(s) <= MaxDroppedKeys)
  <2>. DEFINE d == Len(s) - MaxDroppedKeys
              b == SubSeq(s, d + 1, Len(s))
  <2>1. d \in Nat /\ d < Len(s) /\ d + MaxDroppedKeys = Len(s)
    BY <1>2, DroppedAssumption
  <2>2. /\ b \in Seq(Keys) /\ Len(b) = MaxDroppedKeys
        /\ \A i \in 1..MaxDroppedKeys : i + d \in 1..Len(s) /\ b[i] = s[i + d]
    BY <2>1, DroppedAssumption
  <2>3. Bounded(s) = b
    BY <1>2 DEF Bounded
  <2>4. \A x : Contains(b, x) => Contains(s, x)
    BY <2>2 DEF Contains
  <2>5. ASSUME IsInjective(s), NEW i \in 1..MaxDroppedKeys, NEW j \in 1..MaxDroppedKeys,
               b[i] = b[j]
        PROVE  i = j
    <3>1. i + d \in 1..Len(s) /\ j + d \in 1..Len(s) /\ s[i + d] = s[j + d]
      BY <2>2, <2>5
    <3>2. i + d = j + d
      BY <2>5, <3>1 DEF IsInjective
    <3>. QED
      BY <2>1, <3>2
  <2>6. IsInjective(s) => IsInjective(b)
    <3>1. DOMAIN b = 1..MaxDroppedKeys
      BY <2>2, DroppedAssumption
    <3>. QED
      BY <2>5, <3>1 DEF IsInjective
  <2>. HIDE DEF b
  <2>. QED
    BY <2>2, <2>3, <2>4, <2>6
<1>. QED
  BY <1>1, <1>2

\* The keys that the file still knows about were used once each.
Unique(h) ==
  /\ IsInjective(h.dropped)
  /\ \A i, j \in DOMAIN h.events :
       h.events[i].key # NoKey /\ h.events[i].key = h.events[j].key => i = j
  /\ \A i \in DOMAIN h.events : ~Contains(h.dropped, h.events[i].key)

LEMMA SizeIs ==
  ASSUME NEW h \in History
  PROVE  /\ h.marked => Size(h) = Len(h.events) + 1
         /\ ~h.marked => Size(h) = Len(h.events)
<1>1. Len(h.events) \in Nat
  BY DEF History
<1>. QED
  <2>1. /\ h.marked => Size(h) = Len(h.events) + 1
        /\ ~h.marked => Size(h) = Len(h.events) + 0
    BY Zenon DEF Size
  <2>. QED
    BY <1>1, <2>1

LEMMA HistoryTypes ==
  ASSUME NEW h \in History
  PROVE  /\ h.marked \in BOOLEAN /\ h.events \in Seq(Event) /\ h.dropped \in Seq(Keys)
         /\ Len(h.events) \in Nat /\ DOMAIN h.events = 1..Len(h.events)
         /\ \A i \in 1..Len(h.events) : h.events[i] \in Event /\ h.events[i].key \in OptKeys
<1>1. h.marked \in BOOLEAN /\ h.events \in Seq(Event) /\ h.dropped \in Seq(Keys)
  BY DEF History
<1>2. \A e \in Event : e.key \in OptKeys
  BY DEF Event, OptKeys
<1>. QED
  BY <1>1, <1>2

\* Past the cap one entry goes, the first time two.
LEMMA DropIsSmall ==
  ASSUME NEW h \in History, Size(h) <= MaxEntries, ~(Size(h) + 1 <= MaxEntries)
  PROVE  LET n == Len(h.events)
             d == Max({n + 2 - MaxEntries, 1})
         IN  d \in {1, 2} /\ d <= n /\ n - d + 2 <= MaxEntries
<1>. DEFINE n == Len(h.events)
            d == Max({n + 2 - MaxEntries, 1})
<1>1. n \in Nat /\ h.marked \in BOOLEAN
  BY HistoryTypes
<1>2. \/ h.marked /\ n + 1 = MaxEntries
      \/ ~h.marked /\ n = MaxEntries
  BY <1>1, SizeIs, EntriesAssumption
<1>3. n + 2 - MaxEntries \in {1, 2}
  BY <1>1, <1>2, EntriesAssumption
<1>4. d = n + 2 - MaxEntries
  BY <1>3 DEF Max
<1>. QED
  BY <1>1, <1>2, <1>3, <1>4, EntriesAssumption

\* What AppendEntry does: the newest entries stay, in order; a key on the marker
\* was there before or went with an entry just dropped.
Appended(h, e, g, d) ==
  /\ d <= Len(h.events)
  /\ Len(g.events) = Len(h.events) - d + 1
  /\ \A i \in 1..Len(h.events) - d : g.events[i] = h.events[i + d]
  /\ g.events[Len(g.events)] = e
  /\ \A x : Contains(g.dropped, x) =>
       Contains(h.dropped, x) \/ (x # NoKey /\ \E i \in 1..d : h.events[i].key = x)
  /\ IsInjective(h.dropped) => IsInjective(g.dropped)

LEMMA AppendEntryWorks ==
  ASSUME NEW h \in History, Size(h) <= MaxEntries, NEW e \in Event
  PROVE  /\ AppendEntry(h, e) \in History
         /\ Size(AppendEntry(h, e)) <= MaxEntries
         /\ \E d \in 0..2 : Appended(h, e, AppendEntry(h, e), d)
<1>. DEFINE n == Len(h.events)
            g == AppendEntry(h, e)
<1>1. /\ n \in Nat /\ h.marked \in BOOLEAN /\ h.events \in Seq(Event)
      /\ h.dropped \in Seq(Keys) /\ \A i \in 1..n : h.events[i].key \in OptKeys
  BY HistoryTypes
<1>2. CASE Size(h) + 1 <= MaxEntries
  <2>1. g = [h EXCEPT !.events = Append(@, e)]
    BY <1>2 DEF AppendEntry
  <2>2. /\ g \in History /\ g.marked = h.marked /\ g.dropped = h.dropped
        /\ g.events = Append(h.events, e)
    <3>1. Append(h.events, e) \in Seq(Event)
      BY <1>1
    <3>. QED
      BY <2>1, <3>1 DEF History
  <2>3. /\ Len(g.events) = n + 1 /\ g.events[n + 1] = e
        /\ \A i \in 1..n : g.events[i] = h.events[i]
    BY <1>1, <2>2
  <2>4. Size(g) <= MaxEntries
    <3>1. Size(g) = Size(h) + 1
      BY <1>1, <2>2, <2>3, SizeIs
    <3>. QED
      BY <1>2, <3>1
  <2>. HIDE DEF g
  <2>5. Appended(h, e, g, 0)
    BY <1>1, <2>2, <2>3 DEF Appended, Contains
  <2>. QED
    BY <2>2, <2>4, <2>5 DEF g
<1>3. CASE ~(Size(h) + 1 <= MaxEntries)
  <2>. DEFINE d == Max({n + 2 - MaxEntries, 1})
              rest == SubSeq(h.events, d + 1, n)
              keys == DroppedKeys(h, d)
  <2>1. d \in {1, 2} /\ d <= n /\ n - d + 2 <= MaxEntries
    BY <1>3, DropIsSmall
  <2>2. g = [marked |-> TRUE, dropped |-> Bounded(keys), events |-> Append(rest, e)]
    BY <1>3 DEF AppendEntry
  <2>. HIDE DEF d
  <2>3. /\ rest \in Seq(Event) /\ Len(rest) = n - d
        /\ \A i \in 1..n - d : rest[i] = h.events[i + d]
    BY <1>1, <2>1
  <2>4. /\ keys \in Seq(Keys)
        /\ IsInjective(h.dropped) => IsInjective(keys)
        /\ \A x : Contains(keys, x) =>
             Contains(h.dropped, x) \/ (x # NoKey /\ \E i \in 1..d : h.events[i].key = x)
    <3>. DEFINE k1 == h.events[1].key
                k2 == h.events[2].key
                s1 == Remember(h.dropped, k1)
    <3>1. k1 \in OptKeys /\ s1 \in Seq(Keys)
      BY <1>1, <2>1, RememberIsUnique
    <3>2. CASE d = 1
      <4>1. keys = s1
        BY <3>2, DroppedKeysUnfolds
      <4>. QED
        <5>1. /\ IsInjective(h.dropped) => IsInjective(keys)
              /\ \A x : Contains(keys, x) => Contains(h.dropped, x) \/ (x = k1 /\ k1 # NoKey)
          BY <1>1, <3>1, <4>1, RememberIsUnique
        <5>2. 1 \in 1..d
          BY <3>2
        <5>. QED
          BY <3>1, <4>1, <5>1, <5>2
    <3>3. CASE d = 2
      <4>1. keys = Remember(s1, k2) /\ k2 \in OptKeys
        BY <1>1, <2>1, <3>3, DroppedKeysUnfolds
      <4>2. /\ IsInjective(h.dropped) => IsInjective(s1)
            /\ \A x : Contains(s1, x) => Contains(h.dropped, x) \/ (x = k1 /\ k1 # NoKey)
        BY <1>1, <3>1, RememberIsUnique
      <4>3. /\ keys \in Seq(Keys)
            /\ IsInjective(s1) => IsInjective(keys)
            /\ \A x : Contains(keys, x) => Contains(s1, x) \/ (x = k2 /\ k2 # NoKey)
        <5>. HIDE DEF s1, keys
        <5>. QED
          BY <3>1, <4>1, RememberIsUnique
      <4>4. 1 \in 1..d /\ 2 \in 1..d
        BY <3>3
      <4>. QED
        BY <4>2, <4>3, <4>4
    <3>. QED
      BY <2>1, <3>2, <3>3
  <2>. HIDE DEF rest, keys
  <2>5. /\ Bounded(keys) \in Seq(Keys)
        /\ IsInjective(keys) => IsInjective(Bounded(keys))
        /\ \A x : Contains(Bounded(keys), x) => Contains(keys, x)
    BY <2>4, BoundedIsUnique
  <2>6. /\ g \in History /\ g.marked = TRUE /\ g.dropped = Bounded(keys)
        /\ g.events = Append(rest, e)
    BY <2>2, <2>3, <2>5 DEF History
  <2>7. /\ Len(g.events) = n - d + 1 /\ g.events[n - d + 1] = e
        /\ \A i \in 1..n - d : g.events[i] = rest[i]
    BY <2>1, <2>3, <2>6
  <2>8. Size(g) <= MaxEntries
    <3>1. Size(g) = Len(g.events) + 1
      BY <2>6, SizeIs
    <3>. HIDE DEF n, g
    <3>. QED
      BY <1>1, <2>1, <2>7, <3>1
  <2>. HIDE DEF g
  <2>9. Appended(h, e, g, d)
    BY <1>1, <2>1, <2>3, <2>4, <2>5, <2>6, <2>7 DEF Appended
  <2>. QED
    BY <2>1, <2>6, <2>8, <2>9 DEF g
<1>. QED
  BY <1>2, <1>3

LEMMA MatchNew ==
  ASSUME NEW h, NEW e
  PROVE  Match(h, e) = "new" <=> (e.key # NoKey => ~Knows(h, e.key))
<1>. DEFINE used == {i \in DOMAIN h.events : h.events[i].key = e.key}
<1>1. used # {} <=> \E i \in DOMAIN h.events : h.events[i].key = e.key
  OBVIOUS
<1>. QED
  BY <1>1 DEF Match, Knows, Contains

LEMMA AppendIsUnique ==
  ASSUME NEW h \in History, Size(h) <= MaxEntries, NEW e \in Event,
         Unique(h), Match(h, e) = "new"
  PROVE  Unique(AppendEntry(h, e))
<1>. DEFINE n == Len(h.events)
            g == AppendEntry(h, e)
<1>1. /\ n \in Nat /\ DOMAIN h.events = 1..n
      /\ g \in History /\ \E d \in 0..2 : Appended(h, e, g, d)
  BY AppendEntryWorks DEF History
<1>. HIDE DEF g
<1>2. PICK d \in 0..2 : Appended(h, e, g, d)
  BY <1>1
<1>3. /\ DOMAIN g.events = 1..n - d + 1 /\ Len(g.events) = n - d + 1 /\ d <= n
  BY <1>1, <1>2 DEF Appended, History
<1>4. e.key # NoKey => /\ ~Contains(h.dropped, e.key)
                       /\ \A i \in 1..n : h.events[i].key # e.key
  BY <1>1, MatchNew DEF Knows
<1>5. \A i \in 1..n - d : i + d \in 1..n /\ g.events[i] = h.events[i + d]
  <2>1. \A i \in 1..n - d : g.events[i] = h.events[i + d]
    BY <1>2 DEF Appended
  <2>. HIDE DEF n
  <2>2. \A i \in 1..n - d : i + d \in 1..n
    BY <1>1
  <2>. QED
    BY <2>1, <2>2
<1>6. \A i \in 1..n - d + 1 :
        \/ i = n - d + 1 /\ g.events[i] = e
        \/ i \in 1..n - d /\ i + d \in 1..n /\ g.events[i] = h.events[i + d]
  <2>1. g.events[n - d + 1] = e
    BY <1>2, <1>3 DEF Appended
  <2>. HIDE DEF n
  <2>2. \A i \in 1..n - d + 1 : i = n - d + 1 \/ i \in 1..n - d
    BY <1>1, <1>3
  <2>. QED
    BY <1>5, <2>1, <2>2
<1>7. IsInjective(g.dropped)
  BY <1>2 DEF Appended, Unique
<1>8. ASSUME NEW i \in DOMAIN g.events, NEW j \in DOMAIN g.events,
             g.events[i].key # NoKey, g.events[i].key = g.events[j].key
      PROVE  i = j
  <2>1. CASE i \in 1..n - d /\ j \in 1..n - d
    <3>1. i + d = j + d
      BY <1>1, <1>5, <1>8, <2>1 DEF Unique
    <3>. QED
      BY <1>1, <2>1, <3>1
  <2>. QED
    BY <1>1, <1>3, <1>4, <1>6, <1>8, <2>1
<1>9. ASSUME NEW i \in DOMAIN g.events, Contains(g.dropped, g.events[i].key)
      PROVE  FALSE
  <2>. DEFINE k == g.events[i].key
  <2>1. \/ Contains(h.dropped, k)
        \/ k # NoKey /\ \E j \in 1..d : h.events[j].key = k
    BY <1>2, <1>9 DEF Appended
  <2>2. CASE i \in 1..n - d
    <3>1. i + d \in 1..n /\ k = h.events[i + d].key
      BY <1>5, <2>2
    <3>2. ~Contains(h.dropped, k)
      BY <1>1, <3>1 DEF Unique
    <3>3. PICK j \in 1..d : k # NoKey /\ h.events[j].key = k
      BY <2>1, <3>2
    <3>4. j \in 1..n /\ j # i + d
      BY <1>1, <1>3, <2>2
    <3>. QED
      BY <1>1, <3>1, <3>3, <3>4 DEF Unique
  <2>3. CASE g.events[i] = e
    <3>1. e.key # NoKey
      BY <2>1, <2>3, <1>1, NoneAssumption DEF History, Contains
    <3>. QED
      BY <1>1, <1>3, <1>4, <2>1, <2>3, <3>1
  <2>. QED
    BY <1>3, <1>6, <2>2, <2>3
<1>. QED
  BY <1>7, <1>8, <1>9 DEF Unique, g

-----------------------------------------------------------------------------
(* The policy. *)

LEMMA MinIsMember ==
  ASSUME NEW S, S \subseteq Nat, S # {}
  PROVE  Min(S) \in S
<1>1. PICK m \in S : \A x \in S : ~(<<x, m>> \in OpToRel(<, Nat))
  BY WFMin, NatLessThanWellFounded
<1>2. \A x \in S : ~(x < m)
  BY <1>1 DEF OpToRel
<1>3. \A x \in S : m <= x
  BY <1>2
<1>. QED
  BY <1>1, <1>3 DEF Min

LEMMA WorkingTargetIsNext ==
  ASSUME NEW s \in Statuses, WorkingTargets(s) # {}
  PROVE  FirstWorkingTarget(s) \in Statuses /\ CanTransition(s, FirstWorkingTarget(s))
<1>1. Transitions[s] \in Seq(Statuses)
  BY PolicyAssumption
<1>2. WorkingTargets(s) \subseteq 1..Len(Transitions[s]) /\ WorkingTargets(s) \subseteq Nat
  BY <1>1 DEF WorkingTargets
<1>3. Min(WorkingTargets(s)) \in 1..Len(Transitions[s])
  BY <1>2, MinIsMember
<1>. QED
  BY <1>1, <1>3 DEF FirstWorkingTarget, CanTransition, Contains

LEMMA ClaimTargetIsStatus ==
  ASSUME NEW s \in Statuses
  PROVE  ClaimTarget(s) \in Statuses
  BY WorkingTargetIsNext, PolicyAssumption DEF ClaimTarget

-----------------------------------------------------------------------------
(* The inductive invariant. *)

\* What an agent has read is a past mapping: with the same version, the mapping
\* is still the one it read.
SeenIsPast ==
  \A a \in Actors, t \in Tasks : seen[a].task = t =>
    /\ seen[a].state.version <= orch[t].version
    /\ seen[a].state.version = orch[t].version => seen[a].state = orch[t]

\* What split_task found out when it took the lock still holds.
SplitIsValid ==
  Splitting =>
    LET t == split.task
        e == split.event
    IN  /\ e.type = "split_task"
        /\ SplitIsNew(t, e)
        /\ seen[e.actor] = [task |-> t, state |-> orch[t]]
        /\ e.to # NoStatus => CanTransition(StatusKey(t), e.to)

FilesHaveOwners ==
  /\ kept \subseteq files /\ left \subseteq files /\ kept \cap left = {}
  /\ split = NoSplit => files = kept \cup left
  /\ split # NoSplit => /\ split.made \cap (kept \cup left) = {}
                        /\ files = kept \cup left \cup split.made

HistoriesUnique == \A t \in Tasks : Unique(history[t])

IInv == TypeOK /\ SeenIsPast /\ SplitIsValid /\ FilesHaveOwners /\ HistoriesUnique

LEMMA InitIInv == Init => IInv
<1>. SUFFICES ASSUME Init PROVE IInv
  OBVIOUS
<1>1. NoState \in State
  BY BoundsAssumption, TimeAssumption DEF NoState, State
<1>2. /\ EmptyHistory \in History /\ Unique(EmptyHistory) /\ Size(EmptyHistory) <= MaxEntries
  BY EntriesAssumption DEF EmptyHistory, History, Unique, Size, IsInjective, Contains
<1>3. TypeOK
  BY <1>1, <1>2, BoundsAssumption, BoardAssumption DEF Init, TypeOK
<1>. QED
  BY <1>2, <1>3, NoneAssumption
     DEF Init, IInv, SeenIsPast, SplitIsValid, FilesHaveOwners, HistoriesUnique, Splitting

\* Every step that changes a task replaces its mapping and appends an entry, new
\* work by somebody who has seen the mapping.
Write(t, state, e) ==
  /\ orch' = [orch EXCEPT ![t] = state]
  /\ history' = [history EXCEPT ![t] = AppendEntry(@, e)]
  /\ UNCHANGED <<board, seen, now>>
  /\ Match(history[t], e) = "new"
  /\ state # orch[t] =>
       /\ state.version = orch[t].version + 1
       /\ seen[e.actor] = [task |-> t, state |-> orch[t]]
       /\ e.type # "split_task" => MayAct(e.actor, t)
  /\ state.status # orch[t].status =>
       \/ CanTransition(StatusKey(t), state.status)
       \/ e.type = "release_task" /\ state.status = Entry
       \/ state.status = StatusKey(t)
  /\ e.type = "claim_task" => e = ClaimEvent(e.actor, t, e.key)
  /\ e.type = "split_task" => SplitIsNew(t, e)

LEMMA StatusKeyType ==
  ASSUME TypeOK, NEW t \in Tasks
  PROVE  StatusKey(t) \in Statuses
  BY DEF TypeOK, State, StatusKey

LEMMA RunEventType ==
  ASSUME NEW type \in Types, NEW a \in Actors, NEW to \in Statuses \cup {NoStatus},
         NEW k \in OptionalKeys
  PROVE  RunEvent(type, a, to, k) \in Event
<1>1. NoTime \in 0..MaxClock + TTL /\ 0 \in 0..MaxItems
  BY TimeAssumption, BoundsAssumption
<1>. QED
  BY <1>1 DEF RunEvent, Event, OptionalKeys

LEMMA SeenIsCurrent ==
  ASSUME IInv, NEW a \in Actors, NEW t \in Tasks, ExpectedVersion(a, t)
  PROVE  seen[a] = [task |-> t, state |-> orch[t]]
<1>1. seen[a] \in [task : Tasks \cup {NoTask}, state : State]
  BY DEF IInv, TypeOK
<1>2. seen[a].task = t /\ seen[a].state = orch[t]
  BY DEF IInv, SeenIsPast, ExpectedVersion
<1>. QED
  BY <1>1, <1>2

\* The mapping that a workflow mutation writes, given what its action says of it.
LEMMA WorkflowMutationWrites ==
  ASSUME IInv, NEW t \in Tasks, NEW e \in Event, NEW next \in State,
         WorkflowMutation(t, e, next), MayAct(e.actor, t),
         e.type \notin {"split_task"},
         e.type = "claim_task" => e = ClaimEvent(e.actor, t, e.key),
         \/ CanTransition(StatusKey(t), next.status)
         \/ e.type = "release_task" /\ next.status = Entry
  PROVE  \E state \in State : Write(t, state, e)
<1>. DEFINE state == [next EXCEPT !.version = orch[t].version + 1]
<1>1. Match(history[t], e) = "new" /\ ExpectedVersion(e.actor, t) /\ Save(t, state, e)
      /\ UNCHANGED <<board, seen, now>>
  BY DEF WorkflowMutation
<1>2. e.actor \in Actors /\ orch[t] \in State
  BY DEF Event, IInv, TypeOK
<1>3. state.version \in 0..MaxVersion /\ state.version = orch[t].version + 1
      /\ state.status = next.status
  BY <1>1, <1>2, BoundsAssumption DEF Save, State
<1>4. state \in State
  BY <1>3 DEF State
<1>5. seen[e.actor] = [task |-> t, state |-> orch[t]]
  BY <1>1, <1>2, SeenIsCurrent
<1>. HIDE DEF state
<1>. QED
  BY <1>1, <1>3, <1>4, <1>5 DEF Write, Save

LEMMA ClaimWrites ==
  ASSUME IInv, NEW a \in Actors, NEW t \in Tasks, NEW k \in OptionalKeys, ClaimTask(a, t, k)
  PROVE  \E e \in Event, state \in State : Write(t, state, e)
<1>. DEFINE e == ClaimEvent(a, t, k)
            to == ClaimTarget(StatusKey(t))
            next == [orch[t] EXCEPT !.status = to, !.owner = a, !.expires = now + TTL]
<1>1. to \in Statuses /\ orch[t] \in State /\ now \in 0..MaxClock
  BY StatusKeyType, ClaimTargetIsStatus DEF IInv, TypeOK
<1>2. e \in Event /\ e.actor = a /\ e.type = "claim_task" /\ e.key = k
  BY <1>1, RunEventType DEF ClaimEvent, Types, RunEvent
<1>3. now + TTL \in 0..MaxClock + TTL
  BY <1>1, TimeAssumption, BoundsAssumption
<1>4. next \in State /\ next.status = to
  BY <1>1, <1>3 DEF State
<1>5. /\ WorkflowMutation(t, e, next) /\ MayAct(a, t) /\ CanTransition(StatusKey(t), to)
  BY DEF ClaimTask, ClaimAllowed
<1>6. e = ClaimEvent(e.actor, t, e.key)
  BY <1>2
<1>. HIDE DEF e, next, to
<1>. QED
  BY <1>2, <1>4, <1>5, <1>6, WorkflowMutationWrites

LEMMA ReleaseWrites ==
  ASSUME IInv, NEW a \in Actors, NEW t \in Tasks, NEW k \in OptionalKeys, ReleaseTask(a, t, k)
  PROVE  \E e \in Event, state \in State : Write(t, state, e)
<1>. DEFINE e == RunEvent("release_task", a, Entry, k)
            next == [orch[t] EXCEPT !.status = Entry, !.owner = NoActor, !.expires = NoTime]
<1>1. Entry \in Statuses /\ orch[t] \in State /\ NoTime \in 0..MaxClock + TTL
  BY PolicyAssumption, TimeAssumption, BoundsAssumption DEF IInv, TypeOK
<1>2. e \in Event /\ e.actor = a /\ e.type = "release_task"
  BY <1>1, RunEventType DEF Types, RunEvent
<1>3. next \in State /\ next.status = Entry
  BY <1>1 DEF State
<1>4. WorkflowMutation(t, e, next) /\ MayAct(a, t)
  BY DEF ReleaseTask
<1>. HIDE DEF e, next
<1>. QED
  BY <1>2, <1>3, <1>4, WorkflowMutationWrites

LEMMA TransitionWrites ==
  ASSUME IInv, NEW a \in Actors, NEW t \in Tasks, NEW to \in Statuses, NEW k \in OptionalKeys,
         TransitionTask(a, t, to, k)
  PROVE  \E e \in Event, state \in State : Write(t, state, e)
<1>. DEFINE e == RunEvent("transition_task", a, to, k)
            next == [orch[t] EXCEPT !.status = to]
<1>1. orch[t] \in State
  BY DEF IInv, TypeOK
<1>2. e \in Event /\ e.actor = a /\ e.type = "transition_task"
  BY RunEventType DEF Types, RunEvent
<1>3. next \in State /\ next.status = to
  BY <1>1 DEF State
<1>4. WorkflowMutation(t, e, next) /\ MayAct(a, t) /\ CanTransition(StatusKey(t), to)
  BY DEF TransitionTask
<1>. HIDE DEF e, next
<1>. QED
  BY <1>2, <1>3, <1>4, WorkflowMutationWrites

LEMMA RecordRunWrites ==
  ASSUME IInv, NEW a \in Actors, NEW t \in Tasks, NEW k \in OptionalKeys, RecordRun(a, t, k)
  PROVE  \E e \in Event, state \in State : Write(t, state, e)
<1>. DEFINE e == RunEvent("record_run", a, NoStatus, k)
<1>1. e \in Event /\ e.type = "record_run" /\ orch[t] \in State
  BY RunEventType DEF Types, RunEvent, IInv, TypeOK
<1>2. Match(history[t], e) = "new" /\ Save(t, orch[t], e) /\ UNCHANGED <<board, seen, now>>
  BY DEF RecordRun
<1>. HIDE DEF e
<1>. QED
  BY <1>1, <1>2 DEF Write, Save

LEMMA RecordRunUpdateWrites ==
  ASSUME IInv, NEW a \in Actors, NEW t \in Tasks, NEW u \in Updates, NEW k \in OptionalKeys,
         RecordRunUpdate(a, t, u, k)
  PROVE  \E e \in Event, state \in State : Write(t, state, e)
<1>. DEFINE e0 == RunEvent("record_run", a, u.status, k)
            e == [e0 EXCEPT !.owner = u.owner, !.expires = u.expires]
            updated == Apply(orch[t], u)
            next == IF updated = orch[t] THEN updated
                    ELSE [updated EXCEPT !.version = @ + 1]
<1>1. /\ u.status \in Statuses \cup {NoStatus} /\ u.owner \in Actors \cup {NoActor}
      /\ u.expires \in 0..MaxClock + TTL /\ orch[t] \in State
  BY UpdatesAssumption DEF IInv, TypeOK
<1>2. e0 \in Event /\ e0.type = "record_run" /\ e0.actor = a
  BY <1>1, RunEventType DEF Types, RunEvent
<1>3. e \in Event /\ e.type = "record_run" /\ e.actor = a
  <2>. HIDE DEF e0
  <2>. QED
    BY <1>1, <1>2 DEF Event
<1>4. /\ updated \in State /\ updated.version = orch[t].version
      /\ updated.status = IF u.status = NoStatus THEN orch[t].status ELSE u.status
  BY <1>1 DEF Apply, State
<1>5. /\ Match(history[t], e) = "new" /\ ExpectedVersion(a, t) /\ Save(t, next, e)
      /\ UNCHANGED <<board, seen, now>> /\ MayAct(a, t)
      /\ u.status \notin {NoStatus, StatusKey(t)} => CanTransition(StatusKey(t), u.status)
  BY DEF RecordRunUpdate, UpdateAllowed
<1>. HIDE DEF e0, e, updated
<1>6. /\ next \in State /\ next.status = updated.status
      /\ next # orch[t] => next.version = orch[t].version + 1
  <2>1. CASE updated = orch[t]
    BY <1>4, <2>1
  <2>2. CASE updated # orch[t]
    <3>1. next = [updated EXCEPT !.version = orch[t].version + 1]
      BY <1>4, <2>2
    <3>2. next.version = orch[t].version + 1 /\ next.status = updated.status
      BY <1>4, <3>1 DEF State
    <3>3. orch[t].version + 1 \in 0..MaxVersion
      BY <1>1, <1>5, <3>2, BoundsAssumption DEF Save, State
    <3>. QED
      BY <1>4, <3>1, <3>2, <3>3 DEF State
  <2>. QED
    BY <2>1, <2>2
<1>7. seen[a] = [task |-> t, state |-> orch[t]]
  BY <1>5, SeenIsCurrent
<1>. HIDE DEF next
<1>8. next.status # orch[t].status =>
        CanTransition(StatusKey(t), next.status) \/ next.status = StatusKey(t)
  <2>1. CASE u.status = NoStatus
    BY <1>4, <1>6, <2>1
  <2>2. CASE u.status = StatusKey(t)
    BY <1>4, <1>6, <2>2
  <2>3. CASE u.status \notin {NoStatus, StatusKey(t)}
    <3>1. CanTransition(StatusKey(t), u.status) /\ next.status = u.status
      BY <1>4, <1>5, <1>6, <2>3
    <3>. QED
      BY <3>1
  <2>. QED
    BY <2>1, <2>2, <2>3
<1>9. Write(t, next, e)
  BY <1>3, <1>5, <1>6, <1>7, <1>8 DEF Write, Save
<1>. QED
  BY <1>3, <1>6, <1>9

\* The commit of a split, as a write; so is every other step that changes a task.
LEMMA SplitCommitWrites ==
  ASSUME IInv, SplitCommit
  PROVE  /\ split.task \in Tasks
         /\ \E state \in State : Write(split.task, state, split.event)
<1>. DEFINE t == split.task
            e == split.event
            to == IF e.to = NoStatus THEN orch[t].status ELSE e.to
            state == [orch[t] EXCEPT !.version = @ + 1,
                                     !.status = IF e.to = NoStatus THEN @ ELSE e.to]
<1>1. split \in Split /\ Save(t, state, e) /\ UNCHANGED <<board, seen, now>>
  BY DEF SplitCommit, Splitting, IInv, TypeOK
<1>2. /\ t \in Tasks /\ e \in Event /\ e.to \in Statuses \cup {NoStatus} /\ orch[t] \in State
  BY <1>1 DEF Event, Split, IInv, TypeOK
<1>3. /\ e.type = "split_task" /\ SplitIsNew(t, e)
      /\ seen[e.actor] = [task |-> t, state |-> orch[t]]
      /\ e.to # NoStatus => CanTransition(StatusKey(t), e.to)
  BY DEF SplitCommit, IInv, SplitIsValid
<1>4. /\ to \in Statuses \cup {NoStatus}
      /\ to # orch[t].status => CanTransition(StatusKey(t), to)
  <2>. HIDE DEF t, e
  <2>. QED
    BY <1>2, <1>3 DEF State
<1>5. state.version = orch[t].version + 1 /\ state.status = to
  BY <1>2 DEF State
<1>6. state \in State
  <2>. HIDE DEF to
  <2>1. orch[t].version + 1 \in 0..MaxVersion
    BY <1>1, <1>2, <1>5, BoundsAssumption DEF Save, State
  <2>2. state = [orch[t] EXCEPT !.version = orch[t].version + 1, !.status = to]
    BY <1>2 DEF State, to
  <2>. HIDE DEF state
  <2>. QED
    BY <1>2, <1>4, <2>1, <2>2 DEF State
<1>7. Match(history[t], e) = "new"
  BY <1>3 DEF SplitIsNew
<1>. HIDE DEF t, e, to, state
<1>8. Write(t, state, e)
  BY <1>1, <1>3, <1>4, <1>5, <1>7 DEF Write, Save
<1>. QED
  BY <1>2, <1>6, <1>8 DEF t, e

\* What a write keeps of the invariant.
LEMMA WriteKeeps ==
  ASSUME IInv, NEW t \in Tasks, NEW e \in Event, NEW state \in State, Write(t, state, e)
  PROVE  /\ orch' \in [Tasks -> State] /\ history' \in [Tasks -> History]
         /\ \A u \in Tasks : Size(history'[u]) <= MaxEntries
         /\ UNCHANGED <<board, seen, now>>
         /\ SeenIsPast' /\ HistoriesUnique'
<1>1. /\ orch \in [Tasks -> State] /\ history \in [Tasks -> History]
      /\ \A u \in Tasks : Size(history[u]) <= MaxEntries
      /\ seen \in [Actors -> [task : Tasks \cup {NoTask}, state : State]]
  BY DEF IInv, TypeOK
<1>2. /\ orch'[t] = state /\ history'[t] = AppendEntry(history[t], e)
      /\ \A u \in Tasks \ {t} : orch'[u] = orch[u] /\ history'[u] = history[u]
      /\ UNCHANGED <<board, seen, now>>
      /\ state # orch[t] => state.version = orch[t].version + 1
      /\ Match(history[t], e) = "new"
  BY <1>1 DEF Write
<1>3. /\ AppendEntry(history[t], e) \in History /\ Size(AppendEntry(history[t], e)) <= MaxEntries
      /\ Unique(AppendEntry(history[t], e))
  BY <1>1, <1>2, AppendEntryWorks, AppendIsUnique DEF IInv, HistoriesUnique
<1>4. orch' \in [Tasks -> State] /\ history' \in [Tasks -> History]
  BY <1>1, <1>3 DEF Write
<1>5. HistoriesUnique'
  BY <1>2, <1>3 DEF IInv, HistoriesUnique
<1>6. SeenIsPast'
  <2>. SUFFICES ASSUME NEW a \in Actors, NEW u \in Tasks, seen'[a].task = u
               PROVE  /\ seen'[a].state.version <= orch'[u].version
                      /\ seen'[a].state.version = orch'[u].version => seen'[a].state = orch'[u]
    BY DEF SeenIsPast
  <2>1. /\ seen' = seen
        /\ seen[a].state.version <= orch[u].version
        /\ seen[a].state.version = orch[u].version => seen[a].state = orch[u]
    BY <1>2 DEF IInv, SeenIsPast
  <2>2. seen[a].state.version \in Int /\ orch[u].version \in Int /\ orch[t].version \in Int
    BY <1>1, BoundsAssumption DEF State
  <2>3. CASE orch'[u] = orch[u]
    BY <2>1, <2>3
  <2>4. CASE orch'[u] # orch[u]
    <3>1. u = t /\ orch'[u].version = orch[u].version + 1
      BY <1>2, <2>4
    <3>. QED
      BY <2>1, <2>2, <3>1
  <2>. QED
    BY <2>3, <2>4
<1>. QED
  BY <1>2, <1>3, <1>4, <1>5, <1>6, <1>1

\* A step of one mutation leaves the whole invariant.
LEMMA WriteIInv ==
  ASSUME IInv, split = NoSplit, UNCHANGED <<split, childVars>>,
         NEW t \in Tasks, NEW e \in Event, NEW state \in State, Write(t, state, e)
  PROVE  IInv'
<1>1. TypeOK'
  BY WriteKeeps DEF IInv, TypeOK, childVars
<1>2. SplitIsValid' /\ FilesHaveOwners'
  BY DEF IInv, SplitIsValid, FilesHaveOwners, Splitting, childVars
<1>. QED
  BY <1>1, <1>2, WriteKeeps DEF IInv

LEMMA ReadIInv ==
  ASSUME IInv, NEW a \in Actors, NEW t \in Tasks, Read(a, t)
  PROVE  IInv'
<1>1. /\ UNCHANGED <<orch, board, history, now, split, files, kept, left>>
      /\ seen' = [seen EXCEPT ![a] = [task |-> t, state |-> orch[t]]]
      /\ split # NoSplit => split.event.actor # a
  BY DEF Read, childVars
<1>2. orch[t] \in State /\ seen \in [Actors -> [task : Tasks \cup {NoTask}, state : State]]
  BY DEF IInv, TypeOK
<1>3. TypeOK'
  BY <1>1, <1>2 DEF IInv, TypeOK
<1>4. SeenIsPast'
  <2>1. orch[t].version \in Int
    BY <1>2, BoundsAssumption DEF State
  <2>. QED
    BY <1>1, <1>2, <2>1 DEF IInv, SeenIsPast
<1>5. SplitIsValid'
  <2>. SUFFICES ASSUME split # NoSplit
               PROVE  seen'[split.event.actor] = seen[split.event.actor]
    BY <1>1 DEF IInv, SplitIsValid, SplitIsNew, Mentions, StatusKey, Splitting
  <2>. QED
    BY <1>1, <1>2
<1>. QED
  BY <1>1, <1>3, <1>4, <1>5 DEF IInv, FilesHaveOwners, HistoriesUnique

LEMMA EditStatusIInv ==
  ASSUME IInv, NEW t \in Tasks, EditStatus(t)
  PROVE  IInv'
  BY BoardAssumption DEF EditStatus, IInv, TypeOK, SeenIsPast, SplitIsValid, FilesHaveOwners,
                         HistoriesUnique, Splitting, childVars

LEMMA TickIInv ==
  ASSUME IInv, Tick
  PROVE  IInv'
<1>1. now' \in 0..MaxClock
  BY BoundsAssumption DEF Tick, IInv, TypeOK
<1>2. TypeOK'
  BY <1>1 DEF Tick, IInv, TypeOK, childVars
<1>. QED
  BY <1>2 DEF Tick, IInv, SeenIsPast, SplitIsValid, FilesHaveOwners, HistoriesUnique, StatusKey,
              SplitIsNew, Mentions, Splitting, childVars

LEMMA SplitTaskIInv ==
  ASSUME IInv, NEW a \in Actors, NEW t \in Tasks, NEW items \in 1..MaxItems,
         NEW to \in Statuses \cup {NoStatus}, NEW k \in OptionalKeys,
         SplitTask(a, t, items, to, k)
  PROVE  IInv'
<1>. DEFINE e0 == RunEvent("split_task", a, to, k)
            e == [e0 EXCEPT !.items = items]
<1>1. e0 \in Event /\ e0.type = "split_task" /\ e0.actor = a /\ e0.to = to
  BY RunEventType DEF Types, RunEvent
<1>2. e \in Event /\ e.type = "split_task" /\ e.actor = a /\ e.to = to
  <2>. HIDE DEF e0
  <2>1. items \in 0..MaxItems
    BY BoundsAssumption
  <2>. QED
    BY <1>1, <2>1 DEF Event
<1>3. /\ split = NoSplit /\ SplitIsNew(t, e) /\ ExpectedVersion(a, t)
      /\ to # NoStatus => CanTransition(StatusKey(t), to)
      /\ split' = [task |-> t, event |-> e, made |-> {}, undo |-> FALSE]
      /\ UNCHANGED <<orch, board, history, seen, now, files, kept, left>>
  BY DEF SplitTask, childVars
<1>. HIDE DEF e0, e
<1>4. split' \in Split /\ split' # NoSplit
  <2>1. split' \in Split
    BY <1>2, <1>3 DEF Split
  <2>. QED
    BY <2>1, NoSplitAssumption
<1>5. split'.task = t /\ split'.event = e /\ split'.made = {}
  BY <1>3
<1>6. TypeOK'
  BY <1>3, <1>4 DEF IInv, TypeOK
<1>7. SplitIsValid'
  <2>1. seen[a] = [task |-> t, state |-> orch[t]]
    BY <1>3, SeenIsCurrent
  <2>. QED
    BY <1>2, <1>3, <1>5, <2>1 DEF SplitIsValid, SplitIsNew, Mentions, StatusKey, Splitting
<1>8. FilesHaveOwners'
  BY <1>3, <1>4, <1>5 DEF IInv, FilesHaveOwners
<1>. QED
  BY <1>3, <1>6, <1>7, <1>8 DEF IInv, SeenIsPast, HistoriesUnique

\* A step of a split that leaves the tasks alone, in two parts.
LEMMA SplitStepShape ==
  ASSUME IInv,
         SplitCreate \/ SplitFails \/ (\E c \in Children : RemoveChild(c)) \/ RollbackEnds \/ Crash
  PROVE  /\ UNCHANGED <<orch, board, history, seen, now>>
         /\ \/ split' = NoSplit
            \/ /\ split' \in Split /\ split'.task = split.task /\ split'.event = split.event
               /\ Splitting' => Splitting
<1>1. split \in Split
  BY DEF SplitCreate, SplitFails, RemoveChild, RollbackEnds, Crash, Splitting, RollingBack, IInv, TypeOK
<1>2. CASE SplitCreate
  <2>1. NewChild \in Children
    BY <1>2 DEF SplitCreate, NewChild, IInv, TypeOK
  <2>. QED
    BY <1>1, <1>2, <2>1 DEF SplitCreate, Split, Splitting
<1>3. CASE SplitFails
  BY <1>1, <1>3 DEF SplitFails, childVars, Split, Splitting
<1>4. CASE \E c \in Children : RemoveChild(c)
  BY <1>1, <1>4 DEF RemoveChild, Split, Splitting, RollingBack
<1>5. CASE RollbackEnds \/ Crash
  BY <1>5 DEF RollbackEnds, Crash, childVars
<1>. QED
  BY <1>2, <1>3, <1>4, <1>5

LEMMA SplitStepOwners ==
  ASSUME IInv,
         SplitCreate \/ SplitFails \/ (\E c \in Children : RemoveChild(c)) \/ RollbackEnds \/ Crash
  PROVE  /\ files' \subseteq Children /\ kept' \subseteq Children /\ left' \subseteq Children
         /\ FilesHaveOwners'
<1>1. /\ split # NoSplit /\ split \in Split /\ split.made \subseteq Children
      /\ files \subseteq Children /\ kept \subseteq Children /\ left \subseteq Children
      /\ FilesHaveOwners
  BY DEF SplitCreate, SplitFails, RemoveChild, RollbackEnds, Crash, Splitting, RollingBack,
         IInv, TypeOK, Split
<1>2. split' = NoSplit \/ (split' \in Split /\ split' # NoSplit)
  BY SplitStepShape, NoSplitAssumption
<1>3. CASE SplitCreate
  <2>1. NewChild \in Children /\ NewChild \notin files
    BY <1>1, <1>3 DEF SplitCreate, NewChild
  <2>2. /\ files' = files \cup {NewChild} /\ kept' = kept
        /\ \/ split' = [split EXCEPT !.made = split.made \cup {NewChild}] /\ left' = left
           \/ split' = [split EXCEPT !.undo = TRUE] /\ left' = left \cup {NewChild}
    BY <1>3 DEF SplitCreate
  <2>3. \/ split'.made = split.made \cup {NewChild} /\ left' = left
        \/ split'.made = split.made /\ left' = left \cup {NewChild}
    BY <1>1, <2>2 DEF Split
  <2>4. split' # NoSplit
    <3>1. split' \in Split
      BY <1>1, <2>1, <2>2 DEF Split
    <3>. QED
      BY <3>1, NoSplitAssumption
  <2>. HIDE DEF NewChild
  <2>. QED
    BY <1>1, <2>1, <2>2, <2>3, <2>4 DEF FilesHaveOwners
<1>4. CASE SplitFails
  <2>1. split' \in Split /\ split'.made = split.made /\ UNCHANGED <<files, kept, left>>
    BY <1>1, <1>4 DEF SplitFails, childVars, Split
  <2>. QED
    BY <1>1, <2>1, NoSplitAssumption DEF FilesHaveOwners
<1>5. CASE \E c \in Children : RemoveChild(c)
  <2>1. PICK c \in Children : RemoveChild(c)
    BY <1>5
  <2>2. /\ c \in split.made /\ kept' = kept
        /\ split' \in Split /\ split'.made = split.made \ {c}
        /\ \/ files' = files \ {c} /\ left' = left
           \/ left' = left \cup {c} /\ files' = files
    BY <1>1, <2>1 DEF RemoveChild, Split
  <2>. QED
    BY <1>1, <2>2, NoSplitAssumption DEF FilesHaveOwners
<1>6. CASE RollbackEnds
  BY <1>1, <1>6 DEF RollbackEnds, childVars, FilesHaveOwners
<1>7. CASE Crash
  BY <1>1, <1>7 DEF Crash, FilesHaveOwners
<1>. QED
  BY <1>3, <1>4, <1>5, <1>6, <1>7

LEMMA SplitStepIInv ==
  ASSUME IInv,
         SplitCreate \/ SplitFails \/ (\E c \in Children : RemoveChild(c)) \/ RollbackEnds \/ Crash
  PROVE  IInv'
<1>1. TypeOK'
  BY SplitStepShape, SplitStepOwners DEF IInv, TypeOK
<1>2. SplitIsValid'
  BY SplitStepShape DEF IInv, SplitIsValid, SplitIsNew, Mentions, StatusKey, Splitting
<1>. QED
  BY <1>1, <1>2, SplitStepShape, SplitStepOwners DEF IInv, SeenIsPast, HistoriesUnique

LEMMA SplitCommitIInv ==
  ASSUME IInv, SplitCommit
  PROVE  IInv'
<1>1. /\ Splitting /\ split # NoSplit /\ split \in Split /\ split.made \subseteq Children
      /\ UNCHANGED <<files, left>>
      /\ \/ split' = NoSplit /\ kept' = kept \cup split.made
         \/ split' = [split EXCEPT !.undo = TRUE] /\ UNCHANGED kept
  BY DEF SplitCommit, Splitting, IInv, TypeOK, Split
<1>2. /\ orch' \in [Tasks -> State] /\ history' \in [Tasks -> History]
      /\ \A u \in Tasks : Size(history'[u]) <= MaxEntries
      /\ UNCHANGED <<board, seen, now>>
      /\ SeenIsPast' /\ HistoriesUnique'
  <2>1. split.task \in Tasks /\ split.event \in Event
    BY <1>1 DEF Split
  <2>. QED
    BY <2>1, SplitCommitWrites, WriteKeeps
<1>3. \/ split' = NoSplit
      \/ split' \in Split /\ split' # NoSplit /\ split'.undo /\ split'.made = split.made
  BY <1>1, NoSplitAssumption DEF Split
<1>4. TypeOK'
  BY <1>1, <1>2, <1>3 DEF IInv, TypeOK
<1>5. SplitIsValid'
  BY <1>3 DEF SplitIsValid, Splitting
<1>6. FilesHaveOwners'
  <2>1. /\ kept \subseteq files /\ left \subseteq files /\ kept \cap left = {}
        /\ split.made \cap (kept \cup left) = {} /\ files = kept \cup left \cup split.made
        /\ files' = files /\ left' = left
    BY <1>1 DEF IInv, FilesHaveOwners
  <2>2. CASE split' = NoSplit /\ kept' = kept \cup split.made
    BY <2>1, <2>2 DEF FilesHaveOwners
  <2>3. CASE split' = [split EXCEPT !.undo = TRUE] /\ UNCHANGED kept
    <3>1. split'.made = split.made /\ split' # NoSplit
      <4>1. split' \in Split /\ split'.made = split.made
        BY <1>1, <2>3 DEF Split
      <4>. QED
        BY <4>1, NoSplitAssumption
    <3>. QED
      BY <2>1, <2>3, <3>1 DEF FilesHaveOwners
  <2>. QED
    BY <1>1, <2>2, <2>3
<1>. QED
  BY <1>2, <1>4, <1>5, <1>6 DEF IInv

\* A step that changes a mapping or a history is a write.
LEMMA StepIsWrite ==
  ASSUME IInv, Next
  PROVE  \/ UNCHANGED <<orch, history>>
         \/ \E t \in Tasks, e \in Event, state \in State : Write(t, state, e)
<1>1. CASE \/ Tick \/ SplitCreate \/ SplitFails \/ RollbackEnds \/ Crash
         \/ \E c \in Children : RemoveChild(c)
  BY <1>1 DEF Tick, SplitCreate, SplitFails, RollbackEnds, Crash, RemoveChild
<1>2. CASE \E t \in Tasks : EditStatus(t)
  BY <1>2 DEF EditStatus
<1>3. CASE \E a \in Actors, t \in Tasks : Read(a, t)
  BY <1>3 DEF Read
<1>4. CASE SplitCommit
  <2>1. split.task \in Tasks /\ split.event \in Event
    BY <1>4 DEF SplitCommit, Splitting, Split, IInv, TypeOK
  <2>. QED
    BY <1>4, <2>1, SplitCommitWrites
<1>5. ASSUME NEW a \in Actors, NEW t \in Tasks, NEW k \in OptionalKeys,
             \/ ClaimTask(a, t, k) \/ ReleaseTask(a, t, k) \/ RecordRun(a, t, k)
             \/ \E to \in Statuses : TransitionTask(a, t, to, k)
             \/ \E u \in Updates : RecordRunUpdate(a, t, u, k)
      PROVE  \E e \in Event, state \in State : Write(t, state, e)
  BY <1>5, ClaimWrites, ReleaseWrites, TransitionWrites, RecordRunWrites, RecordRunUpdateWrites
<1>6. ASSUME NEW a \in Actors, NEW t \in Tasks, NEW k \in OptionalKeys,
             \E to \in Statuses \cup {NoStatus}, n \in 1..MaxItems : SplitTask(a, t, n, to, k)
      PROVE  UNCHANGED <<orch, history>>
  BY <1>6 DEF SplitTask
<1>. QED
  BY <1>1, <1>2, <1>3, <1>4, <1>5, <1>6 DEF Next

LEMMA StepIInv == IInv /\ [Next]_vars => IInv'
<1>. SUFFICES ASSUME IInv, [Next]_vars PROVE IInv'
  OBVIOUS
<1>1. CASE Tick
  BY <1>1, TickIInv
<1>2. CASE \E t \in Tasks : EditStatus(t)
  BY <1>2, EditStatusIInv
<1>3. CASE \E a \in Actors, t \in Tasks : Read(a, t)
  BY <1>3, ReadIInv
<1>4. ASSUME NEW a \in Actors, NEW t \in Tasks, NEW k \in OptionalKeys,
             \/ ClaimTask(a, t, k) \/ ReleaseTask(a, t, k) \/ RecordRun(a, t, k)
             \/ \E to \in Statuses : TransitionTask(a, t, to, k)
             \/ \E u \in Updates : RecordRunUpdate(a, t, u, k)
      PROVE  IInv'
  <2>1. \E e \in Event, state \in State : Write(t, state, e)
    BY <1>4, ClaimWrites, ReleaseWrites, TransitionWrites, RecordRunWrites, RecordRunUpdateWrites
  <2>2. split = NoSplit /\ UNCHANGED <<split, childVars>>
    BY <1>4 DEF ClaimTask, ReleaseTask, TransitionTask, RecordRun, RecordRunUpdate, WorkflowMutation
  <2>. QED
    BY <2>1, <2>2, WriteIInv
<1>5. ASSUME NEW a \in Actors, NEW t \in Tasks, NEW k \in OptionalKeys,
             \E to \in Statuses \cup {NoStatus}, n \in 1..MaxItems : SplitTask(a, t, n, to, k)
      PROVE  IInv'
  BY <1>5, SplitTaskIInv
<1>6. CASE \/ SplitCreate \/ SplitFails \/ RollbackEnds \/ Crash
         \/ \E c \in Children : RemoveChild(c)
  BY <1>6, SplitStepIInv
<1>7. CASE SplitCommit
  BY <1>7, SplitCommitIInv
<1>8. CASE UNCHANGED vars
  BY <1>8 DEF vars, IInv, TypeOK, SeenIsPast, SplitIsValid, FilesHaveOwners, HistoriesUnique,
              StatusKey, SplitIsNew, Mentions, Splitting
<1>. QED
  BY <1>1, <1>2, <1>3, <1>4, <1>5, <1>6, <1>7, <1>8 DEF Next

\* Types, and what every step relies on: no actor has read a state newer than the
\* task's, a pending split is one that was checked, every child file has an owner,
\* and a history holds no key twice (history.py:165-213, service.py:311-419).
THEOREM Invariance == Spec => []IInv
  BY InitIInv, StepIInv, PTL DEF Spec

-----------------------------------------------------------------------------
(* The properties. *)

\* Every mapping, history, answer and pending split has its type, and no history
\* outgrows the cap (history.py:195-213).
THEOREM TypeCorrect == Spec => []TypeOK
<1>1. IInv => TypeOK
  BY DEF IInv
<1>. QED
  BY <1>1, Invariance, PTL

\* However many keys an agent retries with and however much is truncated, no key
\* the file still knows about was used for two pieces of work (history.py:165-187).
THEOREM KeysUsedOnce == Spec => []KeysUnique
<1>1. IInv => KeysUnique
  BY DEF IInv, HistoriesUnique, Unique, KeysUnique
<1>. QED
  BY <1>1, Invariance, PTL

\* Whichever files of a split cannot be written, read back or removed, and wherever it
\* dies: a split that succeeded has all its children, and every other child file is one
\* that itself could not be removed or not be read back, or whose split died; every
\* variable has its type as well (service.py:453-491, 407-419, 926-929).
THEOREM ChildrenHaveOwners == Spec => []SplitsLeaveNoOrphans
<1>1. IInv => SplitsLeaveNoOrphans
  BY DEF IInv, FilesHaveOwners, ChildrenAccountedFor, SplitsLeaveNoOrphans
<1>. QED
  BY <1>1, Invariance, PTL

\* The entry that a write appends is the newest.
LEMMA WriteEntry ==
  ASSUME IInv, NEW t \in Tasks, NEW e \in Event, NEW state \in State, Write(t, state, e)
  PROVE  /\ NewEntry(t) = e /\ orch'[t] = state
         /\ \A u \in Tasks \ {t} : orch'[u] = orch[u] /\ history'[u] = history[u]
<1>1. /\ history \in [Tasks -> History] /\ Size(history[t]) <= MaxEntries
      /\ orch \in [Tasks -> State]
  BY DEF IInv, TypeOK
<1>2. history'[t] = AppendEntry(history[t], e)
  BY <1>1 DEF Write
<1>3. \E d \in 0..2 : Appended(history[t], e, history'[t], d)
  BY <1>1, <1>2, AppendEntryWorks
<1>4. NewEntry(t) = e
  BY <1>3 DEF Appended, NewEntry, Last
<1>. QED
  BY <1>1, <1>4 DEF Write

\* Whatever the agents, tasks and policy: nobody changes a mapping that changed
\* since it was read (service.py:242-255, 361-369, 719-727).
THEOREM UpdatesAreSeen == Spec => NoLostUpdate
<1>1. IInv /\ [Next]_vars =>
        [\A t \in Tasks : orch'[t] # orch[t] =>
           seen[NewEntry(t).actor] = [task |-> t, state |-> orch[t]]]_vars
  <2>. SUFFICES ASSUME IInv, Next, NEW t \in Tasks, orch'[t] # orch[t]
               PROVE  seen[NewEntry(t).actor] = [task |-> t, state |-> orch[t]]
    OBVIOUS
  <2>1. PICK u \in Tasks, e \in Event, state \in State : Write(u, state, e)
    BY StepIsWrite
  <2>2. t = u /\ NewEntry(t) = e /\ state # orch[t]
    BY <2>1, WriteEntry
  <2>. QED
    BY <2>1, <2>2 DEF Write
<1>. QED
  BY <1>1, Invariance, PTL DEF Spec, NoLostUpdate

\* While a lease is active only its owner, or a split, changes the mapping
\* (service.py:294-295, 567-576, 633, 673).
THEOREM LeasesRespected == Spec => LeaseRespected
<1>1. IInv /\ [Next]_vars =>
        [\A t \in Tasks : orch'[t] # orch[t] /\ LeaseIsActive(t) =>
           NewEntry(t).actor = orch[t].owner \/ NewEntry(t).type = "split_task"]_vars
  <2>. SUFFICES ASSUME IInv, Next, NEW t \in Tasks, orch'[t] # orch[t], LeaseIsActive(t)
               PROVE  NewEntry(t).actor = orch[t].owner \/ NewEntry(t).type = "split_task"
    OBVIOUS
  <2>1. PICK u \in Tasks, e \in Event, state \in State : Write(u, state, e)
    BY StepIsWrite
  <2>2. t = u /\ NewEntry(t) = e /\ state # orch[t]
    BY <2>1, WriteEntry
  <2>3. e.type # "split_task" => MayAct(e.actor, t)
    BY <2>1, <2>2 DEF Write
  <2>. QED
    BY <2>2, <2>3 DEF MayAct
<1>. QED
  BY <1>1, Invariance, PTL DEF Spec, LeaseRespected

\* The workflow status follows the transitions of the policy, whatever the policy
\* (service.py:311-327, 372-380, 577-585, 675-683).
THEOREM PolicyFollowed == Spec => WorkflowOrder
<1>1. IInv /\ [Next]_vars =>
        [\A t \in Tasks : orch'[t].status # orch[t].status =>
           \/ CanTransition(StatusKey(t), orch'[t].status)
           \/ NewEntry(t).type = "release_task" /\ orch'[t].status = Entry
           \/ orch'[t].status = StatusKey(t)]_vars
  <2>. SUFFICES ASSUME IInv, Next, NEW t \in Tasks, orch'[t].status # orch[t].status
               PROVE  \/ CanTransition(StatusKey(t), orch'[t].status)
                      \/ NewEntry(t).type = "release_task" /\ orch'[t].status = Entry
                      \/ orch'[t].status = StatusKey(t)
    OBVIOUS
  <2>1. PICK u \in Tasks, e \in Event, state \in State : Write(u, state, e)
    BY StepIsWrite
  <2>2. t = u /\ NewEntry(t) = e /\ orch'[t] = state
    BY <2>1, WriteEntry
  <2>. QED
    BY <2>1, <2>2 DEF Write
<1>. QED
  BY <1>1, Invariance, PTL DEF Spec, WorkflowOrder

\* A key that any task still knows about starts no second split, provided JSON
\* writes no key differently: a marker is searched as text (service.py:844-856).
THEOREM SplitsAreNew ==
  ASSUME EscapedKeys = {}
  PROVE  Spec => SplitKeyOnce
<1>1. IInv /\ [Next]_vars =>
        [\A t \in Tasks :
           history'[t] # history[t] /\ NewEntry(t).type = "split_task" /\ NewEntry(t).key # NoKey
             => \A u \in Tasks : ~Knows(history[u], NewEntry(t).key)]_vars
  <2>. SUFFICES ASSUME IInv, Next, NEW t \in Tasks, history'[t] # history[t],
                      NewEntry(t).type = "split_task", NewEntry(t).key # NoKey,
                      NEW v \in Tasks, Knows(history[v], NewEntry(t).key)
               PROVE  FALSE
    OBVIOUS
  <2>1. PICK u \in Tasks, e \in Event, state \in State : Write(u, state, e)
    BY StepIsWrite
  <2>2. t = u /\ NewEntry(t) = e
    BY <2>1, WriteEntry
  <2>3. SplitIsNew(t, e) /\ Mentions(history[v], e.key)
    BY <2>1, <2>2 DEF Write, Knows, Mentions
  <2>4. Match(history[v], e) = "new"
    BY <2>3 DEF SplitIsNew
  <2>. QED
    BY <2>2, <2>4, MatchNew
<1>. QED
  BY <1>1, Invariance, PTL DEF Spec, SplitKeyOnce

\* Where a claim can take a task out of every claimable status, anybody can claim
\* what the queue shows as eligible (reports.py:122-135, models.py:329-345).
THEOREM EligibleCanBeClaimed ==
  ASSUME \A s \in Claimable : WorkingTargets(s) # {}
  PROVE  Spec => []EligibleIsClaimable
<1>1. IInv => EligibleIsClaimable
  <2>. SUFFICES ASSUME IInv, NEW t \in Tasks, Eligible(t), NEW a \in Actors
               PROVE  ClaimAllowed(a, t)
    BY DEF EligibleIsClaimable
  <2>1. StatusKey(t) \in Claimable /\ StatusKey(t) \in Statuses
    BY PolicyAssumption DEF Eligible
  <2>2. CanTransition(StatusKey(t), ClaimTarget(StatusKey(t)))
    BY <2>1, WorkingTargetIsNext DEF ClaimTarget
  <2>3. ~LeaseIsActive(t)
    <3>1. now \in Nat
      BY BoundsAssumption DEF IInv, TypeOK
    <3>. QED
      BY <3>1, TimeAssumption DEF Eligible, LeaseIsActive
  <2>. QED
    BY <2>1, <2>2, <2>3 DEF ClaimAllowed, MayAct
<1>. QED
  BY <1>1, Invariance, PTL

-----------------------------------------------------------------------------
(* Retried claims. *)

\* Every claimable status leads to the same working status: the policies for
\* which models.py:346-363 promises that a repeated claim is recognised.
OneFunnel ==
  /\ WorkingTargets(Entry) # {}
  /\ \A s \in Claimable :
       WorkingTargets(s) # {} => FirstWorkingTarget(s) = FirstWorkingTarget(Entry)

\* A recorded claim says no more than who claimed, where to and with which key.
ClaimsRecorded ==
  \A t \in Tasks : \A i \in DOMAIN history[t].events :
    LET e == history[t].events[i]
    IN  e.type = "claim_task" =>
          e = RunEvent("claim_task", e.actor, FirstWorkingTarget(Entry), e.key)

LEMMA FunnelTarget ==
  ASSUME OneFunnel, NEW s
  PROVE  ClaimTarget(s) = FirstWorkingTarget(Entry)
  BY DEF OneFunnel, ClaimTarget

LEMMA StepClaimsRecorded ==
  ASSUME OneFunnel, IInv, ClaimsRecorded, [Next]_vars
  PROVE  ClaimsRecorded'
<1>1. CASE UNCHANGED <<orch, history>>
  BY <1>1 DEF ClaimsRecorded
<1>2. CASE \E t \in Tasks, e \in Event, state \in State : Write(t, state, e)
  <2>1. PICK u \in Tasks, e \in Event, state \in State : Write(u, state, e)
    BY <1>2
  <2>2. history[u] \in History /\ Size(history[u]) <= MaxEntries
        /\ history'[u] = AppendEntry(history[u], e)
        /\ \A t \in Tasks \ {u} : history'[t] = history[t]
    BY <2>1 DEF Write, IInv, TypeOK
  <2>3. history'[u] \in History /\ \E d \in 0..2 : Appended(history[u], e, history'[u], d)
    BY <2>2, AppendEntryWorks
  <2>4. PICK d \in 0..2 : Appended(history[u], e, history'[u], d)
    BY <2>3
  <2>. DEFINE n == Len(history[u].events)
  <2>5. \A i \in DOMAIN history'[u].events :
          \/ history'[u].events[i] = e
          \/ \E j \in DOMAIN history[u].events : history'[u].events[i] = history[u].events[j]
    <3>1. n \in Nat /\ DOMAIN history[u].events = 1..n
          /\ DOMAIN history'[u].events = 1..Len(history'[u].events)
      BY <2>2, <2>3, HistoryTypes
    <3>2. /\ d <= n /\ Len(history'[u].events) = n - d + 1 /\ history'[u].events[n - d + 1] = e
          /\ \A i \in 1..n - d : history'[u].events[i] = history[u].events[i + d] /\ i + d \in 1..n
      BY <2>4, <3>1 DEF Appended
    <3>. SUFFICES ASSUME NEW i \in 1..n - d + 1
                 PROVE  \/ history'[u].events[i] = e
                        \/ \E j \in 1..n : history'[u].events[i] = history[u].events[j]
      BY <3>1, <3>2
    <3>3. i = n - d + 1 \/ i \in 1..n - d
      BY <3>1
    <3>. QED
      BY <3>2, <3>3
  <2>6. e.type = "claim_task" =>
          e = RunEvent("claim_task", e.actor, FirstWorkingTarget(Entry), e.key)
    BY <2>1, FunnelTarget DEF Write, ClaimEvent
  <2>. QED
    BY <2>2, <2>5, <2>6 DEF ClaimsRecorded
<1>. QED
  BY <1>1, <1>2, StepIsWrite DEF vars

LEMMA RecordedClaimReplays ==
  ASSUME OneFunnel, IInv, ClaimsRecorded
  PROVE  ClaimReplays
<1>. SUFFICES ASSUME NEW t \in Tasks, NEW i \in DOMAIN history[t].events,
                    history[t].events[i].type = "claim_task",
                    history[t].events[i].key # NoKey
             PROVE  LET e == history[t].events[i]
                    IN  Match(history[t], ClaimEvent(e.actor, t, e.key)) = "replay"
  BY DEF ClaimReplays
<1>. DEFINE h == history[t]
            e == h.events[i]
            c == ClaimEvent(e.actor, t, e.key)
            used == {j \in DOMAIN h.events : h.events[j].key = c.key}
<1>1. c = e
  BY FunnelTarget DEF ClaimsRecorded, ClaimEvent
<1>2. Unique(h)
  BY DEF IInv, HistoriesUnique
<1>3. used = {i}
  BY <1>1, <1>2 DEF Unique
<1>4. Min({i}) = i
  <2>1. i \in Nat
    BY HistoryTypes DEF IInv, TypeOK
  <2>. QED
    BY <2>1 DEF Min
<1>5. ~Contains(h.dropped, c.key)
  BY <1>1, <1>2 DEF Unique
<1>6. Fingerprint(h.events[Min(used)]) = Fingerprint(c) /\ c.key # NoKey /\ used # {}
  BY <1>1, <1>3, <1>4
<1>7. Match(h, c) = "replay"
  <2>. HIDE DEF h, c
  <2>. QED
    BY <1>5, <1>6 DEF Match
<1>. QED
  BY <1>7

\* Under a policy whose claimable statuses lead to one working status, a claim
\* that is repeated word for word is answered from the history for as long as
\* its entry is kept (service.py:709-718, models.py:342-363).
THEOREM ClaimsReplay ==
  ASSUME OneFunnel
  PROVE  Spec => []ClaimReplays
<1>1. Init => ClaimsRecorded
  BY DEF Init, ClaimsRecorded, EmptyHistory
<1>2. IInv /\ ClaimsRecorded /\ [Next]_vars => ClaimsRecorded'
  BY StepClaimsRecorded
<1>3. IInv /\ ClaimsRecorded => ClaimReplays
  BY RecordedClaimReplays
<1>. QED
  BY <1>1, <1>2, <1>3, Invariance, PTL DEF Spec
=============================================================================
