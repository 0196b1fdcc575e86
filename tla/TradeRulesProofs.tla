-------------------------- MODULE TradeRulesProofs --------------------------
(***************************************************************************)
(* What bounds the trading, for all values of the constants: how often it  *)
(* is entered (EntryRate), which losses stop it (EquityLimits), when it is *)
(* left (ExitRules), and what the model is trained on (TrainingLabels).    *)
(***************************************************************************)
EXTENDS EntryRate, EquityLimits, ExitRules, TrainingLabels, SumProofs, SequenceTheorems, TLAPS

-----------------------------------------------------------------------------
(* The rate of entries                                                     *)

\* A trade is opened only before the last loss that is allowed, so that none is open after.
StreakInv == losses \in 0 .. LossLimit /\ (open => losses < LossLimit)

LEMMA InitStreak == RateInit => StreakInv
BY RateAssumption DEF RateInit, StreakInv

LEMMA NextKeepsStreak == StreakInv /\ [RateNext]_rateVars => StreakInv'
<1> SUFFICES ASSUME StreakInv, [RateNext]_rateVars
             PROVE  StreakInv'
  OBVIOUS
<1> USE RateAssumption DEF StreakInv
<1>1. CASE Enter
  BY <1>1 DEF Enter
<1>2. CASE CloseTrade
  BY <1>2 DEF CloseTrade
<1>3. CASE LossesKill \/ Degrade \/ Reset \/ Unpause \/ Stop \/ Turn \/ UNCHANGED rateVars
  BY <1>3 DEF LossesKill, Degrade, Reset, Unpause, Stop, Turn, rateVars
<1> QED
  BY <1>1, <1>2, <1>3 DEF RateNext

\* Once the losses in a row have reached their limit they stay, and nothing is entered:
\* LosingStreakIsFinal (risk.py:162).
LEMMA StreakStays ==
  ASSUME StreakInv, RateNext, losses >= LossLimit
  PROVE  losses' = losses /\ stamps' = stamps
<1> USE RateAssumption DEF StreakInv
<1>1. ~open /\ ~(losses < LossLimit)
  OBVIOUS
<1>2. ~Enter /\ ~CloseTrade /\ ~Degrade
  BY <1>1 DEF Enter, CloseTrade, Degrade
<1> QED
  BY <1>2 DEF RateNext, LossesKill, Reset, Unpause, Stop, Turn

\* For every limit and clock no command brings an entry back after the last loss allowed:
\* LosingStreakIsFinal (risk.py:162).
THEOREM StreakIsFinal == RateSpec => LosingStreakIsFinal
<1>1. StreakInv /\ [RateNext]_rateVars =>
        [losses >= LossLimit => losses' = losses /\ stamps' = stamps]_rateVars
  BY StreakStays
<1> QED
  BY InitStreak, NextKeepsStreak, <1>1, PTL DEF RateSpec, LosingStreakIsFinal

-----------------------------------------------------------------------------
(* The distance of entries                                                 *)

\* The entries of the last day before the last entry are in the row ...
RowComplete ==
  \A i \in DOMAIN stamps : stamps[i] > stamps[Len(stamps)] - Day => i \in entries

\* ... the times go up, and no window has too many of them.
StampsRise == \A i, j \in DOMAIN stamps : i <= j => stamps[i] <= stamps[j]

RateInv == RateTypeOK /\ RowComplete /\ StampsRise /\ EntriesKeepTheirDistance

\* No entry yet.
LEMMA InitRate == RateInit => RateInv
<1> SUFFICES ASSUME RateInit
             PROVE  RateInv
  OBVIOUS
<1> USE RateAssumption DEF RateInit
<1>1. DOMAIN stamps = {}
  OBVIOUS
<1>2. Cardinality(entries) = 0
  BY FS_EmptySet
<1>3. RateTypeOK
  <2>1. stamps \in Seq(0 .. MaxTicks)
    OBVIOUS
  <2>2. entries \subseteq DOMAIN stamps /\ Cardinality(entries) <= DailyLimit
    BY <1>2
  <2>3. open \in BOOLEAN /\ kill \in BOOLEAN /\ pause \in BOOLEAN
    BY Zenon
  <2>4. ticks \in 0 .. MaxTicks /\ lastExit \in 0 .. MaxTicks /\ losses \in 0 .. LossLimit
    OBVIOUS
  <2> QED
    BY <2>1, <2>2, <2>3, <2>4 DEF RateTypeOK
<1> QED
  BY <1>1, <1>3 DEF RateInv, RowComplete, StampsRise, EntriesKeepTheirDistance

\* The clock is past the last entry, and far enough, when another one is let through.
LEMMA EntryIsLater ==
  ASSUME RateInv, RateAllows, stamps # <<>>
  PROVE  ticks - stamps[Len(stamps)] >= Spacing
<1> DEFINE n == Len(stamps)
<1>1. /\ stamps \in Seq(0 .. MaxTicks) /\ entries \subseteq 1 .. n /\ n \in Nat /\ n > 0
      /\ DOMAIN stamps = 1 .. n /\ ticks \in Int /\ MaxTicks \in Nat
      /\ Spacing \in Nat /\ Day \in Nat /\ Day > 0 /\ Spacing <= Day
  BY RateAssumption, WindowAssumption, SpacingAssumption, EmptySeq, LenProperties DEF RateInv, RateTypeOK
<1>2. n \in entries /\ stamps[n] \in Int
  BY <1>1, ElementOfSeq DEF RateInv, RowComplete
<1>3. CASE stamps[n] > ticks - Day
  <2>1. n \in Recent /\ Recent \subseteq 1 .. n
    BY <1>1, <1>2, <1>3 DEF Recent, Within
  <2>2. Max(Recent) = n
    BY <1>1, <2>1, MaxIsBound
  <2> QED
    BY <2>1, <2>2 DEF RateAllows
<1>4. CASE ~(stamps[n] > ticks - Day)
  BY <1>1, <1>2, <1>4
<1> QED
  BY <1>3, <1>4

\* The number in a window that ends with the new entry.
LEMMA CountsInWindow ==
  ASSUME NEW S, IsFiniteSet(S), NEW limit \in Nat, Cardinality(S) < limit, NEW x, NEW T,
         T \subseteq S \union {x}
  PROVE  IsFiniteSet(T) /\ Cardinality(T) <= limit
<1>1. IsFiniteSet(S \union {x}) /\ Cardinality(S \union {x}) <= limit
  <2>1. Cardinality(S) \in Nat
    BY FS_CardinalityType
  <2>2. /\ IsFiniteSet(S \union {x})
        /\ Cardinality(S \union {x}) = IF x \in S THEN Cardinality(S) ELSE Cardinality(S) + 1
    BY FS_AddElement
  <2> QED
    BY <2>1, <2>2
<1>2. IsFiniteSet(T) /\ Cardinality(T) <= Cardinality(S \union {x})
  BY <1>1, FS_Subset
<1>3. Cardinality(T) \in Nat /\ Cardinality(S \union {x}) \in Nat
  BY <1>1, <1>2, FS_CardinalityType
<1> QED
  BY <1>1, <1>2, <1>3

\* An entry is counted against the windows before it is made.
LEMMA EnterKeepsRate ==
  ASSUME RateInv, Enter
  PROVE  RateInv'
<1> PICK n : n = Len(stamps)
  OBVIOUS
<1>1. /\ stamps \in Seq(0 .. MaxTicks) /\ entries \subseteq 1 .. n /\ n \in Nat
      /\ DOMAIN stamps = 1 .. n /\ ticks \in 0 .. MaxTicks /\ MaxTicks \in Nat
      /\ Spacing \in Nat /\ Day \in Nat /\ Hour \in Nat /\ Hour > 0 /\ Hour <= Day
      /\ HourlyLimit \in Nat /\ DailyLimit \in Nat
  BY RateAssumption, WindowAssumption DEF RateInv, RateTypeOK
<1>2. /\ stamps' \in Seq(0 .. MaxTicks) /\ Len(stamps') = n + 1 /\ DOMAIN stamps' = 1 .. n + 1
      /\ stamps'[n + 1] = ticks /\ \A i \in 1 .. n : stamps'[i] = stamps[i]
  BY <1>1, AppendProperties DEF Enter
<1>3. \A i \in 1 .. n : stamps[i] \in Int /\ stamps[i] <= stamps[n] /\ ticks - stamps[i] >= Spacing
  <2> SUFFICES ASSUME NEW i \in 1 .. n
               PROVE  stamps[i] \in Int /\ stamps[i] <= stamps[n] /\ ticks - stamps[i] >= Spacing
    OBVIOUS
  <2>1. stamps[i] \in Int /\ stamps[n] \in Int /\ stamps # <<>> /\ i <= n /\ n \in 1 .. n
    BY <1>1, ElementOfSeq, EmptySeq
  <2>2. stamps[i] <= stamps[n]
    BY <1>1, <2>1 DEF RateInv, StampsRise
  <2>3. ticks - stamps[n] >= Spacing
    BY <2>1, EntryIsLater DEF Enter
  <2> QED
    BY <1>1, <2>1, <2>2, <2>3
<1>4. entries' = Recent \union {n + 1} /\ Recent \subseteq 1 .. n
  BY <1>1 DEF Enter, Record, Number, Recent, Within
<1>5. \A i \in 1 .. n : stamps[i] > ticks - Day => i \in Recent
  <2> SUFFICES ASSUME NEW i \in 1 .. n, stamps[i] > ticks - Day
               PROVE  i \in Recent
    OBVIOUS
  <2>1. n \in 1 .. n /\ stamps[n] \in Int /\ ticks - stamps[n] >= Spacing
    BY <1>1, <1>3
  <2>2. stamps[i] > stamps[n] - Day
    BY <1>1, <1>3, <2>1
  <2>3. i \in entries
    BY <1>1, <2>2 DEF RateInv, RowComplete
  <2> QED
    BY <2>3 DEF Recent, Within
<1>6. IsFiniteSet(Recent) /\ Cardinality(Recent) < DailyLimit
  <2>1. IsFiniteSet(1 .. n)
    BY <1>1, FS_Interval
  <2> QED
    BY <1>4, <2>1, FS_Subset DEF Enter, RateAllows
<1>7. Cardinality(entries') <= DailyLimit
  BY <1>1, <1>4, <1>6, CountsInWindow
<1>8. RateTypeOK'
  <2>1. 1 .. n \subseteq 1 .. n + 1 /\ n + 1 \in 1 .. n + 1
    BY <1>1
  <2>2. entries' \subseteq DOMAIN stamps'
    BY <1>2, <1>4, <2>1
  <2> QED
    BY <1>2, <1>7, <2>2 DEF RateInv, RateTypeOK, Enter
<1>9. RowComplete'
  BY <1>1, <1>2, <1>4, <1>5 DEF RowComplete
<1>10. StampsRise'
  <2> SUFFICES ASSUME NEW i \in 1 .. n + 1, NEW j \in 1 .. n + 1, i <= j
               PROVE  stamps'[i] <= stamps'[j]
    BY <1>2 DEF StampsRise
  <2>1. CASE j = n + 1 /\ i \in 1 .. n
    BY <1>1, <1>2, <1>3, <2>1
  <2>2. CASE j = n + 1 /\ i = n + 1
    BY <1>1, <1>2, <2>2
  <2>3. CASE j \in 1 .. n
    <3>1. i \in 1 .. n
      BY <1>1, <2>3
    <3> QED
      BY <1>1, <1>2, <2>3, <3>1 DEF RateInv, StampsRise
  <2> QED
    BY <1>1, <2>1, <2>2, <2>3
<1>11. EntriesKeepTheirDistance'
  <2>1. ASSUME NEW i \in 1 .. n
        PROVE  /\ i > 1 => stamps'[i] - stamps'[i - 1] >= Spacing
               /\ Cardinality(InWindow(i, Hour)') <= HourlyLimit
               /\ Cardinality(InWindow(i, Day)') <= DailyLimit
    <3>1. InWindow(i, Hour)' = InWindow(i, Hour) /\ InWindow(i, Day)' = InWindow(i, Day)
      <4>1. \A j \in 1 .. i : j \in 1 .. n
        BY <1>1
      <4>2. stamps'[i] = stamps[i] /\ \A j \in 1 .. i : stamps'[j] = stamps[j]
        BY <1>2, <4>1
      <4> QED
        BY <4>2 DEF InWindow
    <3>2. /\ i > 1 => stamps[i] - stamps[i - 1] >= Spacing
          /\ Cardinality(InWindow(i, Hour)) <= HourlyLimit
          /\ Cardinality(InWindow(i, Day)) <= DailyLimit
      BY <1>1 DEF RateInv, EntriesKeepTheirDistance
    <3>3. i > 1 => stamps'[i] = stamps[i] /\ stamps'[i - 1] = stamps[i - 1]
      <4>1. i > 1 => i - 1 \in 1 .. n
        BY <1>1
      <4> QED
        BY <1>2, <4>1
    <3> QED
      BY <3>1, <3>2, <3>3
  <2>2. /\ n + 1 > 1 => stamps'[n + 1] - stamps'[n + 1 - 1] >= Spacing
        /\ Cardinality(InWindow(n + 1, Hour)') <= HourlyLimit
        /\ Cardinality(InWindow(n + 1, Day)') <= DailyLimit
    <3>1. n + 1 > 1 => stamps'[n + 1] - stamps'[n + 1 - 1] >= Spacing
      <4>1. n + 1 > 1 => n \in 1 .. n /\ n + 1 - 1 = n
        BY <1>1
      <4> QED
        BY <1>2, <1>3, <4>1
    <3>1a. \A j \in 1 .. n + 1 : j = n + 1 \/ (j \in 1 .. n /\ stamps'[j] = stamps[j])
      BY <1>1, <1>2
    <3>2. InWindow(n + 1, Day)' \subseteq Recent \union {n + 1}
      BY <1>2, <1>5, <3>1a DEF InWindow
    <3>3. InWindow(n + 1, Hour)' \subseteq Within(Recent, Hour) \union {n + 1}
      <4> SUFFICES ASSUME NEW j \in 1 .. n, stamps[j] > ticks - Hour
                   PROVE  j \in Within(Recent, Hour)
        BY <1>2, <3>1a DEF InWindow
      <4>1. stamps[j] > ticks - Day
        BY <1>1, <1>3
      <4> QED
        BY <1>5, <4>1 DEF Within
    <3>4. IsFiniteSet(Within(Recent, Hour)) /\ Cardinality(Within(Recent, Hour)) < HourlyLimit
      BY <1>6, FS_Subset DEF Within, Enter, RateAllows
    <3>5. Cardinality(InWindow(n + 1, Day)') <= DailyLimit
      BY <1>1, <1>6, <3>2, CountsInWindow
    <3>6. Cardinality(InWindow(n + 1, Hour)') <= HourlyLimit
      BY <1>1, <3>3, <3>4, CountsInWindow
    <3> QED
      BY <3>1, <3>5, <3>6
  <2>3. \A i \in DOMAIN stamps' : i \in 1 .. n \/ i = n + 1
    BY <1>1, <1>2
  <2> QED
    BY <2>1, <2>2, <2>3 DEF EntriesKeepTheirDistance
<1> QED
  BY <1>8, <1>9, <1>10, <1>11 DEF RateInv

\* Every step keeps the distances.
LEMMA NextKeepsRate == RateInv /\ [RateNext]_rateVars => RateInv'
<1> SUFFICES ASSUME RateInv, [RateNext]_rateVars
             PROVE  RateInv'
  OBVIOUS
<1>1. CASE Enter
  BY <1>1, EnterKeepsRate
<1>2. CASE \/ LossesKill \/ Degrade \/ CloseTrade \/ Reset \/ Unpause \/ Stop \/ Turn
           \/ UNCHANGED rateVars
  <2>1. UNCHANGED <<entries, stamps>>
    BY <1>2 DEF LossesKill, Degrade, CloseTrade, Reset, Unpause, Stop, Turn, rateVars
  <2>2. RateTypeOK'
    <3>1. /\ ticks' \in 0 .. MaxTicks /\ lastExit' \in 0 .. MaxTicks
          /\ open' \in BOOLEAN /\ kill' \in BOOLEAN /\ pause' \in BOOLEAN
      BY <1>2 DEF RateInv, RateTypeOK, LossesKill, Degrade, CloseTrade, Reset, Unpause, Stop, Turn, rateVars
    <3>2. losses' \in 0 .. LossLimit
      BY <1>2, RateAssumption
         DEF RateInv, RateTypeOK, LossesKill, Degrade, CloseTrade, Reset, Unpause, Stop, Turn, rateVars
    <3> QED
      BY <2>1, <3>1, <3>2 DEF RateInv, RateTypeOK
  <2>3. RowComplete' /\ StampsRise' /\ EntriesKeepTheirDistance'
    BY <2>1 DEF RateInv, RowComplete, StampsRise, EntriesKeepTheirDistance, InWindow
  <2> QED
    BY <2>2, <2>3 DEF RateInv
<1> QED
  BY <1>1, <1>2 DEF RateNext

\* For all windows and limits, however often the row is pruned and wherever the clock is set:
\* the spacing is kept and no window has more than its limit (risk.py:152,
\* EntriesKeepTheirDistance).
THEOREM DistanceIsKept == RateSpec => []EntriesKeepTheirDistance
<1>1. RateInv => EntriesKeepTheirDistance
  BY DEF RateInv
<1> QED
  BY <1>1, InitRate, NextKeepsRate, PTL DEF RateSpec

-----------------------------------------------------------------------------
(* The loss limits                                                         *)

\* All the marks there have been.
History == Seq(Days \X Equities)

\* The row b says of a history of marks what BeyondLimit asks of the history itself.
Tells(b, seq) ==
  IF Positive(seq) = {} THEN b = NoBaseline
  ELSE /\ b.session = seq[Min(Positive(seq))][2]
       /\ b.opening = OpeningOf(seq)
       /\ b.day = seq[Max(Positive(seq))][1] /\ b.last = seq[Max(Positive(seq))][2]
       /\ \A i \in Positive(seq) : seq[i][2] <= b.peak

\* LossesStopEntries is not inductive: the row has to tell of the marks that are gone.
LimitInv ==
  /\ LimitTypeOK
  /\ Tells(baseline, marks)
  /\ LossesStopEntries

\* One more mark.
Marked(seq, day, equity, next) == next = Append(seq, <<day, equity>>)

\* A mark is appended: what the others were does not change.
LEMMA MarkAppends ==
  ASSUME NEW seq \in History, NEW day \in Days, NEW equity \in Equities,
         NEW next, Marked(seq, day, equity, next)
  PROVE  /\ next \in History /\ Len(next) = Len(seq) + 1 /\ Len(seq) \in Nat
         /\ next[Len(next)][1] = day /\ next[Len(next)][2] = equity
         /\ \A i \in DOMAIN seq : next[i] = seq[i] /\ seq[i][1] \in Nat /\ seq[i][2] \in Int
         /\ DOMAIN seq \in SUBSET Int /\ \A i \in DOMAIN seq : i < Len(next)
         /\ Positive(seq) \subseteq DOMAIN seq
         /\ equity <= 0 => Positive(next) = Positive(seq)
         /\ equity > 0 => Positive(next) = Positive(seq) \union {Len(next)}
<1>1. <<day, equity>> \in Days \X Equities /\ Len(seq) \in Nat /\ DOMAIN seq = 1 .. Len(seq)
  BY DEF History
<1>2. /\ next \in History /\ Len(next) = Len(seq) + 1 /\ DOMAIN next = 1 .. Len(seq) + 1
      /\ next[Len(seq) + 1] = <<day, equity>> /\ \A i \in 1 .. Len(seq) : next[i] = seq[i]
  BY <1>1, AppendProperties DEF History, Marked
<1>3. \A i \in DOMAIN seq : seq[i][1] \in Nat /\ seq[i][2] \in Int
  <2> SUFFICES ASSUME NEW i \in DOMAIN seq
               PROVE  seq[i][1] \in Nat /\ seq[i][2] \in Int
    OBVIOUS
  <2>1. seq[i] \in Days \X Equities
    BY <1>1, ElementOfSeq DEF History
  <2> QED
    BY <2>1, EquityAssumption
<1>4. equity \in Int
  BY EquityAssumption
<1>5. \A i : i \in DOMAIN next <=> i \in DOMAIN seq \/ i = Len(next)
  BY <1>1, <1>2
<1>6. \A i \in DOMAIN seq : next[i] = seq[i] /\ i < Len(next)
  BY <1>1, <1>2
<1>7. next[Len(next)][1] = day /\ next[Len(next)][2] = equity
  BY <1>2
<1>8. Positive(seq) \subseteq DOMAIN seq
  BY DEF Positive
<1>9. equity <= 0 => Positive(next) = Positive(seq)
  BY <1>4, <1>5, <1>6, <1>7 DEF Positive
<1>10. equity > 0 => Positive(next) = Positive(seq) \union {Len(next)}
  BY <1>5, <1>6, <1>7 DEF Positive
<1> QED
  BY <1>1, <1>2, <1>3, <1>6, <1>7, <1>8, <1>9, <1>10

\* The first, the last and every other mark a loss is measured from.
LEMMA PositivesSpan ==
  ASSUME NEW seq \in History, NEW S \in SUBSET Positive(seq), S # {}
  PROVE  /\ S \in SUBSET Int
         /\ Min(S) \in S /\ Max(S) \in S
         /\ \A i \in S : Min(S) <= i /\ i <= Max(S)
<1>1. Len(seq) \in Nat /\ S \in SUBSET (0 .. Len(seq)) /\ S \in SUBSET Nat
  BY DEF History, Positive
<1>2. Max(S) \in S /\ \A i \in S : Max(S) >= i
  BY <1>1, MaxIn
<1>3. Min(S) \in S /\ \A i \in S : Min(S) <= i
  BY <1>1, MinIn
<1>4. Max(S) \in Int /\ \A i \in S : i \in Int
  <2>1. \A i \in S : i \in Nat
    BY <1>1
  <2> QED
    BY <1>2, <2>1
<1>5. \A i \in S : i <= Max(S)
  BY <1>2, <1>4
<1> QED
  BY <1>1, <1>2, <1>3, <1>4, <1>5

\* The marks of other days than that of the last one.
Others(seq) == {i \in Positive(seq) : seq[i][1] # seq[Max(Positive(seq))][1]}

\* OpeningOf, by the marks of other days.
LEMMA OpeningIs ==
  ASSUME NEW seq
  PROVE  OpeningOf(seq) = seq[IF Others(seq) = {} THEN Min(Positive(seq)) ELSE Max(Others(seq))][2]
BY DEF OpeningOf, Others

\* A mark of nothing or less is no mark that a loss is measured from.
LEMMA WorthlessMark ==
  ASSUME NEW seq \in History, NEW day \in Days, NEW equity \in Equities, equity <= 0,
         NEW next, Marked(seq, day, equity, next),
         NEW b, Tells(b, seq)
  PROVE  Tells(b, next)
<1>1. /\ Positive(next) = Positive(seq) /\ Positive(seq) \subseteq DOMAIN seq
      /\ \A i \in DOMAIN seq : next[i] = seq[i]
  BY MarkAppends
<1>2. CASE Positive(seq) # {}
  <2>1. /\ Min(Positive(seq)) \in DOMAIN seq /\ Max(Positive(seq)) \in DOMAIN seq
        /\ Others(seq) # {} => Max(Others(seq)) \in DOMAIN seq
    <3>1. Others(seq) \in SUBSET Positive(seq)
      BY DEF Others
    <3> QED
      BY <1>1, <1>2, <3>1, PositivesSpan
  <2>2. Others(next) = Others(seq)
    BY <1>1, <2>1 DEF Others
  <2>3. OpeningOf(next) = OpeningOf(seq)
    BY <1>1, <2>1, <2>2, OpeningIs
  <2> QED
    BY <1>1, <1>2, <2>1, <2>3 DEF Tells
<1> QED
  BY <1>1, <1>2 DEF Tells

\* The row after a mark tells of the history with the mark.
LEMMA MarkIsTold ==
  ASSUME NEW seq \in History, NEW day \in Days, NEW equity \in Equities, equity > 0,
         NEW next, Marked(seq, day, equity, next),
         Tells(baseline, seq), LimitTypeOK
  PROVE  Tells(Observed(day, equity), next)
<1> DEFINE b == Observed(day, equity)
           n == Len(next)
           P == Positive(seq)
<1> HIDE DEF b, n, P
<1>1. /\ Positive(next) = P \union {n} /\ P \subseteq DOMAIN seq
      /\ \A i \in DOMAIN seq : next[i] = seq[i] /\ seq[i][1] \in Nat /\ seq[i][2] \in Int
      /\ n \in Int /\ \A i \in P : i \in Int /\ i < n
      /\ next[n][1] = day /\ next[n][2] = equity /\ equity \in Int
  <2>1. /\ Positive(next) = P \union {n} /\ P \subseteq DOMAIN seq
        /\ \A i \in DOMAIN seq : next[i] = seq[i] /\ seq[i][1] \in Nat /\ seq[i][2] \in Int
        /\ Len(seq) \in Nat /\ n = Len(seq) + 1
        /\ DOMAIN seq \in SUBSET Int /\ \A i \in DOMAIN seq : i < n
        /\ next[n][1] = day /\ next[n][2] = equity
    BY MarkAppends DEF n, P
  <2> QED
    BY <2>1, EquityAssumption
<1>2. Max(Positive(next)) = n
  BY <1>1, MaxIsBound
<1>3. CASE P = {}
  <2>1. Min(Positive(next)) = n
    BY <1>1, <1>3, MinIsBound
  <2>2. Others(next) = {}
    BY <1>1, <1>2, <1>3 DEF Others
  <2>3. OpeningOf(next) = equity
    BY <1>1, <2>1, <2>2, OpeningIs
  <2>4. /\ b.session = equity /\ b.peak = equity /\ b.opening = equity
        /\ b.day = day /\ b.last = equity
    BY <1>1, <1>3 DEF Tells, Observed, First, b, P
  <2> QED
    <3>1. \A i \in Positive(next) : next[i][2] <= b.peak
      BY <1>1, <1>3, <2>4
    <3> QED
      BY <1>1, <1>2, <1>3, <2>1, <2>3, <2>4, <3>1 DEF Tells, b
<1>4. CASE P # {}
  <2>1. /\ Min(P) \in P /\ Max(P) \in P /\ Max(P) \in Int
        /\ \A i \in P : Min(P) <= i /\ i <= Max(P)
    <3>1. P \in SUBSET Positive(seq)
      BY DEF P
    <3> QED
      BY <1>4, <3>1, PositivesSpan
  <2>2. Min(Positive(next)) = Min(P)
    <3>1. Positive(next) \in SUBSET Int /\ Min(P) \in Positive(next)
      BY <1>1, <2>1
    <3>2. \A y \in Positive(next) : Min(P) <= y
      BY <1>1, <2>1
    <3> QED
      BY <3>1, <3>2, MinIsBound
  <2>3. /\ baseline.session = seq[Min(P)][2] /\ baseline.opening = OpeningOf(seq)
        /\ baseline.day = seq[Max(P)][1] /\ baseline.last = seq[Max(P)][2]
        /\ \A i \in P : seq[i][2] <= baseline.peak
    BY <1>4 DEF Tells, P
  <2>4. baseline # NoBaseline
    <3>1. baseline.last > 0
      BY <2>1, <2>3 DEF Positive, P
    <3> QED
      BY <3>1 DEF NoBaseline
  <2>5. /\ b.session = baseline.session /\ b.day = day /\ b.last = equity
        /\ b.peak = IF equity > baseline.peak THEN equity ELSE baseline.peak
        /\ b.opening = IF baseline.day = day THEN baseline.opening ELSE baseline.last
    BY <2>4 DEF Observed, NewDay, LimitTypeOK, b
  <2>6. OpeningOf(next) = b.opening
    <3>1. Others(next) = {i \in P : seq[i][1] # day}
      BY <1>1, <1>2 DEF Others
    <3>2. CASE baseline.day = day
      <4>1. Others(next) = Others(seq)
        BY <2>3, <3>1, <3>2 DEF Others, P
      <4>2. Others(seq) # {} => Max(Others(seq)) \in P
        <5>1. Others(seq) \in SUBSET Positive(seq) /\ Others(seq) \subseteq P
          BY DEF Others, P
        <5> QED
          BY <5>1, PositivesSpan
      <4> QED
        BY <1>1, <2>1, <2>2, <2>3, <2>5, <3>2, <4>1, <4>2, OpeningIs DEF P
    <3>3. CASE baseline.day # day
      <4>1. Max(P) \in Others(next) /\ Others(next) \subseteq P
        BY <2>1, <2>3, <3>1, <3>3
      <4>2. Max(Others(next)) = Max(P)
        BY <1>1, <2>1, <4>1, MaxIsBound
      <4> QED
        BY <1>1, <2>1, <2>3, <2>5, <3>3, <4>1, <4>2, OpeningIs
    <3> QED
      BY <3>2, <3>3
  <2>7. \A i \in Positive(next) : next[i][2] <= b.peak
    <3> SUFFICES ASSUME NEW i \in Positive(next)
                 PROVE  next[i][2] <= b.peak
      OBVIOUS
    <3>1. baseline.peak \in Int
      BY DEF LimitTypeOK
    <3>2. CASE i \in P
      BY <1>1, <2>3, <2>5, <3>1, <3>2
    <3>3. CASE i = n
      BY <1>1, <2>5, <3>1, <3>3
    <3> QED
      BY <1>1, <3>2, <3>3
  <2> QED
    BY <1>1, <1>2, <2>1, <2>2, <2>3, <2>5, <2>6, <2>7 DEF Tells, b, P, n
<1> QED
  BY <1>3, <1>4

\* A loss by the history of the marks is one by the row.
LEMMA BreachesAreSeen ==
  ASSUME NEW seq \in History, Positive(seq) # {}, NEW b, Tells(b, seq), b.peak \in Int,
         seq[Len(seq)][2] = b.last, b.last \in Nat, b.last > 0, BeyondLimit(seq)
  PROVE  Breached(b)
<1> DEFINE equity == b.last
<1>1. \A i \in Positive(seq) : seq[i][2] \in Int /\ seq[i][2] <= b.peak
  <2> SUFFICES ASSUME NEW i \in Positive(seq)
               PROVE  seq[i][2] \in Int /\ seq[i][2] <= b.peak
    OBVIOUS
  <2>1. seq[i] \in Days \X Equities
    BY ElementOfSeq DEF Positive, History
  <2> QED
    BY <2>1, EquityAssumption DEF Tells
<1>2. CASE Loses(OpeningOf(seq), equity, DailyLoss)
  BY <1>2 DEF Tells, Breached
<1>3. CASE Loses(seq[Min(Positive(seq))][2], equity, SessionLoss)
  BY <1>3 DEF Tells, Breached
<1>4. ASSUME NEW i \in Positive(seq), Loses(seq[i][2], equity, Drawdown)
      PROVE  Loses(b.peak, equity, Drawdown)
  <2>1. Drawdown \in 1 .. 100
    BY LimitAssumption
  <2>2. \A s, p, d, e \in Int :
          s <= p /\ 1 <= d /\ d <= 100 /\ (s - e) * 100 >= d * s => (p - e) * 100 >= d * p
    <3> SUFFICES ASSUME NEW s \in Int, NEW p \in Int, NEW d \in Int, NEW e \in Int,
                        s <= p, d <= 100, (s - e) * 100 >= d * s
                 PROVE  (p - e) * 100 >= d * p
      OBVIOUS
    <3>1. (100 - d) * (p - s) >= 0
      <4>1. \A x, y \in Nat : x * y >= 0
        OBVIOUS
      <4>2. 100 - d \in Nat /\ p - s \in Nat
        OBVIOUS
      <4> QED
        BY <4>1, <4>2
    <3>2. (100 - d) * (p - s) = 100 * p - 100 * s - d * p + d * s
      OBVIOUS
    <3> QED
      BY <3>1, <3>2
  <2>3. /\ seq[i][2] \in Int /\ b.peak \in Int /\ Drawdown \in Int /\ equity \in Int
        /\ seq[i][2] <= b.peak /\ 1 <= Drawdown /\ Drawdown <= 100
    BY <1>1, <2>1
  <2>4. (seq[i][2] - equity) * 100 >= Drawdown * seq[i][2]
    BY <1>4 DEF Loses
  <2> HIDE DEF equity
  <2>5. (b.peak - equity) * 100 >= Drawdown * b.peak
    BY <2>2, <2>3, <2>4
  <2> QED
    BY <2>5 DEF Loses
<1> QED
  BY <1>2, <1>3, <1>4 DEF BeyondLimit, Breached

-----------------------------------------------------------------------------
\* No mark yet.
LEMMA InitLimits == LimitInit => LimitInv
<1> SUFFICES ASSUME LimitInit
             PROVE  LimitInv
  OBVIOUS
<1>1. marks \in History /\ Positive(marks) = {}
  BY DEF LimitInit, History, Positive
<1>2. latched \in BOOLEAN /\ stopped \in BOOLEAN /\ owed \in BOOLEAN /\ entered \in BOOLEAN
  BY Zenon DEF LimitInit
<1>3. LimitTypeOK
  BY <1>1, <1>2 DEF LimitInit, LimitTypeOK, NoBaseline, History
<1>4. LossesStopEntries
  BY DEF LimitInit, LossesStopEntries, LossesAreLatched, NoEntryBeyondLimits
<1> QED
  BY <1>1, <1>3, <1>4 DEF LimitInit, LimitInv, Tells

\* The types of the row after a mark.
LEMMA ObservedTyped ==
  ASSUME LimitTypeOK, NEW day \in Days, NEW equity \in Equities, equity > 0,
         NEW b, b = Observed(day, equity)
  PROVE  /\ b \in [session : Nat, peak : Nat, opening : Nat, day : {0} \union Days, last : Nat]
         /\ b.last <= b.peak /\ b.session <= b.peak /\ b.last = equity
<1>1. equity \in Nat
  BY EquityAssumption
<1> DEFINE c == IF baseline = NoBaseline THEN First(day, equity) ELSE NewDay(baseline, day, equity)
           peak == IF equity > c.peak THEN equity ELSE c.peak
<1>2. /\ c \in [session : Nat, peak : Nat, opening : Nat, day : {0} \union Days, last : Nat]
      /\ c.session <= c.peak
  <2>1. CASE baseline = NoBaseline
    BY <1>1, <2>1 DEF First
  <2>2. CASE baseline # NoBaseline
    BY <2>2 DEF NewDay, LimitTypeOK
  <2> QED
    BY <2>1, <2>2
<1>3. b = [c EXCEPT !.peak = peak, !.last = equity]
  BY DEF Observed
<1> HIDE DEF c
<1>4. peak \in Nat /\ equity <= peak /\ c.session <= peak
  BY <1>1, <1>2
<1> HIDE DEF peak
<1>5. /\ b \in [session : Nat, peak : Nat, opening : Nat, day : {0} \union Days, last : Nat]
      /\ b.peak = peak /\ b.last = equity /\ b.session = c.session
  BY <1>1, <1>2, <1>3, <1>4
<1> QED
  BY <1>4, <1>5

\* A mark keeps the invariant: what is beyond a limit latches.
LEMMA MarkKeepsLimits ==
  ASSUME LimitInv, MarketEvent
  PROVE  LimitInv'
<1> PICK day \in Days, equity \in Equities :
      /\ ObserveEquity(day, equity)
      /\ marks' = Append(marks, <<day, equity>>)
      /\ owed' = (owed \/ BeyondLimit(marks'))
  BY DEF MarketEvent
<1>1. marks \in History /\ Marked(marks, day, equity, marks') /\ equity \in Int
  BY EquityAssumption DEF LimitInv, LimitTypeOK, History, Marked
<1>2. marks' \in History /\ marks'[Len(marks')][2] = equity
  BY <1>1, MarkAppends
<1>3. latched \in BOOLEAN /\ stopped \in BOOLEAN /\ owed \in BOOLEAN
  BY DEF LimitInv, LimitTypeOK
<1>4. owed' \in BOOLEAN /\ entered' \in BOOLEAN
  <2>1. BeyondLimit(marks') \in BOOLEAN
    BY DEF BeyondLimit
  <2> QED
    BY <1>3, <2>1, Zenon DEF MarketEvent
<1>5. CASE equity <= 0
  <2>1. latched' = TRUE /\ stopped' = TRUE /\ baseline' = baseline
    BY <1>5 DEF ObserveEquity
  <2>2. Tells(baseline, marks')
    BY <1>1, <1>5, WorthlessMark DEF LimitInv
  <2>3. LimitTypeOK'
    BY <1>2, <1>4, <2>1 DEF LimitInv, LimitTypeOK, History
  <2>4. LossesStopEntries'
    BY <2>1 DEF MarketEvent, LossesStopEntries, LossesAreLatched, NoEntryBeyondLimits
  <2> QED
    BY <2>1, <2>2, <2>3, <2>4 DEF LimitInv, Tells
<1>6. CASE equity > 0
  <2>1. /\ baseline' = Observed(day, equity)
        /\ latched' = (latched \/ Breached(baseline'))
        /\ stopped' = (stopped \/ Breached(baseline'))
    BY <1>1, <1>6 DEF ObserveEquity
  <2>2. Tells(baseline', marks')
    BY <1>1, <1>6, <2>1, MarkIsTold DEF LimitInv
  <2>3. /\ baseline' \in [session : Nat, peak : Nat, opening : Nat, day : {0} \union Days, last : Nat]
        /\ baseline'.last <= baseline'.peak /\ baseline'.session <= baseline'.peak
        /\ baseline'.last = equity
    BY <1>6, <2>1, ObservedTyped DEF LimitInv
  <2>4. Breached(baseline') \in BOOLEAN
    BY DEF Breached, Loses
  <2>5. LimitTypeOK'
    <3>1. latched' \in BOOLEAN /\ stopped' \in BOOLEAN
      BY <1>3, <2>1, <2>4, Zenon
    <3> QED
      BY <1>2, <1>4, <2>3, <3>1 DEF LimitTypeOK, History
  <2>6. BeyondLimit(marks') => Breached(baseline')
    <3>1. Positive(marks') # {}
      <4>1. Positive(marks') = Positive(marks) \union {Len(marks')}
        BY <1>1, <1>6, MarkAppends
      <4> QED
        BY <4>1
    <3>2. baseline'.peak \in Int /\ baseline'.last \in Nat /\ baseline'.last > 0
      BY <1>6, <2>3
    <3>3. marks'[Len(marks')][2] = baseline'.last
      BY <1>2, <2>3
    <3> QED
      BY <1>2, <2>2, <3>1, <3>2, <3>3, BreachesAreSeen
  <2>7. LossesAreLatched'
    BY <1>3, <2>1, <2>6, Zenon DEF LimitInv, LossesStopEntries, LossesAreLatched
  <2>8. NoEntryBeyondLimits'
    <3>1. entered' => ~Breached(baseline')
      BY <2>1, Zenon DEF MarketEvent
    <3>2. BeyondLimit(marks)' <=> BeyondLimit(marks')
      BY DEF BeyondLimit, OpeningOf, Positive
    <3> QED
      BY <2>6, <3>1, <3>2, Zenon DEF NoEntryBeyondLimits
  <2> QED
    BY <2>2, <2>5, <2>7, <2>8 DEF LimitInv, LossesStopEntries, Tells
<1> QED
  BY <1>1, <1>5, <1>6

\* Every step keeps what the row tells.
LEMMA NextKeepsLimits == LimitInv /\ [LimitNext]_limitVars => LimitInv'
<1> SUFFICES ASSUME LimitInv, [LimitNext]_limitVars
             PROVE  LimitInv'
  OBVIOUS
<1>1. CASE MarketEvent
  BY <1>1, MarkKeepsLimits
<1>2. CASE ResetKill \/ Resume \/ OtherKill \/ UNCHANGED limitVars
  <2>1. baseline' = baseline /\ marks' = marks /\ entered' = entered
    BY <1>2 DEF ResetKill, Resume, OtherKill, limitVars
  <2>2. latched' \in BOOLEAN /\ stopped' \in BOOLEAN /\ owed' \in BOOLEAN
    BY <1>2, Zenon DEF ResetKill, Resume, OtherKill, limitVars, LimitInv, LimitTypeOK
  <2>3. LimitTypeOK'
    BY <2>1, <2>2 DEF LimitInv, LimitTypeOK
  <2>4. LossesAreLatched'
    BY <1>2
    DEF ResetKill, Resume, OtherKill, limitVars, LimitInv, LossesStopEntries, LossesAreLatched
  <2>5. NoEntryBeyondLimits' /\ Tells(baseline, marks)'
    BY <2>1 DEF LimitInv, LossesStopEntries, NoEntryBeyondLimits
  <2> QED
    BY <2>3, <2>4, <2>5 DEF LimitInv, LossesStopEntries
<1> QED
  BY <1>1, <1>2 DEF LimitNext

\* For all limits, days and equities: a loss beyond a limit is latched until an operator
\* resets it, and nothing is entered on a mark that is beyond a limit (risk.py:28).
THEOREM LossesStayLatched == LimitSpec => []LossesStopEntries
<1>1. LimitInv => LossesStopEntries
  BY DEF LimitInv
<1> QED
  BY <1>1, InitLimits, NextKeepsLimits, PTL DEF LimitSpec

-----------------------------------------------------------------------------
(* The exits                                                               *)
(*                                                                         *)
(* That the two peaks agree at a decision follows from what the row says   *)
(* between decisions: it is the highest price of the position it names,    *)
(* and it never names a position that has not been bought yet.             *)

RowIsHighest ==
  entry # 0 =>
    /\ best \in Bids /\ paid \in Bids /\ paid <= best
    /\ IF peakRow.entry = entry THEN peakRow.price = best ELSE best = paid

RowIsOfThePast == peakRow.entry <= entryNo

ExitInv == ExitTypeOK /\ DecidesAtTheHighest /\ RowIsHighest /\ RowIsOfThePast

\* The peak of a decision, by the row or without it, is the highest price since the entry.
LEMMA PeakIsBest ==
  ASSUME ExitInv, entry # 0, NEW bid \in Bids
  PROVE  /\ Peak(bid) = Highest(best, bid)
         /\ Highest(best, bid) \in Bids /\ paid <= Highest(best, bid)
  BY BidAssumption
  DEF ExitInv, ExitTypeOK, RowIsHighest, Peak, Highest

LEMMA ExitInitial == ExitInit => ExitInv
<1> SUFFICES ASSUME ExitInit PROVE ExitInv OBVIOUS
<1>1. ExitTypeOK
  <2>1. leaves \in BOOLEAN /\ asked \in BOOLEAN /\ urged \in BOOLEAN
    BY DEF ExitInit
  <2>2. peakRow \in [entry : 0 .. MaxEntries, price : {0} \union Bids]
    BY RuleAssumption DEF ExitInit, NoPeak
  <2>3. entryNo \in 0 .. MaxEntries /\ entry \in {0, entryNo}
    BY RuleAssumption DEF ExitInit
  <2>. QED BY <2>1, <2>2, <2>3 DEF ExitInit, ExitTypeOK
<1>2. DecidesAtTheHighest
  BY Zenon DEF ExitInit, DecidesAtTheHighest
<1>3. RowIsHighest /\ RowIsOfThePast
  BY DEF ExitInit, RowIsHighest, RowIsOfThePast, NoPeak
<1>. QED BY <1>1, <1>2, <1>3 DEF ExitInv

LEMMA ExitStep == ExitInv /\ [ExitNext]_exitVars => ExitInv'
<1> SUFFICES ASSUME ExitInv, [ExitNext]_exitVars PROVE ExitInv' OBVIOUS
<1> USE RuleAssumption, BidAssumption
<1>1. CASE Buy
  <2>1. entryNo' = entryNo + 1 /\ entry' = entryNo' /\ entryNo' \in 0 .. MaxEntries
    BY <1>1 DEF Buy, ExitInv, ExitTypeOK
  <2>2. peakRow' = peakRow /\ peakRow.entry # entry' /\ RowIsOfThePast'
    BY <1>1, <2>1 DEF Buy, ExitInv, ExitTypeOK, RowIsOfThePast
  <2>3. paid' \in Bids /\ best' = paid' /\ paid' <= best'
    BY <1>1 DEF Buy
  <2>4. ExitTypeOK' /\ DecidesAtTheHighest'
    BY <1>1, <2>1, <2>3 DEF Buy, ExitInv, ExitTypeOK, DecidesAtTheHighest
  <2>. QED BY <2>1, <2>2, <2>3, <2>4 DEF ExitInv, RowIsHighest
<1>2. CASE Decide
  <2> PICK bid \in Bids, stop \in Stops, costs \in CostRates :
        /\ best' = Highest(best, bid)
        /\ asked' = Leaves(bid, best', stop, costs)
        /\ urged' \in BOOLEAN
        /\ leaves' = (Leaves(bid, Peak(bid), stop, costs) \/ urged')
        /\ peakRow' = [entry |-> entry, price |-> Peak(bid)]
    BY <1>2 DEF Decide
  <2>1. entry # 0 /\ UNCHANGED <<entry, paid, entryNo>>
    BY <1>2 DEF Decide
  <2>2. Peak(bid) = best' /\ best' \in Bids /\ paid <= best'
    BY <2>1, PeakIsBest
  <2>3. asked' \in BOOLEAN /\ leaves' = (asked' \/ urged')
    BY <2>2 DEF Leaves
  <2>4. ExitTypeOK'
    BY <2>1, <2>2, <2>3 DEF ExitInv, ExitTypeOK
  <2>5. RowIsHighest' /\ RowIsOfThePast'
    BY <2>1, <2>2 DEF ExitInv, ExitTypeOK, RowIsHighest, RowIsOfThePast
  <2>. QED BY <2>3, <2>4, <2>5 DEF ExitInv, DecidesAtTheHighest
<1>3. CASE Sold
  BY <1>3
  DEF Sold, ExitInv, ExitTypeOK, DecidesAtTheHighest, RowIsHighest, RowIsOfThePast
<1>4. CASE UNCHANGED exitVars
  BY <1>4
  DEF exitVars, ExitInv, ExitTypeOK, DecidesAtTheHighest, RowIsHighest, RowIsOfThePast
<1>. QED BY <1>1, <1>2, <1>3, <1>4 DEF ExitNext

\* The row and the history of prices agree in every reachable state.
LEMMA ExitSafe == ExitSpec => []ExitInv
  BY ExitInitial, ExitStep, PTL DEF ExitSpec

\* Whatever the prices do, with whatever limits and fees, a decision to leave a position
\* or to keep it is the one the rules make at the highest price since its entry.
THEOREM NoGainIsForgotten == ExitSpec => []DecidesAtTheHighest
  BY ExitSafe, PTL DEF ExitInv

-----------------------------------------------------------------------------
(* The labels                                                              *)
(*                                                                         *)
(* Neither fact is inductive: a sample is admitted long after it was       *)
(* taken.  What carries them is what is known of the samples that wait:    *)
(* no loss is younger than a sample, or than its warm-up.                  *)

IsLoss(i) == tape[i].kind = "disconnect"

Chronological == \A i, j \in Places : i <= j => tape[i].at <= tape[j].at

\* The features are as young as the last loss.
FeaturesAreFresh ==
  since # Never => \A k \in Places : IsLoss(k) => tape[k].at <= since

PendingIsClean ==
  \A i \in pending : \A k \in Places :
    IsLoss(k) => k < i /\ tape[k].at + Warmup <= tape[i].at

LastEndIsLast == \A s \in admitted : tape[s.to].at <= lastEnd

LabelInv ==
  /\ LabelTypeOK /\ Chronological
  /\ FeaturesAreFresh /\ PendingIsClean /\ LastEndIsLast
  /\ LabelsAreClean /\ SamplesArePurged

-----------------------------------------------------------------------------
\* An event is appended behind what was read, and is not earlier.
LEMMA ReadAppends ==
  ASSUME LabelTypeOK, Chronological,
         NEW kind \in {"market", "disconnect"}, NEW at \in 0 .. MaxTime, Read(kind, at)
  PROVE  /\ tape' \in Seq([kind : {"market", "disconnect"}, at : Nat])
         /\ Places' = 1 .. Len(tape) + 1 /\ Len(tape) \in Nat
         /\ \A i \in Places : i \in Places' /\ tape'[i] = tape[i]
         /\ tape'[Len(tape) + 1] = [kind |-> kind, at |-> at]
         /\ \A i \in Places : tape[i].at <= at /\ tape[i].at \in Nat
         /\ Chronological'
<1>1. at \in Nat BY TapeAssumption
<1>2. [kind |-> kind, at |-> at] \in [kind : {"market", "disconnect"}, at : Nat]
  BY <1>1
<1>3. tape \in Seq([kind : {"market", "disconnect"}, at : Nat]) /\ Len(tape) \in Nat
  BY DEF LabelTypeOK
<1>4. tape' = Append(tape, [kind |-> kind, at |-> at])
  BY DEF Read
<1>5. tape' \in Seq([kind : {"market", "disconnect"}, at : Nat]) /\ Len(tape') = Len(tape) + 1
  BY <1>2, <1>3, <1>4
<1>6. \A i \in Places : i \in Places' /\ tape'[i] = tape[i]
  BY <1>3, <1>4, <1>5 DEF Places
<1>7. tape'[Len(tape) + 1] = [kind |-> kind, at |-> at]
  BY <1>3, <1>4
<1>8. \A i \in Places : tape[i].at \in Nat
  <2> SUFFICES ASSUME NEW i \in Places PROVE tape[i].at \in Nat OBVIOUS
  <2>1. tape[i] \in [kind : {"market", "disconnect"}, at : Nat]
    BY <1>3, ElementOfSeq DEF Places
  <2>. QED BY <2>1
<1>9. \A i \in Places : tape[i].at <= at
  <2> SUFFICES ASSUME NEW i \in Places PROVE tape[i].at <= at OBVIOUS
  <2>1. tape # <<>> /\ Len(tape) \in Places /\ i <= Len(tape)
    BY <1>3 DEF Places
  <2>2. tape[i].at <= tape[Len(tape)].at /\ tape[Len(tape)].at <= at
    BY <2>1 DEF Read, Chronological
  <2>. QED BY <1>1, <1>8, <2>1, <2>2
<1>10. Places' = 1 .. Len(tape) + 1
  BY <1>5 DEF Places
<1>11. Chronological'
  <2> SUFFICES ASSUME NEW i \in Places', NEW j \in Places', i <= j
               PROVE  tape'[i].at <= tape'[j].at
    BY DEF Chronological
  <2>1. CASE j \in Places
    <3>1. i \in Places BY <1>3, <1>10, <2>1 DEF Places
    <3>. QED BY <1>6, <2>1, <3>1 DEF Chronological
  <2>2. CASE j = Len(tape) + 1
    BY <1>1, <1>6, <1>7, <1>9, <1>10, <1>3, <2>2 DEF Places
  <2>. QED BY <1>3, <1>10, <2>1, <2>2 DEF Places
<1>. QED BY <1>3, <1>5, <1>6, <1>7, <1>8, <1>9, <1>10, <1>11

\* What was admitted stays clean and purged when an event is appended.
LEMMA AdmittedStays ==
  ASSUME LabelInv, NEW kind \in {"market", "disconnect"}, NEW at \in 0 .. MaxTime,
         Read(kind, at), UNCHANGED <<admitted, lastEnd>>
  PROVE  /\ admitted' \subseteq [from : Places', to : Places']
         /\ LabelsAreClean' /\ SamplesArePurged' /\ LastEndIsLast'
<1>1. /\ \A i \in Places : i \in Places' /\ tape'[i] = tape[i]
      /\ Places' = 1 .. Len(tape) + 1 /\ Len(tape) \in Nat
  BY ReadAppends DEF LabelInv
<1>2. \A s \in admitted : s.from \in Places /\ s.to \in Places
  BY DEF LabelInv, LabelTypeOK
<1>3. admitted' \subseteq [from : Places', to : Places']
  BY <1>1 DEF LabelInv, LabelTypeOK
<1>4. LabelsAreClean'
  <2> SUFFICES ASSUME NEW s \in admitted
               PROVE  /\ tape'[s.to].at - tape'[s.from].at \in Horizon .. Horizon + Slack
                      /\ \A i \in 1 .. s.to : tape'[i].kind = "disconnect"
                           => i < s.from /\ tape'[i].at + Warmup <= tape'[s.from].at
    BY DEF LabelsAreClean
  <2>1. \A i \in 1 .. s.to : i \in Places
    BY <1>1, <1>2 DEF Places
  <2>. QED BY <1>1, <1>2, <2>1 DEF LabelInv, LabelsAreClean
<1>5. SamplesArePurged' /\ LastEndIsLast'
  BY <1>1, <1>2 DEF LabelInv, SamplesArePurged, LastEndIsLast
<1>. QED BY <1>3, <1>4, <1>5

-----------------------------------------------------------------------------
LEMMA LabelInitial == LabelInit => LabelInv
<1> SUFFICES ASSUME LabelInit PROVE LabelInv OBVIOUS
<1>1. tape \in Seq([kind : {"market", "disconnect"}, at : Nat]) /\ Places = {}
  BY DEF LabelInit, Places
<1>2. since \in Int /\ lastSample \in Int /\ lastEnd \in Int
  BY LabelAssumption DEF LabelInit, Never
<1>3. LabelTypeOK
  <2>1. valid \in BOOLEAN /\ pending = {} /\ admitted = {}
    BY Zenon DEF LabelInit
  <2>. QED BY <1>1, <1>2, <2>1, Zenon DEF LabelTypeOK
<1>4. Chronological /\ FeaturesAreFresh
  BY <1>1 DEF Chronological, FeaturesAreFresh
<1>5. PendingIsClean /\ LastEndIsLast /\ LabelsAreClean /\ SamplesArePurged
  BY DEF LabelInit, PendingIsClean, LastEndIsLast, LabelsAreClean, SamplesArePurged
<1>. QED BY <1>3, <1>4, <1>5 DEF LabelInv

LEMMA DisconnectKeeps ==
  ASSUME LabelInv, NEW at \in 0 .. MaxTime, Disconnect(at)
  PROVE  LabelInv'
<1>1. Read("disconnect", at) /\ UNCHANGED <<admitted, lastEnd>>
  BY DEF Disconnect
<1>2. tape' \in Seq([kind : {"market", "disconnect"}, at : Nat]) /\ Chronological'
  BY <1>1, ReadAppends DEF LabelInv
<1>3. /\ admitted' \subseteq [from : Places', to : Places']
      /\ LabelsAreClean' /\ SamplesArePurged' /\ LastEndIsLast'
  BY <1>1, AdmittedStays
<1>4. LabelTypeOK'
  <2>1. since' \in Int
    BY DEF Disconnect, Never
  <2>2. /\ valid' \in BOOLEAN /\ pending' = {}
        /\ lastSample' \in Int /\ lastEnd' \in Int
    BY Zenon DEF Disconnect, LabelInv, LabelTypeOK
  <2>. QED BY <1>2, <1>3, <2>1, <2>2, Zenon DEF LabelTypeOK
<1>5. FeaturesAreFresh' /\ PendingIsClean'
  BY DEF Disconnect, FeaturesAreFresh, PendingIsClean
<1>. QED BY <1>2, <1>3, <1>4, <1>5 DEF LabelInv

\* The features are fresh after a market event, and what waits stays clean.
LEMMA MarketKeeps ==
  ASSUME LabelInv, NEW at \in 0 .. MaxTime, Read("market", at),
         since' \in {since, at}, since' = since \/ since = Never
  PROVE  FeaturesAreFresh' /\ \A i \in pending : \A k \in Places' :
           IsLoss(k)' => k < i /\ tape'[k].at + Warmup <= tape'[i].at
<1>1. /\ Places' = 1 .. Len(tape) + 1 /\ Len(tape) \in Nat
      /\ \A i \in Places : tape'[i] = tape[i] /\ tape[i].at <= at
      /\ tape'[Len(tape) + 1].kind = "market"
  <2>1. /\ Places' = 1 .. Len(tape) + 1 /\ Len(tape) \in Nat
        /\ \A i \in Places : tape'[i] = tape[i] /\ tape[i].at <= at
        /\ tape'[Len(tape) + 1] = [kind |-> "market", at |-> at]
    BY ReadAppends, "market" \in {"market", "disconnect"} DEF LabelInv
  <2>. QED BY <2>1
<1>2. \A k \in Places' : IsLoss(k)' => k \in Places /\ IsLoss(k)
  BY <1>1 DEF Places, IsLoss
<1>3. FeaturesAreFresh'
  BY <1>1, <1>2 DEF LabelInv, FeaturesAreFresh, IsLoss
<1>4. \A i \in pending : i \in Places
  BY DEF LabelInv, LabelTypeOK
<1>. QED BY <1>1, <1>2, <1>3, <1>4 DEF LabelInv, PendingIsClean, IsLoss

LEMMA PassKeeps ==
  ASSUME LabelInv, NEW at \in 0 .. MaxTime, Pass(at)
  PROVE  LabelInv'
<1>1. Read("market", at) /\ UNCHANGED <<admitted, lastEnd, pending, lastSample>>
  BY DEF Pass
<1>2. /\ tape' \in Seq([kind : {"market", "disconnect"}, at : Nat]) /\ Chronological'
      /\ \A i \in Places : i \in Places'
  BY <1>1, ReadAppends DEF LabelInv
<1>3. /\ admitted' \subseteq [from : Places', to : Places']
      /\ LabelsAreClean' /\ SamplesArePurged' /\ LastEndIsLast'
  BY <1>1, AdmittedStays
<1>4. since' \in {since, at} /\ (since' = since \/ since = Never)
  BY DEF Pass
<1>5. FeaturesAreFresh' /\ PendingIsClean'
  BY <1>1, <1>4, MarketKeeps DEF PendingIsClean
<1>6. LabelTypeOK'
  <2>1. since' \in Int
    BY <1>4, TapeAssumption DEF LabelInv, LabelTypeOK
  <2>2. valid' \in BOOLEAN /\ lastSample' \in Int /\ lastEnd' \in Int
    BY Zenon DEF Pass, LabelInv, LabelTypeOK
  <2>3. pending' \subseteq Places'
    BY <1>1, <1>2 DEF LabelInv, LabelTypeOK
  <2>. QED BY <1>2, <1>3, <2>1, <2>2, <2>3, Zenon DEF LabelTypeOK
<1>. QED BY <1>2, <1>3, <1>5, <1>6 DEF LabelInv

LEMMA SampleKeeps ==
  ASSUME LabelInv, NEW at \in 0 .. MaxTime, Sample(at)
  PROVE  LabelInv'
<1> DEFINE new == Len(tape) + 1
<1>1. Read("market", at) BY DEF Sample
<1>2. /\ tape' \in Seq([kind : {"market", "disconnect"}, at : Nat]) /\ Chronological'
      /\ Places' = 1 .. new /\ Len(tape) \in Nat
      /\ \A i \in Places : i \in Places' /\ tape'[i] = tape[i]
      /\ tape'[new] = [kind |-> "market", at |-> at]
      /\ \A i \in Places : tape[i].at <= at /\ tape[i].at \in Nat
  BY <1>1, ReadAppends DEF LabelInv
<1>3. at \in Nat /\ new \in Places' /\ new \notin Places
  BY <1>2, TapeAssumption DEF Places
<1>4. since' \in {since, at} /\ (since' = since \/ since = Never) /\ since' # Never
  BY <1>3 DEF Sample, Never
<1>5. FeaturesAreFresh' /\ \A i \in pending : \A k \in Places' :
        IsLoss(k)' => k < i /\ tape'[k].at + Warmup <= tape'[i].at
  BY <1>1, <1>4, MarketKeeps
<1>6. PendingIsClean' /\ pending' \subseteq Places'
  <2>1. pending \subseteq Places'
    BY <1>2 DEF LabelInv, LabelTypeOK
  <2>2. CASE pending' = pending \ Due(at)
    BY <1>5, <2>1, <2>2 DEF PendingIsClean
  <2>3. CASE at - since' >= Warmup /\ pending' = (pending \ Due(at)) \union {new}
    <3>1. \A k \in Places' : IsLoss(k)' => k < new /\ tape'[k].at + Warmup <= tape'[new].at
      <4> SUFFICES ASSUME NEW k \in Places', IsLoss(k)'
                   PROVE  k < new /\ tape'[k].at + Warmup <= tape'[new].at
        OBVIOUS
      <4>1. k \in Places /\ k < new /\ tape'[k].at \in Nat
        BY <1>2 DEF IsLoss, Places
      <4>2. tape'[k].at <= since' /\ since' \in Int
        BY <1>3, <1>4, <1>5 DEF FeaturesAreFresh, LabelInv, LabelTypeOK
      <4>3. tape'[new].at = at BY <1>2
      <4>4. Warmup \in Nat /\ at - since' >= Warmup
        BY <2>3, LabelAssumption
      <4>5. tape'[k].at + Warmup <= at
        <5>1. \A x, y, z, w \in Int : x <= y /\ z - y >= w => x + w <= z
          OBVIOUS
        <5>2. tape'[k].at \in Int /\ at \in Int /\ Warmup \in Int
          BY <1>3, <4>1, <4>4
        <5>. QED BY <5>1, <5>2, <4>2, <4>4
      <4>. QED BY <4>1, <4>3, <4>5
    <3>. QED BY <1>3, <1>5, <2>1, <2>3, <3>1 DEF PendingIsClean
  <2>. QED BY <2>2, <2>3 DEF Sample
<1>7. /\ admitted' \subseteq [from : Places', to : Places'] /\ lastEnd' \in Int
      /\ LabelsAreClean' /\ SamplesArePurged' /\ LastEndIsLast'
  <2>1. CASE UNCHANGED <<admitted, lastEnd>>
    BY <1>1, <2>1, AdmittedStays DEF LabelInv, LabelTypeOK
  <2>2. ASSUME NEW i \in Labelled(at), Admissible(i, at),
               admitted' = admitted \union {[from |-> i, to |-> new]}, lastEnd' = at
        PROVE  /\ admitted' \subseteq [from : Places', to : Places'] /\ lastEnd' \in Int
               /\ LabelsAreClean' /\ SamplesArePurged' /\ LastEndIsLast'
    <3> DEFINE s == [from |-> i, to |-> new]
    <3>1. /\ i \in pending /\ i \in Places /\ i \in Places'
          /\ tape[i].at + Horizon <= at /\ at - tape[i].at <= Horizon + Slack
      BY <1>2, <2>2 DEF Labelled, Due, LabelInv, LabelTypeOK
    <3>2. s.from = i /\ s.to = new /\ tape'[s.to].at = at /\ tape'[s.from].at = tape[i].at
      BY <1>2, <3>1
    <3>3. at < TrainEnd /\ lastEnd < tape[i].at
      BY <2>2 DEF Admissible, LabelInv, LabelTypeOK
    <3>4. \A t \in admitted : /\ t.from \in Places /\ t.to \in Places
                              /\ tape'[t.from] = tape[t.from] /\ tape'[t.to] = tape[t.to]
                              /\ \A k \in 1 .. t.to : k \in Places /\ tape'[k] = tape[k]
      <4>1. \A t \in admitted : t.from \in Places /\ t.to \in Places
        BY DEF LabelInv, LabelTypeOK
      <4>2. \A j \in Places : \A k \in 1 .. j : k \in Places
        BY <1>2 DEF Places
      <4>. QED BY <1>2, <4>1, <4>2
    <3>5. admitted' \subseteq [from : Places', to : Places']
      <4>1. s \in [from : Places', to : Places']
        BY <1>3, <3>1
      <4>2. admitted \subseteq [from : Places', to : Places']
        BY <1>2 DEF LabelInv, LabelTypeOK
      <4>. QED BY <2>2, <4>1, <4>2, Zenon
    <3>6. LabelsAreClean'
      <4>1. /\ tape'[s.to].at - tape'[s.from].at \in Horizon .. Horizon + Slack
            /\ \A k \in 1 .. s.to : tape'[k].kind = "disconnect"
                 => k < s.from /\ tape'[k].at + Warmup <= tape'[s.from].at
        <5>1. at - tape[i].at \in Horizon .. Horizon + Slack
          BY <1>2, <1>3, <3>1, LabelAssumption
        <5>2. \A k \in Places' : tape'[k].kind = "disconnect"
                => k < i /\ tape'[k].at + Warmup <= tape'[i].at
          BY <1>5, <3>1 DEF IsLoss
        <5>. QED BY <1>2, <3>2, <5>1, <5>2
      <4>2. \A t \in admitted :
              /\ tape'[t.to].at - tape'[t.from].at \in Horizon .. Horizon + Slack
              /\ \A k \in 1 .. t.to : tape'[k].kind = "disconnect"
                   => k < t.from /\ tape'[k].at + Warmup <= tape'[t.from].at
        BY <3>4 DEF LabelInv, LabelsAreClean
      <4>. QED BY <2>2, <4>1, <4>2 DEF LabelsAreClean
    <3>7. \A t \in admitted : tape'[t.to].at < tape'[s.from].at /\ tape'[t.to].at <= at
      <4> SUFFICES ASSUME NEW t \in admitted
                   PROVE  tape'[t.to].at < tape'[s.from].at /\ tape'[t.to].at <= at
        OBVIOUS
      <4>1. tape[t.to].at <= lastEnd /\ tape[t.to].at \in Nat /\ lastEnd \in Int
        BY <1>2, <3>4 DEF LabelInv, LastEndIsLast, LabelTypeOK
      <4>2. tape[i].at \in Nat /\ tape[i].at <= at
        BY <1>2, <3>1
      <4>. QED BY <1>3, <3>2, <3>3, <3>4, <4>1, <4>2
    <3>8. SamplesArePurged'
      <4>1. \A t \in admitted' : tape'[t.to].at < TrainEnd
        BY <2>2, <3>2, <3>3, <3>4 DEF LabelInv, SamplesArePurged
      <4>2. \A t, u \in admitted :
              t # u => tape'[t.to].at < tape'[u.from].at \/ tape'[u.to].at < tape'[t.from].at
        BY <3>4 DEF LabelInv, SamplesArePurged
      <4>. QED BY <2>2, <3>7, <4>1, <4>2 DEF SamplesArePurged
    <3>9. LastEndIsLast'
      BY <1>3, <2>2, <3>2, <3>7 DEF LastEndIsLast
    <3>. QED BY <1>3, <2>2, <3>5, <3>6, <3>8, <3>9
  <2>. QED BY <2>1, <2>2 DEF Sample
<1>8. LabelTypeOK'
  <2>1. since' \in Int /\ lastSample' \in Int
    BY <1>3, <1>4 DEF Sample, LabelInv, LabelTypeOK
  <2>2. valid' \in BOOLEAN
    BY Zenon DEF Sample, LabelInv, LabelTypeOK
  <2>. QED BY <1>2, <1>6, <1>7, <2>1, <2>2, Zenon DEF LabelTypeOK
<1>. QED BY <1>2, <1>5, <1>6, <1>7, <1>8 DEF LabelInv

LEMMA LabelStep == LabelInv /\ [LabelNext]_labelVars => LabelInv'
<1> SUFFICES ASSUME LabelInv, [LabelNext]_labelVars PROVE LabelInv' OBVIOUS
<1>1. CASE LabelNext
  BY <1>1, DisconnectKeeps, PassKeeps, SampleKeeps DEF LabelNext
<1>2. CASE UNCHANGED labelVars
  BY <1>2
  DEF labelVars, LabelInv, LabelTypeOK, Chronological, FeaturesAreFresh, PendingIsClean,
      LastEndIsLast, LabelsAreClean, SamplesArePurged, IsLoss, Places
<1>. QED BY <1>1, <1>2

\* The samples that wait are clean in every reachable state, and so are the admitted ones.
LEMMA LabelSafe == LabelSpec => []LabelInv
  BY LabelInitial, LabelStep, PTL DEF LabelSpec

\* On every tape, with every horizon, warm-up and interval: no sample of a model has a loss
\* of the stream in its warm-up or between it and its label.
THEOREM ModelsLearnFromCleanSamples == LabelSpec => []LabelsAreClean
  BY LabelSafe, PTL DEF LabelInv

\* On every tape, for every cutoff: no label of a model is of the cutoff or later, and its
\* samples are disjoint in time.
THEOREM ModelsArePurged == LabelSpec => []SamplesArePurged
  BY LabelSafe, PTL DEF LabelInv

\* A model learns from what the market did before its cutoff: SamplesAreSound.
THEOREM SamplesStaySound == LabelSpec => []SamplesAreSound
BY ModelsLearnFromCleanSamples, ModelsArePurged, PTL DEF SamplesAreSound
=============================================================================
