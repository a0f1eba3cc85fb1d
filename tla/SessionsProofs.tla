--------------------------- MODULE SessionsProofs ---------------------------
(***************************************************************************)
(* What the session log promises for every number of conversations, runs,    *)
(* calls, decisions and faults: its types, that a run's replay begins with   *)
(* what the model was last sent, that a resumed run keeps the work of the    *)
(* one before it and does no send again that came back done, and that        *)
(* "continue" means the run at the end.                                      *)
(***************************************************************************)
EXTENDS Sessions, FlattenProofs, FiniteSetTheorems, TLAPS

RowT == [run : Runs, msgs : Seq(Messages),
         kind : {"prompt", "tool_call", "tool_result", "assistant", "stop", "decision"}]
TurnT == [run : Runs \cup {NoRun}, reason : Reasons, at : Nat]

\* The types, with the domains of the functions.
TypeInv ==
    /\ rows \in [Convs -> Seq(RowT)] /\ turns \in [Convs -> Seq(TurnT)]
    /\ active \in [Convs -> Runs \cup {NoRun}]
    /\ phase \in [Convs -> Reasons \cup {"idle", "turn", "batch", "flush"}]
    /\ messages \in [Convs -> Seq(Messages)] /\ unlogged \in [Convs -> Seq(Messages)]
    /\ batch \in [Convs -> Seq(Calls)]
    /\ checks \subseteq Convs \X Runs
    /\ nextRun \in 1..(MaxRuns + 1) /\ nextCall \in 1..(MaxCalls + 1)
    /\ faults \in 0..MaxFaults /\ decisions \in 0..MaxDecisions
    /\ seen \in [Runs -> Seq(Messages)] /\ from \in [Runs -> Runs \cup {NoRun}]
    /\ world \subseteq Sends

\* Where the run of a conversation is: there is one unless it is idle, and
\* while it makes calls there is one to make.
PhaseInv ==
    \A c \in Convs :
        /\ phase[c] # "none"
        /\ phase[c] = "idle" <=> active[c] = NoRun
        /\ phase[c] = "batch" => batch[c] # <<>>

\* What is not in the log yet: nothing outside a batch and its flush, and in
\* a batch the message with its calls, followed by results.
TailInv ==
    \A c \in Convs :
        /\ phase[c] \notin {"batch", "flush"} => unlogged[c] = <<>>
        /\ \A i \in DOMAIN unlogged[c] : unlogged[c][i].kind \in {"tool_call", "ok", "err"}

\* The rows that were there before a turn: no more than there are now, and no
\* fewer than before the turns before it.
PlaceInv ==
    \A c \in Convs :
        /\ \A n \in DOMAIN turns[c] : turns[c][n].at <= Len(rows[c])
        /\ \A m, n \in DOMAIN turns[c] : m <= n => turns[c][m].at <= turns[c][n].at

\* What the rows of a run in one log say.
Said(log, r) == Spoken(RowsOf(log, r), {"stop", "decision"})

\* What a run's rows say and the part that is not logged yet make up its
\* transcript, and what the model was last sent is logged.
TranscriptInv(c) ==
    phase[c] \in {"turn", "batch", "flush"} =>
        /\ messages[c] = Said(rows[c], active[c]) \o unlogged[c]
        /\ IsPrefix(seen[active[c]], Said(rows[c], active[c]))

\* The same once the run is over, if its rows are in one conversation.
SeenInv(c) == \A r \in Started : Homes(r) = {c} => IsPrefix(seen[r], Said(rows[c], r))

ReplayInv == \A c \in Convs : TranscriptInv(c) /\ SeenInv(c)

\* A run is resumed from an earlier one.
FromInv == \A r \in Runs : from[r] # NoRun => from[r] < r /\ r < nextRun

\* The row where the log is cut for a branch after a turn is of that turn's run.
CutGood(c, n) == Cut(c, n) \in 1..Len(rows[c]) /\ rows[c][Cut(c, n)].run = turns[c][n].run

\* Only the run going on writes rows, and the log and the messages are cut at
\* the same place: the rows up to the end of a turn that was cut off end with
\* a row of its run.
CutInv ==
    /\ checks = {}
    /\ \A c \in Convs :
          /\ active[c] # NoRun => LastLogged(c) = active[c]
          /\ \A n \in DOMAIN turns[c] : turns[c][n].reason = "cut" => CutGood(c, n)

\* A message of the run of a conversation is in its rows or about to be.
Has(c, m) ==
    \/ \E i \in DOMAIN rows[c] : rows[c][i] = Row(active[c], KindOf(m), <<m>>)
    \/ \E i \in DOMAIN unlogged[c] : unlogged[c][i] = m

\* The log of any conversation shows how a send came back.
SentLogged(w) ==
    w.out # "lost" /\ \E c, d \in Convs : \E i \in DOMAIN rows[c], j \in DOMAIN rows[d] :
        /\ rows[c][i].run = w.run /\ rows[c][i].kind = "tool_call"
        /\ rows[d][j].run = w.run /\ rows[d][j].kind = "tool_result"
        /\ rows[d][j].msgs = <<Msg(w.out, <<w.call>>)>>
        /\ \E k \in DOMAIN rows[c][i].msgs[1].ids : rows[c][i].msgs[1].ids[k] = w.call

\* The calls of a batch are those of a message that waits to be logged.
BatchInv(c) ==
    phase[c] = "batch" =>
        \E ids \in Seq(Calls) :
            /\ unlogged[c] # <<>> /\ unlogged[c][1] = Msg("tool_call", ids)
            /\ \A i \in DOMAIN batch[c] : \E k \in DOMAIN ids : ids[k] = batch[c][i]

\* A send of the run of a conversation, with its result, is logged or waits to be.
Sent(c, w) ==
    w.out # "lost" /\ \E ids \in Seq(Calls) : \E k \in DOMAIN ids :
        ids[k] = w.call /\ Has(c, Msg("tool_call", ids)) /\ Has(c, Msg(w.out, <<w.call>>))

\* All that the run sent is, unless it ended for good.
SentHas(c) ==
    \A w \in world :
        phase[c] \in {"turn", "batch", "flush", "cut"} /\ w.run = active[c] => Sent(c, w)

\* What a run sent that was cut off is logged.
SentCut(c) ==
    \A w \in world : \A n \in DOMAIN turns[c] :
        turns[c][n].run = w.run /\ turns[c][n].reason = "cut" => SentLogged(w)

\* What has left is of runs that have started.
SentRuns == \A w \in world : w.run \in Started

SentInv == SentRuns /\ \A c \in Convs : BatchInv(c) /\ SentHas(c) /\ SentCut(c)
-----------------------------------------------------------------------------
(******************************* reading rows ******************************)

\* What one row contributes to the rows of a run, and to a replay.
OfRun(r) == [x \in RowT |-> IF x.run = r THEN <<x>> ELSE <<>>]
Says == [x \in RowT |-> IF x.kind \in {"stop", "decision"} THEN <<>> ELSE x.msgs]

\* Both are sequences.
LEMMA RowFunctions == Says \in [RowT -> Seq(Messages)] /\ \A r : OfRun(r) \in [RowT -> Seq(RowT)]
<1>1. \A x \in RowT : <<x>> \in Seq(RowT) /\ <<>> \in Seq(RowT)
  OBVIOUS
<1>2. \A x \in RowT : x.msgs \in Seq(Messages) /\ <<>> \in Seq(Messages)
  BY DEF RowT
<1> QED
  BY <1>1, <1>2 DEF OfRun, Says

\* The rows of a run are what each row contributes, one after the other.
LEMMA RowsOfIs == ASSUME NEW s \in Seq(RowT), NEW r PROVE RowsOf(s, r) = FlatMap(OfRun(r), s)
<1>1. \A i \in DOMAIN s : s[i] \in RowT
  OBVIOUS
<1>2. [i \in DOMAIN s |-> IF s[i].run = r THEN <<s[i]>> ELSE <<>>] = Images(OfRun(r), s)
  BY <1>1 DEF Images, OfRun
<1> QED
  BY <1>2 DEF RowsOf, FlatMap

\* So is what they say.
LEMMA SpokenIs == ASSUME NEW s \in Seq(RowT) PROVE Spoken(s, {"stop", "decision"}) = FlatMap(Says, s)
<1>1. \A i \in DOMAIN s : s[i] \in RowT
  OBVIOUS
<1>2. [i \in DOMAIN s |-> IF s[i].kind \in {"stop", "decision"} THEN <<>> ELSE s[i].msgs] = Images(Says, s)
  BY <1>1 DEF Images, Says
<1> QED
  BY <1>2 DEF Spoken, FlatMap

\* The rows of a run are rows.
LEMMA RowsOfType == ASSUME NEW s \in Seq(RowT), NEW r PROVE RowsOf(s, r) \in Seq(RowT)
<1>1. RowsOf(s, r) = FlatMap(OfRun(r), s) /\ OfRun(r) \in [RowT -> Seq(RowT)]
  BY RowsOfIs, RowFunctions
<1> QED
  BY <1>1, FlatMapType

\* What rows say are messages.
LEMMA SpokenType ==
    ASSUME NEW s \in Seq(RowT) PROVE Spoken(s, {"stop", "decision"}) \in Seq(Messages)
<1>1. Spoken(s, {"stop", "decision"}) = FlatMap(Says, s) /\ Says \in [RowT -> Seq(Messages)]
  BY SpokenIs, RowFunctions
<1> QED
  BY <1>1, FlatMapType

\* What a run's rows in a log say are messages.
LEMMA SaidType == ASSUME NEW s \in Seq(RowT), NEW r PROVE Said(s, r) \in Seq(Messages)
<1>1. PICK t \in Seq(RowT) : t = RowsOf(s, r)
  BY RowsOfType
<1>2. Spoken(t, {"stop", "decision"}) \in Seq(Messages)
  BY SpokenType
<1> QED
  BY <1>1, <1>2 DEF Said

\* The case of rows made of rows.
LEMMA RowMapConcat ==
    ASSUME NEW R, NEW F \in [R -> Seq(R)], NEW s \in Seq(R), NEW t \in Seq(R)
    PROVE  FlatMap(F, s \o t) = FlatMap(F, s) \o FlatMap(F, t)
  BY FlatMapConcat

\* Rows added to a log add those of the run among them.
LEMMA RowsOfConcat ==
    ASSUME NEW s \in Seq(RowT), NEW t \in Seq(RowT), NEW r
    PROVE  RowsOf(s \o t, r) = RowsOf(s, r) \o RowsOf(t, r)
<1>1. s \o t \in Seq(RowT) /\ OfRun(r) \in [RowT -> Seq(RowT)]
  BY ConcatProperties, RowFunctions
<1>2. /\ RowsOf(s \o t, r) = FlatMap(OfRun(r), s \o t)
      /\ RowsOf(s, r) = FlatMap(OfRun(r), s) /\ RowsOf(t, r) = FlatMap(OfRun(r), t)
  BY <1>1, RowsOfIs
<1>3. FlatMap(OfRun(r), s \o t) = FlatMap(OfRun(r), s) \o FlatMap(OfRun(r), t)
  BY <1>1, RowMapConcat
<1> QED
  BY ONLY <1>2, <1>3

\* Rows added to rows add what they say.
LEMMA SpokenConcat ==
    ASSUME NEW s \in Seq(RowT), NEW t \in Seq(RowT)
    PROVE  Spoken(s \o t, {"stop", "decision"})
             = Spoken(s, {"stop", "decision"}) \o Spoken(t, {"stop", "decision"})
<1>1. s \o t \in Seq(RowT) /\ Says \in [RowT -> Seq(Messages)]
  BY ConcatProperties, RowFunctions
<1>2. /\ Spoken(s \o t, {"stop", "decision"}) = FlatMap(Says, s \o t)
      /\ Spoken(s, {"stop", "decision"}) = FlatMap(Says, s)
      /\ Spoken(t, {"stop", "decision"}) = FlatMap(Says, t)
  BY <1>1, SpokenIs
<1>3. FlatMap(Says, s \o t) = FlatMap(Says, s) \o FlatMap(Says, t)
  BY <1>1, FlatMapConcat
<1> QED
  BY ONLY <1>2, <1>3

\* Rows added to a log add what the run's rows among them say.
LEMMA SaidConcat ==
    ASSUME NEW s \in Seq(RowT), NEW t \in Seq(RowT), NEW r
    PROVE  Said(s \o t, r) = Said(s, r) \o Said(t, r)
<1>1. RowsOf(s \o t, r) = RowsOf(s, r) \o RowsOf(t, r)
  BY RowsOfConcat
<1>2. PICK a \in Seq(RowT), b \in Seq(RowT) : a = RowsOf(s, r) /\ b = RowsOf(t, r)
  BY RowsOfType
<1>3. Spoken(a \o b, {"stop", "decision"})
        = Spoken(a, {"stop", "decision"}) \o Spoken(b, {"stop", "decision"})
  BY SpokenConcat
<1> QED
  BY ONLY <1>1, <1>2, <1>3 DEF Said

\* What one row says, if it is one of the run and not about the run.
LEMMA SaidOne ==
    ASSUME NEW x \in RowT, NEW r
    PROVE  Said(<<x>>, r) = IF x.run = r /\ x.kind \notin {"stop", "decision"} THEN x.msgs ELSE <<>>
<1>0. PICK F \in [RowT -> Seq(RowT)], G \in [RowT -> Seq(Messages)] : F = OfRun(r) /\ G = Says
  BY RowFunctions
<1>1. PICK u \in Seq(RowT) : u = <<x>>
  <2>1. <<x>> \in Seq(RowT)
    OBVIOUS
  <2> QED
    BY ONLY <2>1
<1>2. RowsOf(u, r) = FlatMap(F, u) /\ Spoken(u, {"stop", "decision"}) = FlatMap(G, u)
  BY <1>0, RowsOfIs, SpokenIs
<1>3. FlatMap(F, u) = F[x] /\ FlatMap(G, u) = G[x]
  BY <1>1, FlatMapOne
<1>4. Spoken(<<>>, {"stop", "decision"}) = <<>>
  <2>1. PICK e \in Seq(RowT) : e = <<>>
    BY EmptySeq
  <2>2. Spoken(e, {"stop", "decision"}) = FlatMap(G, e)
    BY <1>0, SpokenIs
  <2> QED
    BY <2>1, <2>2, FlatMapEmpty
<1>5. CASE x.run = r
  <2>1. RowsOf(u, r) = u
    BY <1>0, <1>1, <1>2, <1>3, <1>5 DEF OfRun
  <2>2. G[x] = IF x.kind \in {"stop", "decision"} THEN <<>> ELSE x.msgs
    BY <1>0 DEF Says
  <2> QED
    BY <1>1, <1>2, <1>3, <1>5, <2>1, <2>2 DEF Said
<1>6. CASE x.run # r
  <2>1. RowsOf(u, r) = <<>>
    BY <1>0, <1>1, <1>2, <1>3, <1>6 DEF OfRun
  <2> QED
    BY <1>1, <1>4, <1>6, <2>1 DEF Said
<1> QED
  BY <1>5, <1>6

\* A log without rows of the run says nothing of it.
LEMMA SaidNothing ==
    ASSUME NEW s \in Seq(RowT), NEW r, \A i \in DOMAIN s : s[i].run # r
    PROVE  Said(s, r) = <<>>
<1> DEFINE f == [i \in DOMAIN s |-> IF s[i].run = r THEN <<s[i]>> ELSE <<>>]
<1>1. f \in [1..Len(s) -> {<<>>}] /\ Len(s) \in Nat
  OBVIOUS
<1> HIDE DEF f
<1>2. f \in Seq({<<>>})
  BY ONLY <1>1, FunctionIsSeq
<1>3. RowsOf(s, r) = <<>>
  BY <1>2, FlattenEmpties DEF f, RowsOf
<1>4. PICK e \in Seq(RowT) : e = <<>>
  BY EmptySeq
<1>5. Spoken(e, {"stop", "decision"}) = FlatMap(Says, e)
  BY SpokenIs
<1> QED
  BY <1>3, <1>4, <1>5, FlatMapEmpty DEF Said
-----------------------------------------------------------------------------
(*************************** the rows of one run ***************************)

\* Conversations are finitely many, so the homes of a run are.
LEMMA HomesFinite == \A r : IsFiniteSet(Homes(r)) /\ Homes(r) \subseteq Convs
<1>1. IsFiniteSet(Convs)
  BY SessionsAssumption, FS_Interval DEF Convs
<1>2. \A r : Homes(r) \subseteq Convs
  BY DEF Homes
<1> QED
  BY <1>1, <1>2, FS_Subset

\* A run with rows in at most one conversation has one home.
LEMMA OneHome ==
    ASSUME NEW r, Homes(r) # {}, Cardinality(Homes(r)) <= 1
    PROVE  Cardinality(Homes(r)) = 1 /\ \E c \in Convs : Homes(r) = {c}
<1>1. IsFiniteSet(Homes(r)) /\ Homes(r) \subseteq Convs
  BY HomesFinite
<1>2. Cardinality(Homes(r)) \in Nat /\ Cardinality(Homes(r)) # 0
  BY <1>1, FS_CardinalityType, FS_EmptySet
<1>3. Cardinality(Homes(r)) = 1
  BY <1>2
<1>4. PICK x : Homes(r) = {x}
  BY <1>1, <1>3, FS_Singleton
<1> QED
  BY <1>1, <1>3, <1>4

\* Its rows are those in that conversation, and so is what they say.
LEMMA EventsOneHome ==
    ASSUME NEW r, NEW c \in Convs, Homes(r) = {c}
    PROVE  EventsForRun(r) = RowsOf(rows[c], r) /\ Replay(r) = Said(rows[c], r)
<1>1. Cardinality(Homes(r)) = 1
  BY FS_Singleton
<1>2. (CHOOSE x \in Homes(r) : TRUE) = c
  OBVIOUS
<1>3. EventsForRun(r) = RowsOf(rows[c], r)
  BY <1>1, <1>2 DEF EventsForRun
<1> QED
  BY <1>3 DEF Replay, Said

\* Finitely many numbers have a greatest.
LEMMA Greatest ==
    ASSUME NEW N \in Nat, NEW f \in [1..N -> Nat], N # 0
    PROVE  \E n \in {f[c] : c \in 1..N} : \A c \in 1..N : f[c] <= n
<1> DEFINE T == {m \in Nat : m <= N /\ m # 0 => \E d \in 1..m : \A c \in 1..m : f[c] <= f[d]}
<1>1. 0 \in T
  OBVIOUS
<1>2. ASSUME NEW m \in Nat, m \in T PROVE m + 1 \in T
  <2> SUFFICES ASSUME m + 1 <= N PROVE \E d \in 1..(m + 1) : \A c \in 1..(m + 1) : f[c] <= f[d]
    OBVIOUS
  <2>0. \A c \in 1..(m + 1) : f[c] \in Nat
    OBVIOUS
  <2>1. CASE m = 0
    <3>1. 1 \in 1..(m + 1) /\ \A c \in 1..(m + 1) : f[c] <= f[1]
      BY <2>0, <2>1
    <3> QED
      BY <3>1
  <2>2. CASE m # 0
    <3>1. PICK d \in 1..m : \A c \in 1..m : f[c] <= f[d]
      BY <1>2, <2>2
    <3>2. CASE f[m + 1] <= f[d]
      <4>1. \A c \in 1..(m + 1) : f[c] <= f[d]
        BY <3>1, <3>2
      <4> QED
        BY <4>1
    <3>3. CASE ~(f[m + 1] <= f[d])
      <4>1. \A c \in 1..(m + 1) : f[c] <= f[m + 1]
        BY <2>0, <3>1, <3>3
      <4> QED
        BY <4>1
    <3> QED
      BY <3>2, <3>3
  <2> QED
    BY <2>1, <2>2
<1> HIDE DEF T
<1>3. \A m \in Nat : m \in T
  BY <1>1, <1>2, SetInduction
<1>4. N \in T
  BY <1>3
<1>5. PICK d \in 1..N : \A c \in 1..N : f[c] <= f[d]
  BY <1>4 DEF T
<1> QED
  BY <1>5

\* The rows at place i of every conversation that are of run r, and how far
\* the longest log goes.
RowsAt(i, r) == [c \in Convs |-> IF i <= Len(rows[c]) /\ rows[c][i].run = r
                                 THEN <<rows[c][i]>> ELSE <<>>]
Longest == CHOOSE n \in {Len(rows[c]) : c \in Convs} : \A c \in Convs : Len(rows[c]) <= n

\* No log goes further than the longest.
LEMMA LongestIs ==
    ASSUME TypeInv, NEW c \in Convs
    PROVE  Longest \in Nat /\ Len(rows[c]) <= Longest
<1> DEFINE f == [d \in Convs |-> Len(rows[d])]
<1>1. f \in [1..MaxConvs -> Nat] /\ MaxConvs \in Nat /\ MaxConvs # 0
  BY SessionsAssumption DEF TypeInv, Convs
<1>2. {f[d] : d \in 1..MaxConvs} = {Len(rows[d]) : d \in Convs} /\ \A d \in Convs : f[d] = Len(rows[d])
  BY DEF Convs
<1> HIDE DEF f
<1>3. \E n \in {f[d] : d \in 1..MaxConvs} : \A d \in 1..MaxConvs : f[d] <= n
  BY <1>1, Greatest
<1>4. \E n \in {Len(rows[d]) : d \in Convs} : \A d \in Convs : Len(rows[d]) <= n
  BY <1>2, <1>3 DEF Convs
<1>5. Longest \in {Len(rows[d]) : d \in Convs} /\ \A d \in Convs : Len(rows[d]) <= Longest
  BY <1>4 DEF Longest
<1>6. \A d \in Convs : Len(rows[d]) \in Nat
  BY DEF TypeInv
<1> QED
  BY <1>5, <1>6

\* The rows at one place are rows.
LEMMA RowsAtType ==
    ASSUME TypeInv, NEW i \in Nat \ {0}, NEW r
    PROVE  RowsAt(i, r) \in Seq(Seq(RowT)) /\ Len(RowsAt(i, r)) = MaxConvs
<1>1. ASSUME NEW c \in Convs PROVE RowsAt(i, r)[c] \in Seq(RowT)
  <2>1. rows[c] \in Seq(RowT)
    BY DEF TypeInv
  <2>2. i <= Len(rows[c]) => rows[c][i] \in RowT
    BY <2>1
  <2>3. \A x \in RowT : <<x>> \in Seq(RowT)
    OBVIOUS
  <2>4. <<>> \in Seq(RowT)
    OBVIOUS
  <2> QED
    BY <2>2, <2>3, <2>4 DEF RowsAt
<1>2. RowsAt(i, r) \in [1..MaxConvs -> Seq(RowT)] /\ MaxConvs \in Nat
  <2>1. DOMAIN RowsAt(i, r) = 1..MaxConvs /\ RowsAt(i, r) = [c \in 1..MaxConvs |-> RowsAt(i, r)[c]]
    BY DEF RowsAt, Convs
  <2> QED
    BY <1>1, <2>1, SessionsAssumption DEF Convs
<1>3. \A S : \A n \in Nat : \A f \in [1..n -> S] : f \in Seq(S) /\ Len(f) = n
  BY ONLY FunctionIsSeq
<1> QED
  BY ONLY <1>2, <1>3, Zenon

\* The general case of EventsForRun.
Interleaved(r) == FlattenSeq([i \in 1..Longest |-> FlattenSeq(RowsAt(i, r))])

\* What session_events_for_run returns, with the two cases named.
LEMMA EventsIs ==
    \A r : EventsForRun(r) = IF Cardinality(Homes(r)) = 1
                             THEN RowsOf(rows[CHOOSE c \in Homes(r) : TRUE], r) ELSE Interleaved(r)
  BY DEF EventsForRun, Interleaved, Longest, RowsAt

\* The rows of each place are rows, and so are those of all places.
LEMMA InterleavedType ==
    ASSUME TypeInv, Convs # {}, NEW r
    PROVE  /\ [i \in 1..Longest |-> FlattenSeq(RowsAt(i, r))] \in Seq(Seq(RowT))
           /\ Interleaved(r) \in Seq(RowT)
<1>1. Longest \in Nat
  BY LongestIs
<1>2. ASSUME NEW i \in 1..Longest PROVE FlattenSeq(RowsAt(i, r)) \in Seq(RowT)
  <2>1. i \in Nat \ {0}
    BY <1>1
  <2>2. RowsAt(i, r) \in Seq(Seq(RowT))
    BY <2>1, RowsAtType
  <2> QED
    BY ONLY <2>2, FlattenType
<1> DEFINE f == [i \in 1..Longest |-> FlattenSeq(RowsAt(i, r))]
<1>3. f \in [1..Longest -> Seq(RowT)]
  BY <1>2
<1> HIDE DEF f
<1>4. f \in Seq(Seq(RowT))
  BY ONLY <1>1, <1>3, FunctionIsSeq
<1>5. FlattenSeq(f) \in Seq(RowT)
  BY ONLY <1>4, FlattenType
<1> QED
  BY <1>4, <1>5 DEF f, Interleaved

\* The rows of a run are rows, wherever they are.
LEMMA EventsType == ASSUME TypeInv, Convs # {}, NEW r PROVE EventsForRun(r) \in Seq(RowT)
<1>1. CASE Cardinality(Homes(r)) = 1
  <2>1. PICK c : Homes(r) = {c}
    BY <1>1, HomesFinite, FS_Singleton
  <2>2. c \in Convs /\ (CHOOSE x \in Homes(r) : TRUE) = c
    BY <2>1, HomesFinite
  <2>3. rows[c] \in Seq(RowT)
    BY <2>2 DEF TypeInv
  <2> QED
    BY <1>1, <2>2, <2>3, EventsIs, RowsOfType
<1>2. CASE Cardinality(Homes(r)) # 1
  BY <1>2, EventsIs, InterleavedType
<1> QED
  BY <1>1, <1>2

\* A replay is an array of messages.
LEMMA ReplayType == ASSUME TypeInv, Convs # {}, NEW r PROVE Replay(r) \in Seq(Messages)
<1>1. EventsForRun(r) \in Seq(RowT)
  BY EventsType
<1> QED
  BY <1>1, SpokenType DEF Replay

\* An element of one of the lists is in what they flatten to.
LEMMA FlattenHas ==
    ASSUME NEW S, NEW ss \in Seq(Seq(S)), NEW i \in 1..Len(ss), NEW v, IsIn(v, ss[i])
    PROVE  IsIn(v, FlattenSeq(ss))
<1> DEFINE F == [t \in Seq(S) |-> t]
<1>1. F \in [Seq(S) -> Seq(S)]
  OBVIOUS
<1>2. ss[i] \in Seq(S) /\ \A j \in DOMAIN ss : ss[j] \in Seq(S)
  OBVIOUS
<1>3. Images(F, ss) = ss /\ F[ss[i]] = ss[i]
  <2>1. Images(F, ss) = [j \in DOMAIN ss |-> ss[j]]
    BY <1>2 DEF Images
  <2>2. [j \in DOMAIN ss |-> ss[j]] = ss
    OBVIOUS
  <2> QED
    BY <1>2, <2>1, <2>2
<1> HIDE DEF F
<1>4. IsIn(v, FlatMap(F, ss))
  BY <1>1, <1>3, FlatMapHas
<1> QED
  BY <1>3, <1>4 DEF FlatMap

\* Every row of a run is read when its rows are.
LEMMA EventsHave ==
    ASSUME TypeInv, NEW r, NEW c \in Convs, NEW i \in DOMAIN rows[c], rows[c][i].run = r
    PROVE  rows[c][i] \in Range(EventsForRun(r))
<1>0. rows[c] \in Seq(RowT) /\ i \in 1..Len(rows[c]) /\ rows[c][i] \in RowT
  <2>1. rows[c] \in Seq(RowT)
    BY DEF TypeInv
  <2> QED
    BY <2>1
<1>1. CASE Cardinality(Homes(r)) = 1
  <2>1. c \in Homes(r)
    BY DEF Homes
  <2>2. Homes(r) = {c} /\ (CHOOSE x \in Homes(r) : TRUE) = c
    BY <1>1, <2>1, HomesFinite, FS_Singleton
  <2>3. EventsForRun(r) = FlatMap(OfRun(r), rows[c])
    BY <1>0, <1>1, <2>2, EventsIs, RowsOfIs
  <2>4. OfRun(r)[rows[c][i]] = <<rows[c][i]>>
    BY <1>0 DEF OfRun
  <2>5. IsIn(rows[c][i], OfRun(r)[rows[c][i]])
    BY <2>4 DEF IsIn
  <2>6. PICK F \in [RowT -> Seq(RowT)], s \in Seq(RowT) : F = OfRun(r) /\ s = rows[c]
    BY <1>0, RowFunctions
  <2>7. IsIn(rows[c][i], FlatMap(F, s))
    BY <1>0, <2>5, <2>6, FlatMapHas
  <2>8. IsIn(rows[c][i], EventsForRun(r))
    BY <2>3, <2>6, <2>7
  <2> QED
    <3>1. EventsForRun(r) \in Seq(RowT)
      BY EventsType
    <3> QED
      BY <2>8, <3>1 DEF IsIn, Range
<1>2. CASE Cardinality(Homes(r)) # 1
  <2>1. Longest \in Nat /\ Len(rows[c]) <= Longest
    BY LongestIs
  <2>2. i \in 1..Longest /\ i \in Nat \ {0}
    BY <1>0, <2>1
  <2>3. RowsAt(i, r) \in Seq(Seq(RowT)) /\ c \in 1..Len(RowsAt(i, r))
    BY <2>2, RowsAtType DEF Convs
  <2>4. RowsAt(i, r)[c] = <<rows[c][i]>>
    BY <1>0 DEF RowsAt
  <2>5. IsIn(rows[c][i], RowsAt(i, r)[c])
    BY <2>4 DEF IsIn
  <2>6. IsIn(rows[c][i], FlattenSeq(RowsAt(i, r)))
    BY <2>3, <2>5, FlattenHas
  <2> DEFINE f == [j \in 1..Longest |-> FlattenSeq(RowsAt(j, r))]
  <2>7. f \in Seq(Seq(RowT)) /\ i \in 1..Len(f) /\ f[i] = FlattenSeq(RowsAt(i, r))
    <3>1. f \in Seq(Seq(RowT))
      BY InterleavedType
    <3>2. Len(f) = Longest /\ f[i] = FlattenSeq(RowsAt(i, r))
      BY <2>1, <2>2
    <3> HIDE DEF f
    <3> QED
      BY <2>2, <3>1, <3>2
  <2>8. Interleaved(r) = FlattenSeq(f) /\ Interleaved(r) \in Seq(RowT)
    BY InterleavedType DEF Interleaved
  <2> HIDE DEF f
  <2>9. IsIn(rows[c][i], FlattenSeq(f))
    BY ONLY <2>6, <2>7, FlattenHas
  <2>10. EventsForRun(r) = Interleaved(r)
    BY <1>2, EventsIs
  <2> QED
    BY <2>8, <2>9, <2>10 DEF IsIn, Range
<1> QED
  BY <1>1, <1>2
-----------------------------------------------------------------------------
(********************************** types **********************************)

Phases == Reasons \cup {"idle", "turn", "batch", "flush"}
MsgKinds == {"prompt", "note", "tool_call", "ok", "err", "assistant", "decision"}
RowKinds == {"prompt", "tool_call", "tool_result", "assistant", "stop", "decision"}

\* The types of a message and of a row.
LEMMA MsgRowType ==
    /\ \A k \in MsgKinds : Msg(k, <<>>) \in Messages
    /\ \A k \in MsgKinds, ids \in Seq(Calls) : Msg(k, ids) \in Messages
    /\ \A r \in Runs, k \in RowKinds, ms \in Seq(Messages) : Row(r, k, ms) \in RowT
<1>1. \A k \in MsgKinds, ids \in Seq(Calls) : Msg(k, ids) \in Messages
  BY DEF Msg, Messages, MsgKinds
<1>2. <<>> \in Seq(Calls)
  OBVIOUS
<1>3. \A r \in Runs, k \in RowKinds, ms \in Seq(Messages) : Row(r, k, ms) \in RowT
  BY DEF Row, RowT, RowKinds
<1> QED
  BY ONLY <1>1, <1>2, <1>3

\* A row of a message is a row.
LEMMA MessageRowType ==
    ASSUME NEW r \in Runs, NEW m \in Messages, m.kind \in {"tool_call", "ok", "err"}
    PROVE  Row(r, KindOf(m), <<m>>) \in RowT
<1>1. KindOf(m) \in RowKinds /\ <<m>> \in Seq(Messages)
  BY DEF KindOf, RowKinds
<1> QED
  BY <1>1, MsgRowType

\* A value put where the function had one of its values leaves the function's type.
LEMMA ExceptType ==
    ASSUME NEW D, NEW S, NEW f \in [D -> S], NEW c \in D, NEW v \in S
    PROVE  [f EXCEPT ![c] = v] \in [D -> S]
  OBVIOUS

\* Execute_turn's types: what Launch writes, if it is given an array of messages.
LEMMA LaunchType ==
    ASSUME TypeInv, NEW c \in Convs, NEW opening \in Seq(Messages), Launch(c, opening),
           from' \in [Runs -> Runs \cup {NoRun}]
    PROVE  TypeInv'
<1>1. nextRun \in Runs /\ nextRun' \in 1..(MaxRuns + 1)
  BY SessionsAssumption DEF TypeInv, Launch, Runs
<1>2. rows' \in [Convs -> Seq(RowT)]
  <2>1. Row(nextRun, "prompt", opening) \in RowT
    BY <1>1, MsgRowType DEF RowKinds
  <2>2. rows[c] \in Seq(RowT) /\ rows \in [Convs -> Seq(RowT)]
    BY DEF TypeInv
  <2>3. Append(rows[c], Row(nextRun, "prompt", opening)) \in Seq(RowT)
    BY <2>1, <2>2
  <2>4. rows' = [rows EXCEPT ![c] = Append(rows[c], Row(nextRun, "prompt", opening))]
    BY DEF Launch
  <2> QED
    BY ONLY <2>2, <2>3, <2>4, c \in Convs, ExceptType
<1>3. turns' \in [Convs -> Seq(TurnT)]
  <2> DEFINE t == [run |-> nextRun, reason |-> "none", at |-> Len(rows[c])]
  <2>1. t \in TurnT
    BY <1>1 DEF TypeInv, TurnT, Reasons
  <2>2. turns[c] \in Seq(TurnT) /\ turns \in [Convs -> Seq(TurnT)]
    BY DEF TypeInv
  <2>3. turns' = [turns EXCEPT ![c] = Append(turns[c], t)]
    BY DEF Launch
  <2> HIDE DEF t
  <2>4. Append(turns[c], t) \in Seq(TurnT)
    BY <2>1, <2>2
  <2> QED
    BY ONLY <2>2, <2>3, <2>4, c \in Convs, ExceptType
<1>4. seen' \in [Runs -> Seq(Messages)] /\ messages' \in [Convs -> Seq(Messages)]
  BY <1>1 DEF TypeInv, Launch
<1>5. active' \in [Convs -> Runs \cup {NoRun}] /\ phase' \in [Convs -> Phases]
  BY <1>1 DEF TypeInv, Launch, Phases
<1>6. checks' \subseteq Convs \X Runs
  BY <1>1 DEF TypeInv, Launch
<1> QED
  BY <1>1, <1>2, <1>3, <1>4, <1>5, <1>6 DEF TypeInv, Launch, Phases

\* The array a resumed run begins with.
LEMMA ResumedType ==
    ASSUME TypeInv, NEW r, Convs # {}
    PROVE  Resumed(r) \in Seq(Messages)
<1>1. PICK p \in Seq(Messages) : p = Replay(r)
  BY ReplayType
<1>2. PICK q \in Seq(Messages) : q = <<Msg("note", <<>>)>>
  <2>1. Msg("note", <<>>) \in Messages
    BY MsgRowType DEF MsgKinds
  <2>2. <<Msg("note", <<>>)>> \in Seq(Messages)
    BY <2>1
  <2> QED
    BY ONLY <2>2
<1> QED
  BY ONLY <1>1, <1>2, ConcatProperties DEF Resumed

\* Rows added to one conversation.
LEMMA RowsAdded ==
    ASSUME TypeInv, NEW c \in Convs, NEW x \in Seq(RowT), rows' = [rows EXCEPT ![c] = rows[c] \o x]
    PROVE  rows' \in [Convs -> Seq(RowT)]
<1>1. rows[c] \in Seq(RowT) /\ rows \in [Convs -> Seq(RowT)]
  BY DEF TypeInv
<1>2. rows[c] \o x \in Seq(RowT)
  BY ONLY <1>1, x \in Seq(RowT), ConcatProperties
<1> QED
  BY ONLY <1>1, <1>2, c \in Convs, rows' = [rows EXCEPT ![c] = rows[c] \o x], ExceptType

\* What a row-only turn writes.
LEMMA RowOnlyType ==
    ASSUME TypeInv, PhaseInv, NEW c \in Convs, RowOnly(c), faults' \in 0..MaxFaults
    PROVE  TypeInv' /\ PhaseInv'
<1> DEFINE t == [run |-> NoRun, reason |-> "none", at |-> Len(rows[c])]
<1>1. t \in TurnT
  BY DEF TypeInv, TurnT, Reasons
<1>2. turns[c] \in Seq(TurnT) /\ turns \in [Convs -> Seq(TurnT)]
  BY DEF TypeInv
<1>3. turns' = [turns EXCEPT ![c] = Append(turns[c], t)]
  BY DEF RowOnly
<1> HIDE DEF t
<1>4. Append(turns[c], t) \in Seq(TurnT)
  BY <1>1, <1>2
<1>5. turns' \in [Convs -> Seq(TurnT)]
  BY ONLY <1>2, <1>3, <1>4, c \in Convs, ExceptType
<1> QED
  BY <1>5 DEF RowOnly, TypeInv, PhaseInv, history

\* What the model's asking for calls does: there is at least one, and the
\* message with them is all that is not logged yet.
LEMMA AskEffect ==
    ASSUME TypeInv, NEW c \in Convs, AskCalls(c)
    PROVE  \E ids \in Seq(Calls) : \E m \in Messages :
               /\ ids # <<>> /\ m = Msg("tool_call", ids) /\ nextCall' \in 1..(MaxCalls + 1)
               /\ batch' = [batch EXCEPT ![c] = ids]
               /\ messages' = [messages EXCEPT ![c] = Append(messages[c], m)]
               /\ unlogged' = [unlogged EXCEPT ![c] = <<m>>]
<1>1. PICK n \in 1..MaxBatch : \E send \in [1..n -> BOOLEAN] :
        LET ids == [i \in 1..n |-> [id |-> nextCall + i - 1, send |-> send[i]]]
        IN /\ nextCall + n - 1 <= MaxCalls /\ nextCall' = nextCall + n
           /\ batch' = [batch EXCEPT ![c] = ids]
           /\ messages' = [messages EXCEPT ![c] = Append(@, Msg("tool_call", ids))]
           /\ unlogged' = [unlogged EXCEPT ![c] = <<Msg("tool_call", ids)>>]
  BY Zenon DEF AskCalls
<1>2. PICK send \in [1..n -> BOOLEAN] :
        LET ids == [i \in 1..n |-> [id |-> nextCall + i - 1, send |-> send[i]]]
        IN /\ nextCall + n - 1 <= MaxCalls /\ nextCall' = nextCall + n
           /\ batch' = [batch EXCEPT ![c] = ids]
           /\ messages' = [messages EXCEPT ![c] = Append(@, Msg("tool_call", ids))]
           /\ unlogged' = [unlogged EXCEPT ![c] = <<Msg("tool_call", ids)>>]
  BY <1>1, Zenon
<1>3. PICK ids : ids = [i \in 1..n |-> [id |-> nextCall + i - 1, send |-> send[i]]]
  OBVIOUS
<1>4. n \in Nat \ {0} /\ nextCall \in Nat \ {0} /\ MaxCalls \in Nat
  BY SessionsAssumption DEF TypeInv
<1>5. ids \in Seq(Calls) /\ ids # <<>>
  <2>1. \A i \in 1..n : nextCall + i - 1 \in 1..MaxCalls
    BY <1>2, <1>4
  <2>2. ids \in [1..n -> Calls]
    BY <1>3, <2>1 DEF Calls
  <2>3. ids \in Seq(Calls) /\ Len(ids) = n
    <3>1. n \in Nat
      BY <1>4
    <3> QED
      BY ONLY <2>2, <3>1, FunctionIsSeq
  <2> QED
    BY <1>4, <2>3
<1>6. PICK m \in Messages : m = Msg("tool_call", ids)
  BY <1>5, MsgRowType DEF MsgKinds
<1>7. nextCall' \in 1..(MaxCalls + 1)
  BY <1>2, <1>4
<1>8. /\ batch' = [batch EXCEPT ![c] = ids]
      /\ messages' = [messages EXCEPT ![c] = Append(messages[c], m)]
      /\ unlogged' = [unlogged EXCEPT ![c] = <<m>>]
  BY <1>2, <1>3, <1>6
<1> QED
  BY <1>5, <1>6, <1>7, <1>8

\* The model's calls keep the types.
LEMMA AskType ==
    ASSUME TypeInv, PhaseInv, NEW c \in Convs, AskCalls(c)
    PROVE  TypeInv' /\ PhaseInv'
<1>1. PICK ids \in Seq(Calls), m \in Messages :
               /\ ids # <<>> /\ m = Msg("tool_call", ids) /\ nextCall' \in 1..(MaxCalls + 1)
               /\ batch' = [batch EXCEPT ![c] = ids]
               /\ messages' = [messages EXCEPT ![c] = Append(messages[c], m)]
               /\ unlogged' = [unlogged EXCEPT ![c] = <<m>>]
  BY AskEffect
<1>2. messages' \in [Convs -> Seq(Messages)] /\ unlogged' \in [Convs -> Seq(Messages)]
  <2>1. messages[c] \in Seq(Messages) /\ messages \in [Convs -> Seq(Messages)] /\ unlogged \in [Convs -> Seq(Messages)]
    BY DEF TypeInv
  <2>2. Append(messages[c], m) \in Seq(Messages) /\ <<m>> \in Seq(Messages)
    BY <2>1
  <2> QED
    BY ONLY <1>1, <2>1, <2>2, c \in Convs, ExceptType
<1>3. batch' \in [Convs -> Seq(Calls)] /\ batch'[c] # <<>> /\ \A d \in Convs : d # c => batch'[d] = batch[d]
  BY <1>1 DEF TypeInv
<1>4. phase' = [phase EXCEPT ![c] = "batch"] /\ phase[c] = "turn"
  BY DEF AskCalls
<1>5. TypeInv'
  BY <1>1, <1>2, <1>3, <1>4 DEF AskCalls, TypeInv, history
<1> QED
  BY <1>3, <1>4, <1>5 DEF AskCalls, TypeInv, PhaseInv

\* What the return of a call does: its result, a message, joins the transcript
\* and the part not logged, and a send is remembered with how it came back.
LEMMA ReturnEffect ==
    ASSUME TypeInv, PhaseInv, NEW c \in Convs, CallReturns(c)
    PROVE  \E call \in Calls : \E out \in {"ok", "err"} : \E m \in Messages :
               /\ batch[c] # <<>> /\ call = Head(batch[c]) /\ m = Msg(out, <<call>>)
               /\ active[c] \in Runs
               /\ messages' = [messages EXCEPT ![c] = Append(messages[c], m)]
               /\ unlogged' = [unlogged EXCEPT ![c] = Append(unlogged[c], m)]
               /\ world' = IF call.send THEN world \cup {Gone(active[c], call, out)} ELSE world
<1>0. phase[c] = "batch" /\ batch[c] # <<>> /\ batch[c] \in Seq(Calls) /\ active[c] \in Runs
  BY DEF CallReturns, PhaseInv, TypeInv
<1>1. PICK out \in {"ok", "err"} :
        LET call == Head(batch[c])
            result == Msg(out, <<call>>)
        IN /\ messages' = [messages EXCEPT ![c] = Append(@, result)]
           /\ unlogged' = [unlogged EXCEPT ![c] = Append(@, result)]
           /\ world' = IF call.send THEN world \cup {Gone(active[c], call, out)} ELSE world
  <2>1. {"ok"} \subseteq {"ok", "err"}
    OBVIOUS
  <2> QED
    BY <2>1 DEF CallReturns
<1>2. PICK call \in Calls : call = Head(batch[c])
  BY <1>0, HeadTail
<1>3. <<call>> \in Seq(Calls)
  OBVIOUS
<1>4. PICK m \in Messages : m = Msg(out, <<call>>)
  BY <1>3, MsgRowType DEF MsgKinds
<1> QED
  BY <1>0, <1>1, <1>2, <1>4

\* A result is a message, and what is left of the batch are calls.
LEMMA ReturnType ==
    ASSUME TypeInv, PhaseInv, NEW c \in Convs, CallReturns(c)
    PROVE  TypeInv' /\ PhaseInv'
<1>0. /\ phase[c] = "batch" /\ batch[c] # <<>> /\ batch[c] \in Seq(Calls) /\ active[c] \in Runs
      /\ batch' = [batch EXCEPT ![c] = Tail(@)]
      /\ phase' = [phase EXCEPT ![c] = IF Len(batch[c]) = 1 THEN "flush" ELSE "batch"]
  BY DEF CallReturns, PhaseInv, TypeInv
<1>1. PICK call \in Calls, out \in {"ok", "err"}, m \in Messages :
               /\ messages' = [messages EXCEPT ![c] = Append(messages[c], m)]
               /\ unlogged' = [unlogged EXCEPT ![c] = Append(unlogged[c], m)]
               /\ world' = IF call.send THEN world \cup {Gone(active[c], call, out)} ELSE world
  BY ReturnEffect
<1>2. Tail(batch[c]) \in Seq(Calls) /\ (Len(batch[c]) # 1 => Tail(batch[c]) # <<>>)
  <2>1. PICK b \in Seq(Calls) : b = batch[c] /\ b # <<>>
    BY <1>0
  <2>2. /\ Tail(b) \in Seq(Calls)
        /\ Len(Tail(b)) = Len(b) - 1 /\ Len(b) \in Nat
    BY <2>1, HeadTail
  <2>3. Len(b) # 1 => Len(Tail(b)) # 0
    BY ONLY <2>2
  <2>4. Tail(b) = <<>> => Len(Tail(b)) = 0
    BY ONLY EmptySeq
  <2> QED
    BY <2>1, <2>2, <2>3, <2>4
<1>5. messages' \in [Convs -> Seq(Messages)] /\ unlogged' \in [Convs -> Seq(Messages)]
  <2>1. /\ messages[c] \in Seq(Messages) /\ messages \in [Convs -> Seq(Messages)]
        /\ unlogged[c] \in Seq(Messages) /\ unlogged \in [Convs -> Seq(Messages)]
    BY DEF TypeInv
  <2>2. Append(messages[c], m) \in Seq(Messages) /\ Append(unlogged[c], m) \in Seq(Messages)
    BY <2>1
  <2> QED
    BY ONLY <1>1, <2>1, <2>2, c \in Convs, ExceptType
<1>6. batch' \in [Convs -> Seq(Calls)] /\ batch'[c] = Tail(batch[c]) /\ \A d \in Convs : d # c => batch'[d] = batch[d]
  BY <1>0, <1>2 DEF TypeInv
<1>7. world' \subseteq Sends
  <2>1. call.send => Gone(active[c], call, out) \in Sends
    BY ONLY <1>0, call \in Calls, out \in {"ok", "err"} DEF Gone, Sends
  <2> QED
    BY <1>1, <2>1 DEF TypeInv
<1>8. TypeInv'
  BY <1>0, <1>5, <1>6, <1>7 DEF CallReturns, TypeInv, counters
<1> QED
  BY <1>0, <1>2, <1>6, <1>8 DEF CallReturns, TypeInv, PhaseInv

\* What the flush of one message does: a row of it is added to the log.
LEMMA FlushEffect ==
    ASSUME TypeInv, PhaseInv, TailInv, NEW c \in Convs, FlushRow(c)
    PROVE  \E m \in Messages : \E x \in RowT :
               /\ unlogged[c] # <<>> /\ m = Head(unlogged[c]) /\ m.kind \in {"tool_call", "ok", "err"}
               /\ active[c] \in Runs /\ x = Row(active[c], KindOf(m), <<m>>)
               /\ rows' = [rows EXCEPT ![c] = rows[c] \o <<x>>]
<1>1. unlogged[c] \in Seq(Messages) /\ unlogged[c] # <<>> /\ rows[c] \in Seq(RowT)
  BY DEF TypeInv, FlushRow
<1>2. /\ Head(unlogged[c]) \in Messages /\ Head(unlogged[c]) = unlogged[c][1]
      /\ Len(unlogged[c]) \in Nat \ {0}
  BY <1>1, HeadTail
<1>3. PICK m \in Messages : m = Head(unlogged[c])
  BY <1>2
<1>4. m.kind \in {"tool_call", "ok", "err"}
  <2>1. 1 \in DOMAIN unlogged[c]
    BY <1>1, <1>2
  <2> QED
    BY <1>2, <1>3, <2>1 DEF TailInv
<1>5. active[c] \in Runs
  BY DEF TypeInv, PhaseInv, FlushRow
<1>6. PICK x \in RowT : x = Row(active[c], KindOf(m), <<m>>)
  BY <1>4, <1>5, MessageRowType
<1>7. rows' = [rows EXCEPT ![c] = Append(rows[c], x)]
  BY <1>3, <1>6 DEF FlushRow
<1>8. Append(rows[c], x) = rows[c] \o <<x>>
  BY <1>1, AppendIsConcat
<1> QED
  BY <1>1, <1>3, <1>4, <1>5, <1>6, <1>7, <1>8

\* The flush keeps the types.
LEMMA FlushType ==
    ASSUME TypeInv, PhaseInv, TailInv, NEW c \in Convs, FlushRow(c)
    PROVE  TypeInv' /\ PhaseInv'
<1>1. PICK x \in RowT : rows' = [rows EXCEPT ![c] = rows[c] \o <<x>>] /\ unlogged[c] # <<>>
  BY FlushEffect
<1>2. rows' \in [Convs -> Seq(RowT)]
  <2>1. PICK y \in Seq(RowT) : y = <<x>>
    <3>1. <<x>> \in Seq(RowT)
      OBVIOUS
    <3> QED
      BY ONLY <3>1
  <2> QED
    BY <1>1, <2>1, RowsAdded
<1>3. unlogged' \in [Convs -> Seq(Messages)]
  <2>1. unlogged[c] \in Seq(Messages) /\ unlogged \in [Convs -> Seq(Messages)]
    BY DEF TypeInv
  <2>2. Tail(unlogged[c]) \in Seq(Messages)
    BY <1>1, <2>1, HeadTail
  <2>3. unlogged' = [unlogged EXCEPT ![c] = Tail(unlogged[c])]
    BY DEF FlushRow
  <2> QED
    BY ONLY <2>1, <2>2, <2>3, c \in Convs, ExceptType
<1> QED
  BY <1>2, <1>3 DEF FlushRow, TypeInv, PhaseInv, counters, history

\* So does the next request.
LEMMA RequestType ==
    ASSUME TypeInv, PhaseInv, NEW c \in Convs, Request(c)
    PROVE  TypeInv' /\ PhaseInv'
<1>1. active[c] \in Runs
  BY DEF TypeInv, PhaseInv, Request
<1>2. seen' \in [Runs -> Seq(Messages)]
  BY <1>1 DEF TypeInv, Request
<1>3. phase' = [phase EXCEPT ![c] = "turn"] /\ phase[c] = "flush"
  BY DEF Request
<1> QED
  BY <1>2, <1>3 DEF Request, TypeInv, PhaseInv, counters

\* What the end of a loop does, with the reason it ends for.
LEMMA EndEffect ==
    ASSUME TypeInv, PhaseInv, NEW c \in Convs, EndLoop(c)
    PROVE  \E why \in {"over", "cut"} : \E x \in Seq(RowT) :
               /\ CanEnd(c, why) /\ phase' = [phase EXCEPT ![c] = why]
               /\ x = Answer(c, why) \o <<Row(active[c], "stop", <<>>)>>
               /\ rows' = [rows EXCEPT ![c] = rows[c] \o x]
               /\ checks' \subseteq checks /\ active[c] \in Runs
               /\ phase[c] \in {"turn", "flush"}
<1>1. PICK why \in Reasons \ {"none"} :
          /\ CanEnd(c, why)
          /\ phase' = [phase EXCEPT ![c] = why]
          /\ rows' = [rows EXCEPT ![c] = @ \o Answer(c, why) \o <<Row(active[c], "stop", <<>>)>>]
          /\ \/ checks' = checks \ {<<c, active[c]>>}
             \/ Answer(c, why) # <<>> /\ checks' = checks
  BY DEF EndLoop
<1>2. why \in {"over", "cut"} /\ phase[c] \in {"turn", "flush"}
  BY <1>1 DEF Reasons, CanEnd
<1>3. active[c] \in Runs /\ active[c] # NoRun
  BY <1>2 DEF TypeInv, PhaseInv, Runs, NoRun
<1>4. PICK y \in RowT : y = Row(active[c], "stop", <<>>)
  <2>1. <<>> \in Seq(Messages)
    OBVIOUS
  <2> QED
    BY <1>3, <2>1, MsgRowType DEF RowKinds
<1>5. Answer(c, why) \in Seq(RowT)
  <2>1. Msg("assistant", <<>>) \in Messages
    BY MsgRowType DEF MsgKinds
  <2>2. <<Msg("assistant", <<>>)>> \in Seq(Messages)
    BY <2>1
  <2>3. PICK z \in RowT : z = Row(active[c], "assistant", <<Msg("assistant", <<>>)>>)
    BY <1>3, <2>2, MsgRowType DEF RowKinds
  <2>4. Answer(c, why) = <<>> \/ Answer(c, why) = <<z>>
    BY <2>3 DEF Answer
  <2>5. <<>> \in Seq(RowT) /\ <<z>> \in Seq(RowT)
    OBVIOUS
  <2> QED
    BY ONLY <2>4, <2>5
<1>6. PICK a \in Seq(RowT), b \in Seq(RowT) : a = Answer(c, why) /\ b = <<y>>
  <2>1. <<y>> \in Seq(RowT)
    OBVIOUS
  <2> QED
    BY ONLY <1>5, <2>1
<1>7. PICK x \in Seq(RowT) : x = a \o b
  BY ConcatProperties
<1>8. (rows[c] \o a) \o b = rows[c] \o x
  <2>1. rows[c] \in Seq(RowT)
    BY DEF TypeInv
  <2>2. (rows[c] \o a) \o b = rows[c] \o (a \o b)
    <3>1. Associates(Seq(RowT))
      BY ONLY SeqAssociates, Zenon
    <3> QED
      BY ONLY <2>1, <3>1, a \in Seq(RowT), b \in Seq(RowT), Zenon DEF Associates
  <2> QED
    BY ONLY <1>7, <2>2
<1>9. checks' \subseteq checks
  BY <1>1
<1>10. x = Answer(c, why) \o <<Row(active[c], "stop", <<>>)>>
  BY ONLY <1>4, <1>6, <1>7
<1>11. rows' = [rows EXCEPT ![c] = rows[c] \o x]
  BY ONLY <1>1, <1>4, <1>6, <1>8
<1> QED
  BY <1>1, <1>2, <1>3, <1>9, <1>10, <1>11

\* The end of a loop keeps the types.
LEMMA EndType ==
    ASSUME TypeInv, PhaseInv, NEW c \in Convs, EndLoop(c)
    PROVE  TypeInv' /\ PhaseInv'
<1>1. PICK why \in {"over", "cut"}, x \in Seq(RowT) :
               /\ phase' = [phase EXCEPT ![c] = why]
               /\ rows' = [rows EXCEPT ![c] = rows[c] \o x]
               /\ checks' \subseteq checks /\ phase[c] \in {"turn", "flush"}
  BY EndEffect
<1>2. rows' \in [Convs -> Seq(RowT)]
  BY <1>1, RowsAdded
<1>3. unlogged' \in [Convs -> Seq(Messages)]
  <2>1. <<>> \in Seq(Messages) /\ unlogged \in [Convs -> Seq(Messages)]
    BY DEF TypeInv
  <2>2. unlogged' = [unlogged EXCEPT ![c] = <<>>]
    BY DEF EndLoop
  <2> QED
    BY ONLY <2>1, <2>2, c \in Convs, ExceptType
<1>4. phase' \in [Convs -> Phases]
  BY <1>1 DEF TypeInv, Phases, Reasons
<1>5. TypeInv'
  BY <1>1, <1>2, <1>3, <1>4 DEF EndLoop, TypeInv, Phases, counters, history
<1> QED
  BY <1>1, <1>5 DEF EndLoop, TypeInv, PhaseInv

\* The reason is saved on the last turn.
LEMMA FinalizeEffect ==
    ASSUME TypeInv, NEW c \in Convs, Finalize(c)
    PROVE  /\ turns' \in [Convs -> Seq(TurnT)]
           /\ \A d \in Convs : Len(turns'[d]) = Len(turns[d]) /\ (d # c => turns'[d] = turns[d])
           /\ \A n \in DOMAIN turns[c] :
                 turns'[c][n] = IF n = Len(turns[c]) THEN [turns[c][n] EXCEPT !.reason = phase[c]]
                                ELSE turns[c][n]
<1>1. turns[c] \in Seq(TurnT) /\ turns \in [Convs -> Seq(TurnT)] /\ phase[c] \in Reasons
  BY DEF TypeInv, Finalize
<1>2. PICK t \in Seq(TurnT) : t = turns[c]
  BY <1>1
<1>3. PICK u : u = [t EXCEPT ![Len(t)].reason = phase[c]]
  OBVIOUS
<1>4. turns' = [turns EXCEPT ![c] = u]
  BY <1>2, <1>3 DEF Finalize
<1>5. \A n \in 1..Len(t) : t[n] \in TurnT /\ [t[n] EXCEPT !.reason = phase[c]] \in TurnT
  <2>1. \A x \in TurnT : [x EXCEPT !.reason = phase[c]] \in TurnT
    BY <1>1 DEF TurnT
  <2>2. \A n \in 1..Len(t) : t[n] \in TurnT
    OBVIOUS
  <2> QED
    BY <2>1, <2>2
<1>6. u = [n \in 1..Len(t) |-> IF n = Len(t) THEN [t[n] EXCEPT !.reason = phase[c]] ELSE t[n]]
  <2>1. DOMAIN t = 1..Len(t)
    OBVIOUS
  <2> QED
    BY ONLY <1>3, <2>1
<1>7. u \in [1..Len(t) -> TurnT] /\ Len(t) \in Nat
  BY <1>5, <1>6
<1>8. u \in Seq(TurnT) /\ Len(u) = Len(t)
  BY ONLY <1>7, FunctionIsSeq
<1>9. turns' \in [Convs -> Seq(TurnT)]
  BY ONLY <1>1, <1>4, <1>8, c \in Convs, ExceptType
<1>10. turns'[c] = u /\ \A d \in Convs : d # c => turns'[d] = turns[d]
  BY <1>1, <1>4
<1>11. DOMAIN t = 1..Len(t)
  OBVIOUS
<1> QED
  BY <1>2, <1>6, <1>8, <1>9, <1>10, <1>11

\* The end of a turn keeps the types.
LEMMA FinalizeType ==
    ASSUME TypeInv, PhaseInv, NEW c \in Convs, Finalize(c)
    PROVE  TypeInv' /\ PhaseInv'
<1>1. turns' \in [Convs -> Seq(TurnT)]
  BY FinalizeEffect
<1>2. messages' \in [Convs -> Seq(Messages)]
  <2>1. <<>> \in Seq(Messages) /\ messages \in [Convs -> Seq(Messages)]
    BY DEF TypeInv
  <2>2. messages' = [messages EXCEPT ![c] = <<>>]
    BY DEF Finalize
  <2> QED
    BY ONLY <2>1, <2>2, c \in Convs, ExceptType
<1>3. phase' = [phase EXCEPT ![c] = "idle"] /\ active' = [active EXCEPT ![c] = NoRun]
  BY DEF Finalize
<1>4. TypeInv'
  BY <1>1, <1>2, <1>3 DEF Finalize, TypeInv, counters, history
<1> QED
  BY <1>3, <1>4 DEF Finalize, TypeInv, PhaseInv

\* What a decision does: a row about the run going on, or about one whose
\* answer is being checked.
LEMMA DecisionEffect ==
    ASSUME TypeInv, NEW c \in Convs, DecisionRow(c)
    PROVE  \E r \in Runs : \E x \in RowT :
               /\ (r = active[c] /\ phase[c] \in {"turn", "batch"}) \/ <<c, r>> \in checks
               /\ x = Row(r, "decision", <<Msg("decision", <<>>)>>)
               /\ rows' = [rows EXCEPT ![c] = rows[c] \o <<x>>]
<1>1. PICK r \in Runs :
          /\ (r = active[c] /\ phase[c] \in {"turn", "batch"}) \/ <<c, r>> \in checks
          /\ rows' = [rows EXCEPT ![c] = Append(@, Row(r, "decision", <<Msg("decision", <<>>)>>))]
  BY DEF DecisionRow
<1>2. Msg("decision", <<>>) \in Messages
  BY MsgRowType DEF MsgKinds
<1>3. <<Msg("decision", <<>>)>> \in Seq(Messages)
  BY <1>2
<1>4. PICK x \in RowT : x = Row(r, "decision", <<Msg("decision", <<>>)>>)
  BY <1>3, MsgRowType DEF RowKinds
<1>5. rows[c] \in Seq(RowT)
  BY DEF TypeInv
<1>6. Append(rows[c], x) = rows[c] \o <<x>>
  BY <1>5, AppendIsConcat
<1>7. rows' = [rows EXCEPT ![c] = rows[c] \o <<x>>]
  BY <1>1, <1>4, <1>6
<1> QED
  BY <1>1, <1>4, <1>7

\* A decision keeps the types.
LEMMA DecisionType ==
    ASSUME TypeInv, PhaseInv, NEW c \in Convs, DecisionRow(c)
    PROVE  TypeInv' /\ PhaseInv'
<1>1. PICK x \in RowT : rows' = [rows EXCEPT ![c] = rows[c] \o <<x>>]
  BY DecisionEffect
<1>2. PICK y \in Seq(RowT) : y = <<x>>
  <2>1. <<x>> \in Seq(RowT)
    OBVIOUS
  <2> QED
    BY ONLY <2>1
<1>3. rows' \in [Convs -> Seq(RowT)]
  BY <1>1, <1>2, RowsAdded
<1>4. decisions' \in 0..MaxDecisions
  BY SessionsAssumption DEF TypeInv, DecisionRow
<1> QED
  BY <1>3, <1>4 DEF DecisionRow, TypeInv, PhaseInv, history

\* What comes first in a sequence.
LEMMA FirstPart ==
    ASSUME NEW S, NEW s \in Seq(S), NEW n \in 0..Len(s)
    PROVE  \E t \in Seq(S) : t = SubSeq(s, 1, n) /\ Len(t) = n /\ \A i \in 1..n : t[i] = s[i]
<1>1. /\ SubSeq(s, 1, n) \in Seq(S) /\ Len(SubSeq(s, 1, n)) = n
      /\ \A i \in 1..n : SubSeq(s, 1, n)[i] = s[i]
  OBVIOUS
<1> QED
  BY <1>1

\* Where the log is cut: no later than its end, and not before the rows that
\* preceded a turn that is kept.
LEMMA CutIs ==
    ASSUME TypeInv, PlaceInv, NEW c \in Convs, NEW n \in 1..Len(turns[c])
    PROVE  /\ Cut(c, n) \in 0..Len(rows[c])
           /\ \A k \in 1..n : turns[c][k].at <= Cut(c, n)
<1>1. turns[c] \in Seq(TurnT) /\ Len(rows[c]) \in Nat
  BY DEF TypeInv
<1>2. DOMAIN turns[c] = 1..Len(turns[c]) /\ Len(turns[c]) \in Nat /\ \A k \in 1..Len(turns[c]) : turns[c][k].at \in Nat
  <2>1. \A k \in 1..Len(turns[c]) : turns[c][k] \in TurnT
    BY <1>1
  <2> QED
    BY <1>1, <2>1 DEF TurnT
<1>3. CASE n = Len(turns[c])
  BY <1>1, <1>2, <1>3 DEF Cut, PlaceInv
<1>4. CASE n # Len(turns[c])
  <2>1. n + 1 \in DOMAIN turns[c] /\ \A k \in 1..n : k \in DOMAIN turns[c] /\ k <= n + 1
    BY <1>2, <1>4
  <2>2. Cut(c, n) = turns[c][n + 1].at
    BY <1>4 DEF Cut
  <2> QED
    BY <1>1, <1>2, <2>1, <2>2 DEF PlaceInv
<1> QED
  BY <1>3, <1>4

\* What a branch does: the first turns and the rows up to the cut are copied.
LEMMA ForkEffect ==
    ASSUME TypeInv, PlaceInv, NEW c \in Convs, NEW d \in Convs, Fork(c, d)
    PROVE  \E n \in 1..Len(turns[c]) : \E t \in Seq(TurnT) : \E s \in Seq(RowT) :
               /\ turns' = [turns EXCEPT ![d] = t] /\ rows' = [rows EXCEPT ![d] = s]
               /\ Len(t) = n /\ (\A k \in 1..n : t[k] = turns[c][k])
               /\ Len(s) = Cut(c, n) /\ (\A i \in 1..Len(s) : s[i] = rows[c][i])
<1>1. PICK n \in 1..Len(turns[c]) :
          /\ turns' = [turns EXCEPT ![d] = SubSeq(turns[c], 1, n)]
          /\ rows' = [rows EXCEPT ![d] = SubSeq(rows[c], 1, Cut(c, n))]
  BY DEF Fork
<1>2. turns[c] \in Seq(TurnT) /\ rows[c] \in Seq(RowT)
  BY DEF TypeInv
<1>3. n \in 0..Len(turns[c])
  BY <1>2
<1>4. Cut(c, n) \in 0..Len(rows[c])
  BY CutIs
<1>5. \E s \in Seq(RowT) : s = SubSeq(rows[c], 1, Cut(c, n)) /\ Len(s) = Cut(c, n)
                             /\ (\A i \in 1..Cut(c, n) : s[i] = rows[c][i])
  <2>0. PICK l \in Seq(RowT) : l = rows[c]
    BY <1>2
  <2>1. PICK k \in 0..Len(l) : l = rows[c] /\ k = Cut(c, n)
    BY <1>4, <2>0
  <2>2. \E s \in Seq(RowT) : s = SubSeq(l, 1, k) /\ Len(s) = k /\ \A i \in 1..k : s[i] = l[i]
    BY ONLY FirstPart
  <2> QED
    BY ONLY <2>1, <2>2
<1>6. \E t \in Seq(TurnT) : t = SubSeq(turns[c], 1, n) /\ Len(t) = n /\ (\A k \in 1..n : t[k] = turns[c][k])
  BY <1>2, <1>3, FirstPart
<1>7. PICK s \in Seq(RowT) : s = SubSeq(rows[c], 1, Cut(c, n)) /\ Len(s) = Cut(c, n)
                             /\ (\A i \in 1..Cut(c, n) : s[i] = rows[c][i])
  BY ONLY <1>5
<1>8. PICK t \in Seq(TurnT) : t = SubSeq(turns[c], 1, n) /\ Len(t) = n /\ (\A k \in 1..n : t[k] = turns[c][k])
  BY ONLY <1>6
<1> QED
  BY ONLY <1>1, <1>7, <1>8

\* A branch keeps the types.
LEMMA ForkType ==
    ASSUME TypeInv, PhaseInv, PlaceInv, NEW c \in Convs, NEW d \in Convs, Fork(c, d)
    PROVE  TypeInv' /\ PhaseInv'
<1>1. PICK t \in Seq(TurnT), s \in Seq(RowT) :
               turns' = [turns EXCEPT ![d] = t] /\ rows' = [rows EXCEPT ![d] = s]
  BY ForkEffect
<1>2. rows \in [Convs -> Seq(RowT)] /\ turns \in [Convs -> Seq(TurnT)]
  BY DEF TypeInv
<1>3. rows' \in [Convs -> Seq(RowT)] /\ turns' \in [Convs -> Seq(TurnT)]
  BY ONLY <1>1, <1>2, d \in Convs, ExceptType
<1> QED
  BY <1>3 DEF Fork, TypeInv, PhaseInv, counters, history

\* What is under way is of runs that are going on.
LEMMA UnderWayIs ==
    ASSUME TypeInv, PhaseInv, NEW w \in UnderWay
    PROVE  w \in Sends /\ \E c \in Convs : active[c] \in Runs /\ w.run = active[c]
<1>1. PICK c \in Convs : phase[c] = "batch" /\ batch[c][1].send /\ w = Gone(active[c], batch[c][1], "lost")
  BY DEF UnderWay
<1>2. active[c] \in Runs /\ batch[c] # <<>> /\ batch[c] \in Seq(Calls)
  BY <1>1 DEF PhaseInv, TypeInv
<1>3. batch[c][1] \in Calls
  BY ONLY <1>2
<1> QED
  BY ONLY <1>1, <1>2, <1>3 DEF Gone, Sends

\* So does the death of the app.
LEMMA CrashType ==
    ASSUME TypeInv, PhaseInv, Crash
    PROVE  TypeInv' /\ PhaseInv'
<1>0. world' \subseteq Sends
  BY UnderWayIs DEF Crash, TypeInv
<1>1. faults' \in 0..MaxFaults
  BY SessionsAssumption DEF TypeInv, Crash
<1>2. \A S : <<>> \in Seq(S)
  BY ONLY EmptySeq
<1>3. /\ active' \in [Convs -> Runs \cup {NoRun}] /\ phase' \in [Convs -> Phases]
      /\ messages' \in [Convs -> Seq(Messages)] /\ unlogged' \in [Convs -> Seq(Messages)]
      /\ batch' \in [Convs -> Seq(Calls)] /\ checks' = {}
  BY <1>2 DEF Crash, Phases
<1>4. TypeInv'
  BY <1>0, <1>1, <1>3 DEF Crash, TypeInv, Phases
<1>5. PhaseInv'
  BY DEF Crash, PhaseInv
<1> QED
  BY <1>4, <1>5

\* A turn that starts a run launches it on an array of messages.
LEMMA StartEffect ==
    ASSUME TypeInv, NEW c \in Convs, StartTurn(c) \/ Resume(c)
    PROVE  /\ \E opening \in Seq(Messages) : Launch(c, opening)
           /\ from' \in [Runs -> Runs \cup {NoRun}] /\ Free
<1>0. Free
  BY DEF StartTurn, Resume
<1>1. CASE StartTurn(c)
  <2>1. Msg("prompt", <<>>) \in Messages
    BY MsgRowType DEF MsgKinds
  <2>2. <<Msg("prompt", <<>>)>> \in Seq(Messages)
    BY <2>1
  <2>3. Launch(c, <<Msg("prompt", <<>>)>>) /\ from' = from
    BY <1>1 DEF StartTurn
  <2> QED
    BY <1>0, <2>2, <2>3 DEF TypeInv
<1>2. CASE Resume(c)
  <2>1. Resumed(LastLogged(c)) \in Seq(Messages)
    BY ResumedType
  <2>2. LastLogged(c) \in Runs
    <3>1. rows[c] \in Seq(RowT) /\ rows[c] # <<>>
      BY <1>2 DEF TypeInv, Resume, LastLogged
    <3>2. rows[c][Len(rows[c])] \in RowT
      BY <3>1
    <3> QED
      BY <3>1, <3>2 DEF LastLogged, RowT
  <2>3. from' \in [Runs -> Runs \cup {NoRun}]
    <3>1. from' = [from EXCEPT ![nextRun] = LastLogged(c)]
      BY <1>2 DEF Resume
    <3> QED
      BY <2>2, <3>1 DEF TypeInv
  <2>4. Launch(c, Resumed(LastLogged(c)))
    BY <1>2 DEF Resume
  <2> QED
    BY <1>0, <2>1, <2>3, <2>4
<1> QED
  BY <1>0, <1>1, <1>2

\* It keeps the types.
LEMMA StartType ==
    ASSUME TypeInv, PhaseInv, NEW c \in Convs, StartTurn(c) \/ Resume(c)
    PROVE  TypeInv' /\ PhaseInv'
<1>0. nextRun \in Nat /\ nextRun # 0
  BY DEF TypeInv
<1>1. PICK opening \in Seq(Messages) : Launch(c, opening) /\ from' \in [Runs -> Runs \cup {NoRun}]
  BY StartEffect
<1>2. TypeInv'
  BY <1>1, LaunchType
<1>3. phase' = [phase EXCEPT ![c] = "turn"] /\ active' = [active EXCEPT ![c] = nextRun] /\ batch' = batch
  BY <1>1 DEF Launch
<1> QED
  BY <1>0, <1>2, <1>3 DEF TypeInv, PhaseInv, NoRun
-----------------------------------------------------------------------------
(************************ logs grow, turns are kept ************************)

\* What a launch writes: a turn and the row of its prompt.
LEMMA LaunchEffect ==
    ASSUME TypeInv, NEW c \in Convs, NEW opening \in Seq(Messages), Launch(c, opening)
    PROVE  \E t \in TurnT : \E x \in RowT :
               /\ nextRun \in Runs /\ nextRun' = nextRun + 1
               /\ t = [run |-> nextRun, reason |-> "none", at |-> Len(rows[c])]
               /\ turns' = [turns EXCEPT ![c] = Append(turns[c], t)]
               /\ x = Row(nextRun, "prompt", opening)
               /\ rows' = [rows EXCEPT ![c] = rows[c] \o <<x>>]
<1>1. nextRun \in Runs /\ nextRun' = nextRun + 1
  BY SessionsAssumption DEF TypeInv, Launch, Runs
<1>2. rows[c] \in Seq(RowT) /\ Len(rows[c]) \in Nat
  BY DEF TypeInv
<1>3. PICK t \in TurnT : t = [run |-> nextRun, reason |-> "none", at |-> Len(rows[c])]
  BY <1>1, <1>2 DEF TurnT, Reasons
<1>4. PICK x \in RowT : x = Row(nextRun, "prompt", opening)
  BY <1>1, MsgRowType DEF RowKinds
<1>5. Append(rows[c], x) = rows[c] \o <<x>>
  BY <1>2, AppendIsConcat
<1>6. turns' = [turns EXCEPT ![c] = Append(turns[c], t)] /\ rows' = [rows EXCEPT ![c] = Append(rows[c], x)]
  BY <1>3, <1>4 DEF Launch
<1> QED
  BY <1>1, <1>3, <1>4, <1>5, <1>6

\* Whatever happens, every log goes on from what it was.
Grown == \A c \in Convs : \E x \in Seq(RowT) : rows'[c] = rows[c] \o x

\* Rows added to one log: all have grown.
LEMMA AddedGrown ==
    ASSUME TypeInv, NEW c \in Convs, NEW x \in Seq(RowT), rows' = [rows EXCEPT ![c] = rows[c] \o x]
    PROVE  Grown
<1> SUFFICES ASSUME NEW d \in Convs PROVE \E y \in Seq(RowT) : rows'[d] = rows[d] \o y
  BY DEF Grown
<1>1. CASE d = c
  <2>1. rows'[c] = rows[c] \o x
    BY DEF TypeInv
  <2> QED
    BY <1>1, <2>1
<1>2. CASE d # c
  <2>1. rows'[d] = rows[d] /\ rows[d] \in Seq(RowT)
    BY <1>2 DEF TypeInv
  <2>2. rows[d] \o <<>> = rows[d] /\ <<>> \in Seq(RowT)
    BY <2>1, ConcatEmptySeq, EmptySeq
  <2> QED
    BY <2>1, <2>2
<1> QED
  BY <1>1, <1>2

\* A log that did not change has grown by nothing.
LEMMA SameGrown == ASSUME TypeInv, rows' = rows PROVE Grown
<1> SUFFICES ASSUME NEW d \in Convs PROVE \E y \in Seq(RowT) : rows'[d] = rows[d] \o y
  BY DEF Grown
<1>1. rows'[d] = rows[d] /\ rows[d] \in Seq(RowT)
  BY DEF TypeInv
<1>2. rows[d] \o <<>> = rows[d] /\ <<>> \in Seq(RowT)
  BY <1>1, ConcatEmptySeq, EmptySeq
<1> QED
  BY <1>1, <1>2

\* One row more.
LEMMA OneGrown ==
    ASSUME TypeInv, NEW c \in Convs, NEW x \in RowT, rows' = [rows EXCEPT ![c] = rows[c] \o <<x>>]
    PROVE  Grown
<1>1. <<x>> \in Seq(RowT)
  OBVIOUS
<1> QED
  BY <1>1, AddedGrown

\* Every step: a branch is made in a conversation without rows.
LEMMA StepGrown ==
    ASSUME TypeInv, PhaseInv, TailInv, PlaceInv, \A c \in Convs : turns[c] = <<>> => rows[c] = <<>>,
           [Next]_vars
    PROVE  Grown
<1>1. ASSUME NEW c \in Convs, StartTurn(c) \/ Resume(c) PROVE Grown
  <2>1. PICK opening \in Seq(Messages) : Launch(c, opening)
    BY <1>1, StartEffect
  <2>2. PICK x \in RowT : rows' = [rows EXCEPT ![c] = rows[c] \o <<x>>]
    BY <2>1, LaunchEffect
  <2> QED
    BY <2>2, OneGrown
<1>2. ASSUME NEW c \in Convs, FlushRow(c) PROVE Grown
  <2>1. PICK x \in RowT : rows' = [rows EXCEPT ![c] = rows[c] \o <<x>>]
    BY <1>2, FlushEffect
  <2> QED
    BY <2>1, OneGrown
<1>3. ASSUME NEW c \in Convs, DecisionRow(c) PROVE Grown
  <2>1. PICK x \in RowT : rows' = [rows EXCEPT ![c] = rows[c] \o <<x>>]
    BY <1>3, DecisionEffect
  <2> QED
    BY <2>1, OneGrown
<1>4. ASSUME NEW c \in Convs, EndLoop(c) PROVE Grown
  <2>1. PICK x \in Seq(RowT) : rows' = [rows EXCEPT ![c] = rows[c] \o x]
    BY <1>4, EndEffect
  <2> QED
    BY <2>1, AddedGrown
<1>5. ASSUME NEW c \in Convs, NEW d \in Convs, Fork(c, d) PROVE Grown
  <2>1. PICK s \in Seq(RowT) : rows' = [rows EXCEPT ![d] = s]
    BY <1>5, ForkEffect
  <2>2. rows[d] = <<>> /\ <<>> \o s = s
    BY <1>5, ConcatEmptySeq DEF Fork
  <2>3. rows' = [rows EXCEPT ![d] = rows[d] \o s]
    BY ONLY <2>1, <2>2
  <2> QED
    BY <2>3, AddedGrown
<1>6. ASSUME NEW c \in Convs, ResumeRefused(c) \/ NoModel(c) \/ AskCalls(c) \/ CallReturns(c)
                              \/ Request(c) \/ Finalize(c)
      PROVE  Grown
  <2>1. rows' = rows
    BY <1>6 DEF ResumeRefused, NoModel, RowOnly, AskCalls, CallReturns, Request, Finalize
  <2> QED
    BY <2>1, SameGrown
<1>7. ASSUME Crash \/ UNCHANGED vars PROVE Grown
  <2>1. rows' = rows
    BY <1>7 DEF Crash, vars
  <2> QED
    BY <2>1, SameGrown
<1> QED
  BY <1>1, <1>2, <1>3, <1>4, <1>5, <1>6, <1>7 DEF Next

\* The rows that were there stay where they are.
LEMMA GrownKeeps ==
    ASSUME TypeInv, Grown, NEW c \in Convs
    PROVE  /\ Len(rows[c]) \in Nat /\ Len(rows'[c]) \in Nat /\ Len(rows[c]) <= Len(rows'[c])
           /\ DOMAIN rows[c] = 1..Len(rows[c]) /\ DOMAIN rows'[c] = 1..Len(rows'[c])
           /\ \A i \in 1..Len(rows[c]) : rows'[c][i] = rows[c][i]
<1>1. PICK s \in Seq(RowT), x \in Seq(RowT) : s = rows[c] /\ rows'[c] = s \o x
  BY DEF TypeInv, Grown
<1>2. /\ Len(s) \in Nat /\ Len(s \o x) \in Nat /\ Len(s) <= Len(s \o x)
      /\ DOMAIN s = 1..Len(s) /\ DOMAIN (s \o x) = 1..Len(s \o x)
      /\ \A i \in 1..Len(s) : (s \o x)[i] = s[i]
  OBVIOUS
<1> QED
  BY ONLY <1>1, <1>2

\* One element more at the end.
LEMMA AppendParts ==
    ASSUME NEW S, NEW s \in Seq(S), NEW e \in S
    PROVE  /\ Append(s, e) \in Seq(S) /\ Len(Append(s, e)) = Len(s) + 1 /\ Len(s) \in Nat
           /\ DOMAIN Append(s, e) = 1..(Len(s) + 1) /\ DOMAIN s = 1..Len(s)
           /\ Append(s, e)[Len(s) + 1] = e
           /\ \A i \in 1..Len(s) : Append(s, e)[i] = s[i]
           /\ Append(s, e) # <<>>
  OBVIOUS

\* A turn more in conversation c: it is the last, and those before are the same.
TurnAdded(c, t) ==
    /\ \A d \in Convs : d # c => turns'[d] = turns[d]
    /\ DOMAIN turns'[c] = 1..(Len(turns[c]) + 1) /\ DOMAIN turns[c] = 1..Len(turns[c])
    /\ Len(turns'[c]) = Len(turns[c]) + 1 /\ Len(turns[c]) \in Nat /\ turns'[c] # <<>>
    /\ turns'[c][Len(turns[c]) + 1] = t
    /\ \A n \in 1..Len(turns[c]) : turns'[c][n] = turns[c][n]

\* That is what appending a turn does.
LEMMA AddsTurn ==
    ASSUME TypeInv, NEW c \in Convs, NEW t \in TurnT, turns' = [turns EXCEPT ![c] = Append(turns[c], t)]
    PROVE  TurnAdded(c, t)
<1>1. PICK s \in Seq(TurnT) : s = turns[c]
  BY DEF TypeInv
<1>2. turns'[c] = Append(s, t) /\ \A d \in Convs : d # c => turns'[d] = turns[d]
  BY <1>1 DEF TypeInv
<1>3. /\ Len(Append(s, t)) = Len(s) + 1 /\ Len(s) \in Nat
      /\ DOMAIN Append(s, t) = 1..(Len(s) + 1) /\ DOMAIN s = 1..Len(s)
      /\ Append(s, t)[Len(s) + 1] = t
      /\ \A i \in 1..Len(s) : Append(s, t)[i] = s[i]
      /\ Append(s, t) # <<>>
  BY AppendParts
<1> QED
  BY ONLY <1>1, <1>2, <1>3 DEF TurnAdded

\* The turn of a row-only message.
LEMMA RowOnlyEffect ==
    ASSUME TypeInv, NEW c \in Convs, RowOnly(c)
    PROVE  \E t \in TurnT : /\ t = [run |-> NoRun, reason |-> "none", at |-> Len(rows[c])]
                            /\ turns' = [turns EXCEPT ![c] = Append(turns[c], t)]
<1>1. Len(rows[c]) \in Nat
  BY DEF TypeInv
<1>2. PICK t \in TurnT : t = [run |-> NoRun, reason |-> "none", at |-> Len(rows[c])]
  BY <1>1 DEF TurnT, Reasons
<1> QED
  BY <1>2 DEF RowOnly

\* A turn's place is the end of the log, and the log only grows.
LEMMA PlaceAdded ==
    ASSUME TypeInv, PlaceInv, Grown, NEW c \in Convs, NEW t \in TurnT, TurnAdded(c, t), t.at = Len(rows[c])
    PROVE  PlaceInv'
<1>1. \A d \in Convs : /\ Len(rows[d]) \in Nat /\ Len(rows'[d]) \in Nat /\ Len(rows[d]) <= Len(rows'[d])
                       /\ \A n \in DOMAIN turns[d] : turns[d][n].at \in Nat /\ turns[d][n].at <= Len(rows[d])
  <2> TAKE d \in Convs
  <2>1. \A n \in DOMAIN turns[d] : turns[d][n] \in TurnT
    BY DEF TypeInv
  <2> QED
    BY <2>1, GrownKeeps DEF PlaceInv, TurnT
<1> SUFFICES ASSUME NEW d \in Convs
             PROVE  /\ \A n \in DOMAIN turns'[d] : turns'[d][n].at <= Len(rows'[d])
                    /\ \A m, n \in DOMAIN turns'[d] : m <= n => turns'[d][m].at <= turns'[d][n].at
  BY DEF PlaceInv
<1>2. CASE d # c
  <2>1. turns'[d] = turns[d]
    BY <1>2 DEF TurnAdded
  <2> QED
    BY <1>1, <2>1 DEF PlaceInv
<1>3. CASE d = c
  <2>1. \A n \in 1..Len(turns[c]) : n \in DOMAIN turns[c] /\ turns'[c][n] = turns[c][n]
    BY DEF TurnAdded
  <2>2. turns'[c][Len(turns[c]) + 1].at = Len(rows[c]) /\ DOMAIN turns'[c] = 1..(Len(turns[c]) + 1) /\ Len(turns[c]) \in Nat
    BY DEF TurnAdded
  <2>3. \A n \in DOMAIN turns'[c] : turns'[c][n].at <= Len(rows[c])
    BY <1>1, <2>1, <2>2
  <2>4. \A m, n \in DOMAIN turns'[c] : m <= n => turns'[c][m].at <= turns'[c][n].at
    <3> SUFFICES ASSUME NEW m \in DOMAIN turns'[c], NEW n \in DOMAIN turns'[c], m <= n
                 PROVE  turns'[c][m].at <= turns'[c][n].at
      OBVIOUS
    <3>1. CASE n = Len(turns[c]) + 1
      BY <2>2, <2>3, <3>1
    <3>2. CASE n # Len(turns[c]) + 1
      <4>1. m \in 1..Len(turns[c]) /\ n \in 1..Len(turns[c])
        BY <2>2, <3>2
      <4> QED
        BY <2>1, <4>1 DEF PlaceInv
    <3> QED
      BY <3>1, <3>2
  <2>5. \A n \in DOMAIN turns'[c] : turns'[c][n].at \in Nat
    BY <1>1, <2>1, <2>2
  <2> QED
    BY <1>1, <1>3, <2>3, <2>4, <2>5
<1> QED
  BY <1>2, <1>3

\* If no turn gets another place, the places stay good.
LEMMA PlaceKept ==
    ASSUME TypeInv, PlaceInv, Grown,
           \A d \in Convs : /\ DOMAIN turns'[d] = DOMAIN turns[d]
                            /\ \A n \in DOMAIN turns[d] : turns'[d][n].at = turns[d][n].at
    PROVE  PlaceInv'
<1>1. \A d \in Convs : /\ Len(rows[d]) \in Nat /\ Len(rows'[d]) \in Nat /\ Len(rows[d]) <= Len(rows'[d])
                       /\ \A n \in DOMAIN turns[d] : turns[d][n].at \in Nat /\ turns[d][n].at <= Len(rows[d])
  <2> TAKE d \in Convs
  <2>1. \A n \in DOMAIN turns[d] : turns[d][n] \in TurnT
    BY DEF TypeInv
  <2> QED
    BY <2>1, GrownKeeps DEF PlaceInv, TurnT
<1> QED
  BY <1>1 DEF PlaceInv

\* A branch has the places of the turns it keeps.
LEMMA PlaceFork ==
    ASSUME TypeInv, PlaceInv, NEW c \in Convs, NEW d \in Convs, Fork(c, d)
    PROVE  PlaceInv'
<1>1. PICK n \in 1..Len(turns[c]), t \in Seq(TurnT), s \in Seq(RowT) :
               /\ turns' = [turns EXCEPT ![d] = t] /\ rows' = [rows EXCEPT ![d] = s]
               /\ Len(t) = n /\ (\A k \in 1..n : t[k] = turns[c][k])
               /\ Len(s) = Cut(c, n) /\ (\A i \in 1..Len(s) : s[i] = rows[c][i])
  BY ForkEffect
<1>2. \A k \in 1..n : turns[c][k].at <= Cut(c, n)
  BY CutIs
<1>3. DOMAIN t = 1..n /\ \A k \in 1..n : k \in DOMAIN turns[c]
  <2>1. DOMAIN t = 1..Len(t)
    OBVIOUS
  <2>2. turns[c] \in Seq(TurnT)
    BY DEF TypeInv
  <2> QED
    BY <1>1, <2>1, <2>2
<1>4. \A e \in Convs : IF e = d THEN turns'[e] = t /\ rows'[e] = s ELSE turns'[e] = turns[e] /\ rows'[e] = rows[e]
  BY <1>1 DEF TypeInv
<1> SUFFICES ASSUME NEW e \in Convs
             PROVE  /\ \A k \in DOMAIN turns'[e] : turns'[e][k].at <= Len(rows'[e])
                    /\ \A j, k \in DOMAIN turns'[e] : j <= k => turns'[e][j].at <= turns'[e][k].at
  BY DEF PlaceInv
<1>5. CASE e = d
  <2>1. turns'[e] = t /\ rows'[e] = s
    BY <1>4, <1>5
  <2>2. \A k \in 1..n : t[k].at <= Len(s)
    BY <1>1, <1>2
  <2>3. \A j, k \in 1..n : j <= k => t[j].at <= t[k].at
    BY <1>1, <1>3 DEF PlaceInv
  <2> QED
    BY ONLY <1>3, <2>1, <2>2, <2>3
<1>6. CASE e # d
  <2>1. turns'[e] = turns[e] /\ rows'[e] = rows[e]
    BY <1>4, <1>6
  <2> QED
    BY <2>1 DEF PlaceInv
<1> QED
  BY <1>5, <1>6

\* Every step keeps the places.
LEMMA PlaceStep ==
    ASSUME TypeInv, PhaseInv, TailInv, PlaceInv, \A c \in Convs : turns[c] = <<>> => rows[c] = <<>>,
           [Next]_vars
    PROVE  PlaceInv'
<1>0. Grown
  BY StepGrown
<1>1. ASSUME NEW c \in Convs, StartTurn(c) \/ Resume(c) PROVE PlaceInv'
  <2>1. PICK opening \in Seq(Messages) : Launch(c, opening)
    BY <1>1, StartEffect
  <2>2. PICK t \in TurnT : /\ t = [run |-> nextRun, reason |-> "none", at |-> Len(rows[c])]
                           /\ turns' = [turns EXCEPT ![c] = Append(turns[c], t)]
    BY <2>1, LaunchEffect
  <2>3. TurnAdded(c, t) /\ t.at = Len(rows[c])
    BY <2>2, AddsTurn
  <2> QED
    BY <1>0, <2>3, PlaceAdded
<1>2. ASSUME NEW c \in Convs, ResumeRefused(c) \/ NoModel(c) PROVE PlaceInv'
  <2>1. PICK t \in TurnT : /\ t = [run |-> NoRun, reason |-> "none", at |-> Len(rows[c])]
                           /\ turns' = [turns EXCEPT ![c] = Append(turns[c], t)]
    BY <1>2, RowOnlyEffect DEF ResumeRefused, NoModel
  <2>2. TurnAdded(c, t) /\ t.at = Len(rows[c])
    BY <2>1, AddsTurn
  <2> QED
    BY <1>0, <2>2, PlaceAdded
<1>3. ASSUME NEW c \in Convs, Finalize(c) PROVE PlaceInv'
  <2>1. /\ \A d \in Convs : Len(turns'[d]) = Len(turns[d]) /\ (d # c => turns'[d] = turns[d])
        /\ turns' \in [Convs -> Seq(TurnT)]
        /\ \A n \in DOMAIN turns[c] :
                 turns'[c][n] = IF n = Len(turns[c]) THEN [turns[c][n] EXCEPT !.reason = phase[c]]
                                ELSE turns[c][n]
    BY <1>3, FinalizeEffect
  <2>2. \A d \in Convs : DOMAIN turns[d] = 1..Len(turns[d]) /\ DOMAIN turns'[d] = 1..Len(turns'[d])
    BY <2>1 DEF TypeInv
  <2>3. \A n \in DOMAIN turns[c] : turns[c][n] \in TurnT
    BY DEF TypeInv
  <2>4. \A x \in TurnT : [x EXCEPT !.reason = phase[c]].at = x.at
    BY DEF TurnT
  <2>5. \A d \in Convs : /\ DOMAIN turns'[d] = DOMAIN turns[d]
                         /\ \A n \in DOMAIN turns[d] : turns'[d][n].at = turns[d][n].at
    <3> TAKE d \in Convs
    <3>1. DOMAIN turns'[d] = DOMAIN turns[d]
      BY <2>1, <2>2
    <3>2. CASE d = c
      BY <2>1, <2>3, <2>4, <3>1, <3>2
    <3>3. CASE d # c
      BY <2>1, <3>3
    <3> QED
      BY <3>1, <3>2, <3>3
  <2> QED
    BY <1>0, <2>5, PlaceKept
<1>4. ASSUME NEW c \in Convs, NEW d \in Convs, Fork(c, d) PROVE PlaceInv'
  BY <1>4, PlaceFork
<1>5. ASSUME NEW c \in Convs, AskCalls(c) \/ CallReturns(c) \/ FlushRow(c) \/ Request(c) \/ EndLoop(c)
                              \/ DecisionRow(c)
      PROVE  PlaceInv'
  <2>1. turns' = turns
    BY <1>5 DEF AskCalls, CallReturns, FlushRow, Request, EndLoop, DecisionRow
  <2> QED
    BY <1>0, <2>1, PlaceKept
<1>6. ASSUME Crash \/ UNCHANGED vars PROVE PlaceInv'
  <2>1. turns' = turns
    BY <1>6 DEF Crash, vars
  <2> QED
    BY <1>0, <2>1, PlaceKept
<1> QED
  BY <1>1, <1>2, <1>3, <1>4, <1>5, <1>6 DEF Next

\* Where nothing is added to what waits, the rest of its invariant is kept.
LEMMA TailKept ==
    ASSUME TypeInv, TailInv, NEW c \in Convs,
           \A d \in Convs : d # c => unlogged'[d] = unlogged[d] /\ phase'[d] = phase[d],
           phase'[c] \notin {"batch", "flush"} => unlogged'[c] = <<>>,
           \A i \in DOMAIN unlogged'[c] : unlogged'[c][i].kind \in {"tool_call", "ok", "err"}
    PROVE  TailInv'
  BY DEF TailInv

\* What waits to be logged is a message with calls and results, and it waits
\* only while calls are made and logged.
LEMMA TailStep == ASSUME TypeInv, PhaseInv, TailInv, [Next]_vars PROVE TailInv'
<1>0. \A d \in Convs : unlogged[d] \in Seq(Messages)
  BY DEF TypeInv
<1>1. ASSUME NEW c \in Convs, StartTurn(c) \/ Resume(c) PROVE TailInv'
  <2>1. PICK opening \in Seq(Messages) : Launch(c, opening)
    BY <1>1, StartEffect
  <2>2. unlogged' = unlogged /\ phase' = [phase EXCEPT ![c] = "turn"] /\ active[c] = NoRun
    BY <1>1, <2>1 DEF Launch, StartTurn, Resume, Free
  <2>3. unlogged[c] = <<>>
    BY <2>2 DEF PhaseInv, TailInv
  <2> QED
    BY <2>2, <2>3 DEF TailInv, TypeInv
<1>2. ASSUME NEW c \in Convs, AskCalls(c) PROVE TailInv'
  <2>1. PICK ids \in Seq(Calls), m \in Messages :
               m = Msg("tool_call", ids) /\ unlogged' = [unlogged EXCEPT ![c] = <<m>>]
    BY <1>2, AskEffect
  <2>2. m.kind = "tool_call" /\ unlogged'[c] = <<m>> /\ \A d \in Convs : d # c => unlogged'[d] = unlogged[d]
    BY <2>1 DEF Msg, TypeInv
  <2>3. phase' = [phase EXCEPT ![c] = "batch"]
    BY <1>2 DEF AskCalls
  <2>4. \A i \in DOMAIN <<m>> : <<m>>[i] = m
    OBVIOUS
  <2>5. phase'[c] = "batch" /\ \A d \in Convs : d # c => phase'[d] = phase[d]
    BY <2>3 DEF TypeInv
  <2> QED
    BY <2>2, <2>4, <2>5, TailKept
<1>3. ASSUME NEW c \in Convs, CallReturns(c) PROVE TailInv'
  <2>1. PICK call \in Calls, out \in {"ok", "err"}, m \in Messages :
               /\ batch[c] # <<>> /\ call = Head(batch[c]) /\ m = Msg(out, <<call>>)
               /\ active[c] \in Runs
               /\ messages' = [messages EXCEPT ![c] = Append(messages[c], m)]
               /\ unlogged' = [unlogged EXCEPT ![c] = Append(unlogged[c], m)]
               /\ world' = IF call.send THEN world \cup {Gone(active[c], call, out)} ELSE world
    BY ONLY TypeInv, PhaseInv, <1>3, ReturnEffect
  <2>2. m.kind \in {"tool_call", "ok", "err"} /\ unlogged'[c] = Append(unlogged[c], m)
        /\ \A d \in Convs : d # c => unlogged'[d] = unlogged[d]
    BY <2>1 DEF Msg, TypeInv
  <2>3. phase'[c] \in {"batch", "flush"} /\ \A d \in Convs : d # c => phase'[d] = phase[d]
    BY <1>3 DEF CallReturns, TypeInv
  <2>4. \A i \in DOMAIN Append(unlogged[c], m) :
          Append(unlogged[c], m)[i] = m \/ (i \in DOMAIN unlogged[c] /\ Append(unlogged[c], m)[i] = unlogged[c][i])
    <3>1. PICK s \in Seq(Messages) : s = unlogged[c]
      BY <1>0
    <3>2. \A i \in DOMAIN Append(s, m) : Append(s, m)[i] = m \/ (i \in DOMAIN s /\ Append(s, m)[i] = s[i])
      OBVIOUS
    <3> QED
      BY <3>1, <3>2
  <2>5. \A i \in DOMAIN unlogged'[c] : unlogged'[c][i].kind \in {"tool_call", "ok", "err"}
    BY <2>2, <2>4 DEF TailInv
  <2> QED
    BY <2>2, <2>3, <2>5, TailKept
<1>4. ASSUME NEW c \in Convs, FlushRow(c) PROVE TailInv'
  <2>1. unlogged[c] # <<>> /\ unlogged' = [unlogged EXCEPT ![c] = Tail(unlogged[c])] /\ phase' = phase /\ phase[c] = "flush"
    BY <1>4 DEF FlushRow
  <2>2. unlogged'[c] = Tail(unlogged[c]) /\ \A d \in Convs : d # c => unlogged'[d] = unlogged[d]
    BY <2>1 DEF TypeInv
  <2>3. \A i \in DOMAIN Tail(unlogged[c]) : i + 1 \in DOMAIN unlogged[c] /\ Tail(unlogged[c])[i] = unlogged[c][i + 1]
    <3>1. PICK s \in Seq(Messages) : s = unlogged[c] /\ s # <<>>
      BY <1>0, <2>1
    <3>2. \A i \in DOMAIN Tail(s) : i + 1 \in DOMAIN s /\ Tail(s)[i] = s[i + 1]
      BY <3>1
    <3> QED
      BY <3>1, <3>2
  <2>4. \A i \in DOMAIN unlogged'[c] : unlogged'[c][i].kind \in {"tool_call", "ok", "err"}
    BY <2>2, <2>3 DEF TailInv
  <2> QED
    BY <2>1, <2>2, <2>4, TailKept
<1>5. ASSUME NEW c \in Convs, Request(c) \/ Finalize(c) PROVE TailInv'
  <2>1. unlogged' = unlogged /\ (\A d \in Convs : d # c => phase'[d] = phase[d]) /\ unlogged[c] = <<>>
    BY <1>5 DEF Request, Finalize, TypeInv, TailInv, Reasons
  <2> QED
    BY <2>1, TailKept
<1>6. ASSUME NEW c \in Convs, EndLoop(c) PROVE TailInv'
  <2>1. unlogged' = [unlogged EXCEPT ![c] = <<>>] /\ (\A d \in Convs : d # c => phase'[d] = phase[d])
    BY <1>6 DEF EndLoop, TypeInv
  <2>2. unlogged'[c] = <<>> /\ (\A d \in Convs : d # c => unlogged'[d] = unlogged[d]) /\ DOMAIN <<>> = {}
    BY <2>1 DEF TypeInv
  <2> QED
    BY <2>1, <2>2, TailKept
<1>7. ASSUME NEW c \in Convs, ResumeRefused(c) \/ NoModel(c) \/ DecisionRow(c) \/ \E d \in Convs : Fork(c, d)
      PROVE  TailInv'
  <2>1. unlogged' = unlogged /\ phase' = phase
    BY <1>7 DEF ResumeRefused, NoModel, RowOnly, DecisionRow, Fork
  <2> QED
    BY <2>1 DEF TailInv
<1>8. ASSUME Crash PROVE TailInv'
  <2>1. \A d \in Convs : unlogged'[d] = <<>> /\ DOMAIN <<>> = {}
    BY <1>8 DEF Crash
  <2> QED
    BY <2>1 DEF TailInv
<1>9. ASSUME UNCHANGED vars PROVE TailInv'
  BY <1>9 DEF vars, TailInv
<1> QED
  BY <1>1, <1>2, <1>3, <1>4, <1>5, <1>6, <1>7, <1>8, <1>9 DEF Next
-----------------------------------------------------------------------------
(*********************** runs, turns and where rows are ********************)

\* A run keeps its homes.
LEMMA HomesGrow == ASSUME TypeInv, Grown, NEW r PROVE Homes(r) \subseteq Homes(r)'
<1> SUFFICES ASSUME NEW c \in Convs, NEW i \in DOMAIN rows[c], rows[c][i].run = r
             PROVE  c \in Homes(r)'
  BY DEF Homes
<1>1. i \in DOMAIN rows'[c] /\ rows'[c][i] = rows[c][i]
  BY GrownKeeps
<1> QED
  BY <1>1 DEF Homes

\* The runs in sight are numbered below nextRun, and a conversation without a
\* turn holds nothing.
SightInv ==
    /\ \A p \in checks : p[2] < nextRun /\ turns[p[1]] # <<>>
    /\ \A r \in Started : Homes(r) # {}
    /\ \A c \in Convs :
          /\ \A i \in DOMAIN rows[c] : rows[c][i].run < nextRun
          /\ \A n \in DOMAIN turns[c] : turns[c][n].run < nextRun
          /\ turns[c] = <<>> => rows[c] = <<>>

\* The run going on is the newest one and that of the last turn of its
\* conversation, and no turn of it has a reason to stop yet.
GoingInv ==
    /\ \A c, d \in Convs : active[c] # NoRun /\ active[d] # NoRun => c = d
    /\ \A c \in Convs : active[c] # NoRun =>
          /\ active[c] = nextRun - 1 /\ turns[c] # <<>>
          /\ turns[c][Len(turns[c])].run = active[c]
          /\ c \in Homes(active[c])
    /\ \A c, d \in Convs : \A n \in DOMAIN turns[d] :
          active[c] # NoRun /\ turns[d][n].run = active[c] => turns[d][n].reason = "none"

\* Rows of known runs added where there is a turn.
LEMMA SightKept ==
    ASSUME TypeInv, SightInv, Grown, turns' = turns, nextRun' = nextRun, checks' \subseteq checks,
           \A c \in Convs : rows'[c] # rows[c] => turns[c] # <<>>,
           \A c \in Convs : \A i \in DOMAIN rows'[c] : i \in DOMAIN rows[c] \/ rows'[c][i].run < nextRun
    PROVE  SightInv'
<1>1. \A c \in Convs : \A i \in DOMAIN rows'[c] : rows'[c][i].run < nextRun
  BY GrownKeeps DEF SightInv
<1>2. \A r \in Started' : Homes(r)' # {}
  BY HomesGrow DEF SightInv, Started
<1> QED
  BY <1>1, <1>2 DEF SightInv

\* Rows added to one log: what is in it then.
LEMMA AddedRows ==
    ASSUME TypeInv, NEW c \in Convs, NEW x \in Seq(RowT), rows' = [rows EXCEPT ![c] = rows[c] \o x]
    PROVE  /\ \A d \in Convs : d # c => rows'[d] = rows[d]
           /\ \A i \in DOMAIN rows'[c] : i \in DOMAIN rows[c] \/ \E j \in DOMAIN x : rows'[c][i] = x[j]
           /\ rows'[c] = rows[c] \o x
<1>1. PICK s \in Seq(RowT) : s = rows[c]
  BY DEF TypeInv
<1>2. rows'[c] = s \o x /\ \A d \in Convs : d # c => rows'[d] = rows[d]
  BY <1>1 DEF TypeInv
<1>3. \A i \in DOMAIN (s \o x) : i \in DOMAIN s \/ \E j \in DOMAIN x : (s \o x)[i] = x[j]
  <2> TAKE i \in DOMAIN (s \o x)
  <2>1. CASE i \in 1..Len(s)
    BY <2>1
  <2>2. CASE i \notin 1..Len(s)
    <3>1. i - Len(s) \in DOMAIN x /\ (s \o x)[i] = x[i - Len(s)]
      BY <2>2
    <3> QED
      BY <3>1
  <2> QED
    BY <2>1, <2>2
<1> QED
  BY ONLY <1>1, <1>2, <1>3

\* Rows of known runs added to one log that has a turn.
LEMMA SightAdded ==
    ASSUME TypeInv, SightInv, NEW c \in Convs, NEW x \in Seq(RowT), rows' = [rows EXCEPT ![c] = rows[c] \o x],
           turns[c] # <<>>, \A j \in DOMAIN x : x[j].run < nextRun,
           turns' = turns, nextRun' = nextRun, checks' \subseteq checks
    PROVE  SightInv'
<1>1. Grown
  BY AddedGrown
<1>2. \A d \in Convs : rows'[d] # rows[d] => turns[d] # <<>>
  BY AddedRows
<1>3. \A d \in Convs : \A i \in DOMAIN rows'[d] : i \in DOMAIN rows[d] \/ rows'[d][i].run < nextRun
  BY AddedRows
<1> QED
  BY <1>1, <1>2, <1>3, SightKept

\* One row of a known run added.
LEMMA SightOne ==
    ASSUME TypeInv, SightInv, NEW c \in Convs, NEW x \in RowT, rows' = [rows EXCEPT ![c] = rows[c] \o <<x>>],
           turns[c] # <<>>, x.run < nextRun, turns' = turns, nextRun' = nextRun, checks' \subseteq checks
    PROVE  SightInv'
<1>1. PICK y \in Seq(RowT) : y = <<x>>
  <2>1. <<x>> \in Seq(RowT)
    OBVIOUS
  <2> QED
    BY ONLY <2>1
<1>2. \A j \in DOMAIN y : y[j].run < nextRun
  BY <1>1
<1> QED
  BY <1>1, <1>2, SightAdded

\* A launch: its run is the newest, and its row is the last of its conversation.
LEMMA SightLaunch ==
    ASSUME TypeInv, SightInv, NEW c \in Convs, NEW opening \in Seq(Messages), Launch(c, opening)
    PROVE  SightInv' /\ \A r : r = nextRun => c \in Homes(r)'
<1>1. PICK t \in TurnT, x \in RowT :
               /\ nextRun \in Runs /\ nextRun' = nextRun + 1
               /\ t = [run |-> nextRun, reason |-> "none", at |-> Len(rows[c])]
               /\ turns' = [turns EXCEPT ![c] = Append(turns[c], t)]
               /\ x = Row(nextRun, "prompt", opening)
               /\ rows' = [rows EXCEPT ![c] = rows[c] \o <<x>>]
  BY ONLY TypeInv, Launch(c, opening), c \in Convs, opening \in Seq(Messages), LaunchEffect
<1>2. nextRun \in Nat /\ x.run = nextRun /\ t.run = nextRun
  BY <1>1 DEF TypeInv, Row
<1>3. TurnAdded(c, t)
  BY ONLY TypeInv, c \in Convs, <1>1, AddsTurn
<1>4. Grown
  BY ONLY TypeInv, c \in Convs, <1>1, OneGrown
<1>5. PICK y \in Seq(RowT) : y = <<x>> /\ DOMAIN y = {1} /\ y[1] = x /\ Len(y) = 1
  <2>1. <<x>> \in Seq(RowT) /\ DOMAIN <<x>> = {1} /\ <<x>>[1] = x /\ Len(<<x>>) = 1
    OBVIOUS
  <2> QED
    BY ONLY <2>1
<1>6. /\ \A d \in Convs : d # c => rows'[d] = rows[d]
      /\ \A i \in DOMAIN rows'[c] : i \in DOMAIN rows[c] \/ rows'[c][i] = x
      /\ rows'[c] = rows[c] \o y
  <2>1. rows' = [rows EXCEPT ![c] = rows[c] \o y]
    BY ONLY <1>1, <1>5
  <2>2. /\ \A d \in Convs : d # c => rows'[d] = rows[d]
        /\ \A i \in DOMAIN rows'[c] : i \in DOMAIN rows[c] \/ \E j \in DOMAIN y : rows'[c][i] = y[j]
        /\ rows'[c] = rows[c] \o y
    BY ONLY TypeInv, c \in Convs, y \in Seq(RowT), <2>1, AddedRows
  <2> QED
    BY ONLY <1>5, <2>2
<1>7. Len(rows[c]) + 1 \in DOMAIN rows'[c] /\ rows'[c][Len(rows[c]) + 1] = x
  <2>1. PICK s \in Seq(RowT) : s = rows[c]
    BY DEF TypeInv
  <2>2. Len(s) + 1 \in DOMAIN (s \o y) /\ (s \o y)[Len(s) + 1] = y[1]
    BY ONLY s \in Seq(RowT), y \in Seq(RowT), <1>5
  <2> QED
    BY ONLY <1>5, <1>6, <2>1, <2>2
<1>8. \A r : r = nextRun => c \in Homes(r)'
  BY <1>2, <1>7 DEF Homes
<1>9. \A p \in checks' : p[2] < nextRun' /\ turns'[p[1]] # <<>>
  <2>1. \A p \in checks : p[1] \in Convs /\ p[2] \in Nat
    <3>1. checks \subseteq Convs \X Runs
      BY DEF TypeInv
    <3> QED
      BY ONLY <3>1 DEF Runs
  <2>2. \A p \in checks' : p \in checks \/ p = <<c, nextRun>>
    BY DEF Launch
  <2>3. \A d \in Convs : turns[d] # <<>> => turns'[d] # <<>>
    BY <1>3 DEF TurnAdded
  <2> QED
    BY <1>1, <1>2, <1>3, <2>1, <2>2, <2>3 DEF SightInv, TurnAdded
<1>10. \A r \in Started' : Homes(r)' # {}
  <2>1. Started' = Started \cup {nextRun}
    BY ONLY <1>1, <1>2 DEF Started, Runs
  <2> QED
    BY <1>4, <1>8, <2>1, HomesGrow DEF SightInv
<1>11. ASSUME NEW d \in Convs
       PROVE  /\ \A i \in DOMAIN rows'[d] : rows'[d][i].run < nextRun'
              /\ \A n \in DOMAIN turns'[d] : turns'[d][n].run < nextRun'
              /\ turns'[d] = <<>> => rows'[d] = <<>>
  <2>1. \A i \in DOMAIN rows[d] : rows'[d][i] = rows[d][i] /\ rows[d][i].run \in Nat
    <3>1. \A i \in DOMAIN rows[d] : rows[d][i] \in RowT
      BY DEF TypeInv
    <3>2. \A x1 \in RowT : x1.run \in Nat
      BY DEF RowT, Runs
    <3>3. \A i \in DOMAIN rows[d] : rows'[d][i] = rows[d][i]
      BY <1>4, GrownKeeps
    <3> QED
      BY ONLY <3>1, <3>2, <3>3
  <2>2. \A i \in DOMAIN rows'[d] : i \in DOMAIN rows[d] \/ rows'[d][i] = x
    BY <1>6
  <2>3. \A n \in DOMAIN turns[d] : turns[d][n].run \in Nat
    <3>1. \A n \in DOMAIN turns[d] : turns[d][n] \in TurnT
      BY DEF TypeInv
    <3> QED
      BY <3>1 DEF TurnT, Runs, NoRun
  <2>4. \A n \in DOMAIN turns'[d] : (n \in DOMAIN turns[d] /\ turns'[d][n] = turns[d][n]) \/ turns'[d][n] = t
    <3>1. CASE d = c
      <4>1. /\ DOMAIN turns'[c] = 1..(Len(turns[c]) + 1) /\ DOMAIN turns[c] = 1..Len(turns[c])
            /\ Len(turns[c]) \in Nat /\ turns'[c][Len(turns[c]) + 1] = t
            /\ \A n \in 1..Len(turns[c]) : turns'[c][n] = turns[c][n]
        BY ONLY <1>3 DEF TurnAdded
      <4> QED
        BY ONLY <3>1, <4>1
    <3>2. CASE d # c
      BY <1>3, <3>2 DEF TurnAdded
    <3> QED
      BY <3>1, <3>2
  <2>5. turns'[d] = <<>> => turns[d] = <<>> /\ d # c
    BY <1>3 DEF TurnAdded
  <2>6. \A i \in DOMAIN rows'[d] : rows'[d][i].run < nextRun'
    <3>1. \A i \in DOMAIN rows[d] : rows[d][i].run < nextRun
      BY DEF SightInv
    <3> QED
      BY ONLY <1>1, <1>2, <2>1, <2>2, <3>1
  <2>7. \A n \in DOMAIN turns'[d] : turns'[d][n].run < nextRun'
    BY <1>1, <1>2, <2>3, <2>4 DEF SightInv
  <2>8. turns'[d] = <<>> => rows'[d] = <<>>
    BY <1>6, <2>5 DEF SightInv
  <2> QED
    BY ONLY <2>6, <2>7, <2>8
<1> QED
  BY <1>8, <1>9, <1>10, <1>11 DEF SightInv

\* A turn of no run is added, and nothing else.
LEMMA SightRowOnly ==
    ASSUME TypeInv, SightInv, NEW c \in Convs, RowOnly(c)
    PROVE  SightInv'
<1>1. PICK t \in TurnT : /\ t = [run |-> NoRun, reason |-> "none", at |-> Len(rows[c])]
                         /\ turns' = [turns EXCEPT ![c] = Append(turns[c], t)]
  BY RowOnlyEffect
<1>2. TurnAdded(c, t)
  BY <1>1, AddsTurn
<1>3. rows' = rows /\ nextRun' = nextRun /\ checks' = checks
  BY DEF RowOnly
<1>4. t.run < nextRun
  BY <1>1 DEF TypeInv, NoRun
<1>5. \A p \in checks : p[1] \in Convs
  BY DEF TypeInv
<1>6. \A d \in Convs : turns'[d] = <<>> => turns[d] = <<>>
  BY <1>2 DEF TurnAdded
<1>7. \A d \in Convs : \A n \in DOMAIN turns'[d] :
        (n \in DOMAIN turns[d] /\ turns'[d][n] = turns[d][n]) \/ turns'[d][n] = t
  <2> TAKE d \in Convs
  <2>1. CASE d = c
    BY <1>2, <2>1 DEF TurnAdded
  <2>2. CASE d # c
    BY <1>2, <2>2 DEF TurnAdded
  <2> QED
    BY <2>1, <2>2
<1>8. \A r \in Started' : Homes(r)' # {}
  BY <1>3 DEF SightInv, Started, Homes
<1> QED
  BY <1>3, <1>4, <1>5, <1>6, <1>7, <1>8 DEF SightInv

\* Other rows, a reason saved: the runs of the turns are the same.
LEMMA SightFinalize ==
    ASSUME TypeInv, SightInv, NEW c \in Convs, Finalize(c)
    PROVE  SightInv'
<1>1. /\ turns' \in [Convs -> Seq(TurnT)]
      /\ \A d \in Convs : Len(turns'[d]) = Len(turns[d]) /\ (d # c => turns'[d] = turns[d])
      /\ \A n \in DOMAIN turns[c] :
            turns'[c][n] = IF n = Len(turns[c]) THEN [turns[c][n] EXCEPT !.reason = phase[c]]
                           ELSE turns[c][n]
  BY FinalizeEffect
<1>2. rows' = rows /\ nextRun' = nextRun /\ checks' = checks
  BY DEF Finalize, counters
<1>3. ASSUME NEW d \in Convs
      PROVE  /\ DOMAIN turns'[d] = DOMAIN turns[d] /\ (turns'[d] = <<>> <=> turns[d] = <<>>)
             /\ \A n \in DOMAIN turns[d] : turns'[d][n].run = turns[d][n].run
  <2>1. turns[d] \in Seq(TurnT) /\ turns'[d] \in Seq(TurnT)
    BY <1>1 DEF TypeInv
  <2>2. DOMAIN turns[d] = 1..Len(turns[d]) /\ DOMAIN turns'[d] = 1..Len(turns'[d])
    BY <2>1
  <2>3. (turns'[d] = <<>> <=> turns[d] = <<>>)
    BY <1>1, <2>1, EmptyIff
  <2>4. \A n \in DOMAIN turns[d] : turns[d][n] \in TurnT
    BY <2>1
  <2>5. \A x \in TurnT : [x EXCEPT !.reason = phase[c]].run = x.run
    BY DEF TurnT
  <2>6. CASE d = c
    BY <1>1, <2>2, <2>3, <2>4, <2>5, <2>6
  <2>7. CASE d # c
    BY <1>1, <2>3, <2>7
  <2> QED
    BY <2>6, <2>7
<1>4. \A p \in checks : p[1] \in Convs
  BY DEF TypeInv
<1>5. \A r \in Started' : Homes(r)' # {}
  BY <1>2 DEF SightInv, Started, Homes
<1> QED
  BY <1>2, <1>3, <1>4, <1>5 DEF SightInv

\* A branch holds copies.
LEMMA SightFork ==
    ASSUME TypeInv, PlaceInv, SightInv, NEW c \in Convs, NEW d \in Convs, Fork(c, d), Grown
    PROVE  SightInv'
<1>1. PICK n \in 1..Len(turns[c]), t \in Seq(TurnT), s \in Seq(RowT) :
               /\ turns' = [turns EXCEPT ![d] = t] /\ rows' = [rows EXCEPT ![d] = s]
               /\ Len(t) = n /\ (\A k \in 1..n : t[k] = turns[c][k])
               /\ Len(s) = Cut(c, n) /\ (\A i \in 1..Len(s) : s[i] = rows[c][i])
  BY ForkEffect
<1>2. \A e \in Convs : IF e = d THEN turns'[e] = t /\ rows'[e] = s ELSE turns'[e] = turns[e] /\ rows'[e] = rows[e]
  BY <1>1 DEF TypeInv
<1>3. nextRun' = nextRun /\ checks' = checks
  BY DEF Fork, counters
<1>4. Cut(c, n) \in 0..Len(rows[c])
  BY CutIs
<1>5. /\ turns[c] \in Seq(TurnT) /\ DOMAIN turns[c] = 1..Len(turns[c]) /\ Len(turns[c]) \in Nat
      /\ rows[c] \in Seq(RowT) /\ DOMAIN rows[c] = 1..Len(rows[c]) /\ Len(rows[c]) \in Nat
  BY DEF TypeInv
<1>6. DOMAIN t = 1..n /\ DOMAIN s = 1..Len(s) /\ t # <<>>
  <2>1. DOMAIN t = 1..Len(t) /\ (Len(t) # 0 => t # <<>>) /\ DOMAIN s = 1..Len(s)
    BY EmptyIff
  <2>2. n # 0
    BY <1>5
  <2> QED
    BY <1>1, <2>1, <2>2
<1>7. \A i \in DOMAIN s : s[i].run < nextRun
  <2>1. \A i \in DOMAIN s : i \in DOMAIN rows[c]
    BY <1>1, <1>4, <1>5, <1>6
  <2> QED
    BY <1>1, <1>6, <2>1 DEF SightInv
<1>8. \A k \in DOMAIN t : t[k].run < nextRun
  <2>1. \A k \in DOMAIN t : k \in DOMAIN turns[c]
    BY <1>5, <1>6
  <2> QED
    BY <1>1, <1>6, <2>1 DEF SightInv
<1>9. \A r \in Started' : Homes(r)' # {}
  BY <1>3, HomesGrow DEF SightInv, Started
<1>10. \A p \in checks' : p[2] < nextRun' /\ turns'[p[1]] # <<>>
  <2>1. \A p \in checks : p[1] \in Convs
    BY DEF TypeInv
  <2> QED
    BY <1>2, <1>3, <1>6, <2>1 DEF SightInv
<1>11. ASSUME NEW e \in Convs
       PROVE  /\ \A i \in DOMAIN rows'[e] : rows'[e][i].run < nextRun'
              /\ \A k \in DOMAIN turns'[e] : turns'[e][k].run < nextRun'
              /\ turns'[e] = <<>> => rows'[e] = <<>>
  <2>1. /\ \A i \in DOMAIN rows[e] : rows[e][i].run < nextRun
        /\ \A k \in DOMAIN turns[e] : turns[e][k].run < nextRun
        /\ turns[e] = <<>> => rows[e] = <<>>
    BY DEF SightInv
  <2> QED
    BY ONLY <1>2, <1>3, <1>6, <1>7, <1>8, <1>11, <2>1
<1> QED
  BY ONLY <1>9, <1>10, <1>11 DEF SightInv

\* The rows a run writes at its end are its own.
LEMMA EndRows ==
    ASSUME TypeInv, NEW c \in Convs, active[c] \in Runs, NEW why, NEW x \in Seq(RowT),
           x = Answer(c, why) \o <<Row(active[c], "stop", <<>>)>>
    PROVE  x # <<>> /\ \A j \in DOMAIN x : x[j].run = active[c]
<1>1. PICK y : y = Row(active[c], "stop", <<>>)
  OBVIOUS
<1>2. PICK z : z = Row(active[c], "assistant", <<Msg("assistant", <<>>)>>)
  OBVIOUS
<1>3. y.run = active[c] /\ z.run = active[c]
  BY <1>1, <1>2 DEF Row
<1>4. x = <<>> \o <<y>> \/ x = <<z>> \o <<y>>
  BY <1>1, <1>2 DEF Answer
<1>5. x = <<y>> \/ x = <<z, y>>
  BY ONLY <1>4
<1>6. /\ DOMAIN <<y>> = {1} /\ <<y>>[1] = y /\ <<y>> # <<>>
      /\ DOMAIN <<z, y>> = {1, 2} /\ <<z, y>>[1] = z /\ <<z, y>>[2] = y /\ <<z, y>> # <<>>
  OBVIOUS
<1> QED
  BY ONLY <1>3, <1>5, <1>6

\* Nothing runs in a conversation that is between turns, and the run of any
\* other is a known one.
LEMMA ActiveIs ==
    ASSUME TypeInv, PhaseInv, GoingInv, NEW c \in Convs, phase[c] # "idle"
    PROVE  active[c] \in Runs /\ active[c] # NoRun /\ active[c] < nextRun /\ turns[c] # <<>>
<1>1. active[c] # NoRun /\ active[c] \in Runs
  BY DEF PhaseInv, TypeInv
<1>2. active[c] = nextRun - 1 /\ turns[c] # <<>>
  BY <1>1 DEF GoingInv
<1> QED
  BY <1>1, <1>2 DEF TypeInv

\* Every step keeps what is in sight.
LEMMA SightStep ==
    ASSUME TypeInv, PhaseInv, TailInv, PlaceInv, SightInv, GoingInv, [Next]_vars
    PROVE  SightInv'
<1>0. Grown
  BY StepGrown DEF SightInv
<1>1. ASSUME NEW c \in Convs, StartTurn(c) \/ Resume(c) PROVE SightInv'
  <2>1. PICK opening \in Seq(Messages) : Launch(c, opening)
    BY <1>1, StartEffect
  <2> QED
    BY <2>1, SightLaunch
<1>2. ASSUME NEW c \in Convs, ResumeRefused(c) \/ NoModel(c) PROVE SightInv'
  BY <1>2, SightRowOnly DEF ResumeRefused, NoModel
<1>3. ASSUME NEW c \in Convs, AskCalls(c) \/ CallReturns(c) \/ Request(c) PROVE SightInv'
  <2>1. rows' = rows /\ turns' = turns /\ nextRun' = nextRun /\ checks' = checks
    BY <1>3 DEF AskCalls, CallReturns, Request, counters
  <2> QED
    BY <1>0, <2>1, SightKept
<1>4. ASSUME NEW c \in Convs, FlushRow(c) PROVE SightInv'
  <2>1. PICK m \in Messages, x \in RowT :
               /\ x = Row(active[c], KindOf(m), <<m>>)
               /\ rows' = [rows EXCEPT ![c] = rows[c] \o <<x>>]
    BY <1>4, FlushEffect
  <2>2. x.run = active[c] /\ phase[c] # "idle"
    BY <1>4, <2>1 DEF Row, FlushRow
  <2>3. x.run < nextRun /\ turns[c] # <<>>
    BY <2>2, ActiveIs
  <2>4. turns' = turns /\ nextRun' = nextRun /\ checks' \subseteq checks
    BY <1>4 DEF FlushRow, counters
  <2> QED
    BY ONLY TypeInv, SightInv, c \in Convs, x \in RowT, <2>1, <2>3, <2>4, SightOne
<1>5. ASSUME NEW c \in Convs, DecisionRow(c) PROVE SightInv'
  <2>1. PICK k \in Runs, x \in RowT :
               /\ (k = active[c] /\ phase[c] \in {"turn", "batch"}) \/ <<c, k>> \in checks
               /\ x = Row(k, "decision", <<Msg("decision", <<>>)>>)
               /\ rows' = [rows EXCEPT ![c] = rows[c] \o <<x>>]
    BY <1>5, DecisionEffect
  <2>2. x.run = k
    BY <2>1 DEF Row
  <2>3. k < nextRun /\ turns[c] # <<>>
    <3>1. CASE k = active[c] /\ phase[c] \in {"turn", "batch"}
      BY <3>1, ActiveIs
    <3>2. CASE <<c, k>> \in checks
      BY <3>2 DEF SightInv
    <3> QED
      BY <2>1, <3>1, <3>2
  <2>4. turns' = turns /\ nextRun' = nextRun /\ checks' \subseteq checks
    BY <1>5 DEF DecisionRow
  <2> QED
    BY ONLY TypeInv, SightInv, c \in Convs, x \in RowT, <2>1, <2>2, <2>3, <2>4, SightOne
<1>6. ASSUME NEW c \in Convs, EndLoop(c) PROVE SightInv'
  <2>1. PICK why \in {"over", "cut"}, x \in Seq(RowT) :
               /\ x = Answer(c, why) \o <<Row(active[c], "stop", <<>>)>>
               /\ rows' = [rows EXCEPT ![c] = rows[c] \o x]
               /\ checks' \subseteq checks /\ active[c] \in Runs /\ phase[c] \in {"turn", "flush"}
    BY <1>6, EndEffect
  <2>2. active[c] < nextRun /\ turns[c] # <<>>
    BY <2>1, ActiveIs
  <2>3. \A j \in DOMAIN x : x[j].run < nextRun
    BY <2>1, <2>2, EndRows
  <2>4. turns' = turns /\ nextRun' = nextRun
    BY <1>6 DEF EndLoop, counters
  <2> QED
    BY ONLY TypeInv, SightInv, c \in Convs, x \in Seq(RowT), <2>1, <2>2, <2>3, <2>4, SightAdded
<1>7. ASSUME NEW c \in Convs, Finalize(c) PROVE SightInv'
  BY <1>7, SightFinalize
<1>8. ASSUME NEW c \in Convs, NEW d \in Convs, Fork(c, d) PROVE SightInv'
  BY <1>0, <1>8, SightFork
<1>9. ASSUME Crash \/ UNCHANGED vars PROVE SightInv'
  <2>1. rows' = rows /\ turns' = turns /\ nextRun' = nextRun /\ checks' \subseteq checks
    BY <1>9 DEF Crash, vars, counters
  <2> QED
    BY <1>0, <2>1, SightKept
<1> QED
  BY <1>1, <1>2, <1>3, <1>4, <1>5, <1>6, <1>7, <1>8, <1>9 DEF Next

\* A launch makes its run the newest and the only one.
LEMMA GoingLaunch ==
    ASSUME TypeInv, SightInv, NEW c \in Convs, NEW opening \in Seq(Messages), Launch(c, opening), Free
    PROVE  GoingInv'
<1>1. PICK t \in TurnT :
               /\ nextRun \in Runs /\ nextRun' = nextRun + 1
               /\ t = [run |-> nextRun, reason |-> "none", at |-> Len(rows[c])]
               /\ turns' = [turns EXCEPT ![c] = Append(turns[c], t)]
  BY ONLY TypeInv, Launch(c, opening), c \in Convs, opening \in Seq(Messages), LaunchEffect
<1>2. TurnAdded(c, t)
  BY ONLY TypeInv, c \in Convs, <1>1, AddsTurn
<1>3. PICK k \in Nat : k = nextRun
  BY DEF TypeInv
<1>4. active'[c] = k /\ \A d \in Convs : active'[d] # NoRun => d = c
  BY <1>3 DEF Launch, TypeInv, Free
<1>5. c \in Homes(k)'
  BY <1>3, SightLaunch
<1>6. ASSUME NEW d \in Convs, NEW n \in DOMAIN turns'[d], turns'[d][n].run = k
      PROVE  turns'[d][n].reason = "none"
  <2>1. (n \in DOMAIN turns[d] /\ turns'[d][n] = turns[d][n]) \/ turns'[d][n] = t
    <3>1. CASE d = c
      BY <1>2, <1>6, <3>1 DEF TurnAdded
    <3>2. CASE d # c
      BY <1>2, <1>6, <3>2 DEF TurnAdded
    <3> QED
      BY <3>1, <3>2
  <2>2. n \in DOMAIN turns[d] => turns[d][n].run < k
    BY <1>3 DEF SightInv
  <2> QED
    BY <1>1, <1>3, <1>6, <2>1, <2>2
<1>7. nextRun' - 1 = k /\ turns'[c] # <<>> /\ turns'[c][Len(turns'[c])].run = k
  BY <1>1, <1>2, <1>3 DEF TurnAdded
<1>8. c \in Homes(active[c])'
  BY <1>4, <1>5 DEF Homes
<1>9. \A d \in Convs : active'[d] # NoRun =>
          /\ active'[d] = nextRun' - 1 /\ turns'[d] # <<>>
          /\ turns'[d][Len(turns'[d])].run = active'[d]
          /\ d \in Homes(active[d])'
  BY <1>4, <1>7, <1>8
<1>10. \A d, e \in Convs : \A n \in DOMAIN turns'[e] :
          active'[d] # NoRun /\ turns'[e][n].run = active'[d] => turns'[e][n].reason = "none"
  BY <1>4, <1>6
<1>11. \A d, e \in Convs : active'[d] # NoRun /\ active'[e] # NoRun => d = e
  BY <1>4
<1> QED
  BY <1>9, <1>10, <1>11 DEF GoingInv

\* Every step keeps what is going on the newest.
LEMMA GoingStep ==
    ASSUME TypeInv, PhaseInv, TailInv, PlaceInv, SightInv, GoingInv, [Next]_vars
    PROVE  GoingInv'
<1>0. Grown
  BY StepGrown DEF SightInv
<1>1. ASSUME \A d \in Convs : active'[d] = NoRun PROVE GoingInv'
  BY <1>1 DEF GoingInv
<1>2. ASSUME active' = active, turns' = turns, nextRun' = nextRun PROVE GoingInv'
  <2>1. ASSUME NEW d \in Convs, d \in Homes(active[d]) PROVE d \in Homes(active[d])'
    <3>1. PICK r : r = active[d]
      OBVIOUS
    <3>2. d \in Homes(r)'
      BY <1>0, <2>1, <3>1, HomesGrow
    <3> QED
      BY <1>2, <3>1, <3>2 DEF Homes
  <2> QED
    BY <1>2, <2>1 DEF GoingInv
<1>3. ASSUME NEW c \in Convs, StartTurn(c) \/ Resume(c) PROVE GoingInv'
  <2>1. PICK opening \in Seq(Messages) : Launch(c, opening) /\ Free
    BY <1>3, StartEffect
  <2> QED
    BY <2>1, GoingLaunch
<1>4. ASSUME NEW c \in Convs, ResumeRefused(c) \/ NoModel(c) \/ \E d \in Convs : Fork(c, d) PROVE GoingInv'
  BY <1>1, <1>4 DEF ResumeRefused, NoModel, RowOnly, Fork, Free
<1>5. ASSUME NEW c \in Convs, AskCalls(c) \/ CallReturns(c) \/ FlushRow(c) \/ Request(c) \/ EndLoop(c)
                              \/ DecisionRow(c)
      PROVE  GoingInv'
  BY <1>2, <1>5 DEF AskCalls, CallReturns, FlushRow, Request, EndLoop, DecisionRow, counters
<1>6. ASSUME NEW c \in Convs, Finalize(c) PROVE GoingInv'
  <2>1. active[c] # NoRun /\ active' = [active EXCEPT ![c] = NoRun]
    BY <1>6 DEF Finalize, PhaseInv, Reasons
  <2>2. \A d \in Convs : active'[d] = NoRun
    BY <2>1 DEF TypeInv, GoingInv
  <2> QED
    BY <1>1, <2>2
<1>7. ASSUME Crash PROVE GoingInv'
  BY <1>1, <1>7 DEF Crash
<1>8. ASSUME UNCHANGED vars PROVE GoingInv'
  BY <1>2, <1>8 DEF vars, counters
<1> QED
  BY <1>3, <1>4, <1>5, <1>6, <1>7, <1>8 DEF Next
-----------------------------------------------------------------------------
(*************************** the types, everywhere *************************)

\* Every step keeps the types, and a run where there is one.
LEMMA TypeStep ==
    ASSUME TypeInv, PhaseInv, TailInv, PlaceInv, [Next]_vars
    PROVE  TypeInv' /\ PhaseInv'
<1>1. ASSUME NEW c \in Convs, StartTurn(c) \/ Resume(c) PROVE TypeInv' /\ PhaseInv'
  BY <1>1, StartType
<1>2. ASSUME NEW c \in Convs, ResumeRefused(c) \/ NoModel(c) PROVE TypeInv' /\ PhaseInv'
  <2>1. RowOnly(c) /\ faults' \in 0..MaxFaults
    BY <1>2, SessionsAssumption DEF ResumeRefused, NoModel, TypeInv
  <2> QED
    BY <2>1, RowOnlyType
<1>3. ASSUME NEW c \in Convs, AskCalls(c) PROVE TypeInv' /\ PhaseInv'
  BY <1>3, AskType
<1>4. ASSUME NEW c \in Convs, CallReturns(c) PROVE TypeInv' /\ PhaseInv'
  BY <1>4, ReturnType
<1>5. ASSUME NEW c \in Convs, FlushRow(c) PROVE TypeInv' /\ PhaseInv'
  BY <1>5, FlushType
<1>6. ASSUME NEW c \in Convs, Request(c) PROVE TypeInv' /\ PhaseInv'
  BY <1>6, RequestType
<1>7. ASSUME NEW c \in Convs, EndLoop(c) PROVE TypeInv' /\ PhaseInv'
  BY <1>7, EndType
<1>8. ASSUME NEW c \in Convs, Finalize(c) PROVE TypeInv' /\ PhaseInv'
  BY <1>8, FinalizeType
<1>9. ASSUME NEW c \in Convs, DecisionRow(c) PROVE TypeInv' /\ PhaseInv'
  BY <1>9, DecisionType
<1>10. ASSUME NEW c \in Convs, NEW d \in Convs, Fork(c, d) PROVE TypeInv' /\ PhaseInv'
  BY <1>10, ForkType
<1>11. ASSUME Crash PROVE TypeInv' /\ PhaseInv'
  BY <1>11, CrashType
<1>12. ASSUME UNCHANGED vars PROVE TypeInv' /\ PhaseInv'
  BY <1>12 DEF vars, counters, history, TypeInv, PhaseInv
<1> QED
  BY <1>1, <1>2, <1>3, <1>4, <1>5, <1>6, <1>7, <1>8, <1>9, <1>10, <1>11, <1>12 DEF Next

\* What everything else rests on.
BaseInv == TypeInv /\ PhaseInv /\ TailInv /\ PlaceInv /\ SightInv /\ GoingInv

\* It holds when the app is new.
LEMMA BaseInit == Init => BaseInv
<1> SUFFICES ASSUME Init PROVE BaseInv
  OBVIOUS
<1>1. \A S : <<>> \in Seq(S)
  BY ONLY EmptySeq
<1>2. DOMAIN <<>> = {}
  OBVIOUS
<1>3. /\ rows \in [Convs -> Seq(RowT)] /\ turns \in [Convs -> Seq(TurnT)]
      /\ messages \in [Convs -> Seq(Messages)] /\ unlogged \in [Convs -> Seq(Messages)]
      /\ batch \in [Convs -> Seq(Calls)] /\ seen \in [Runs -> Seq(Messages)]
  BY <1>1 DEF Init
<1>4. TypeInv
  BY <1>3, SessionsAssumption DEF Init, TypeInv, NoRun
<1>5. PhaseInv
  BY DEF Init, PhaseInv
<1>6. TailInv
  BY <1>2 DEF Init, TailInv
<1>7. PlaceInv
  BY <1>2 DEF Init, PlaceInv
<1>8. SightInv
  <2>1. Started = {}
    BY DEF Started, Init
  <2> QED
    BY <1>2, <2>1 DEF Init, SightInv
<1>9. GoingInv
  BY DEF Init, GoingInv
<1> QED
  BY <1>4, <1>5, <1>6, <1>7, <1>8, <1>9 DEF BaseInv

\* Every step keeps it, and the logs only grow.
LEMMA BaseStep == ASSUME BaseInv, [Next]_vars PROVE BaseInv' /\ Grown
<1>1. TypeInv /\ PhaseInv /\ TailInv /\ PlaceInv /\ SightInv /\ GoingInv
  BY DEF BaseInv
<1>2. \A c \in Convs : turns[c] = <<>> => rows[c] = <<>>
  BY <1>1 DEF SightInv
<1>3. TypeInv' /\ PhaseInv'
  BY <1>1, TypeStep
<1>4. TailInv'
  BY <1>1, TailStep
<1>5. PlaceInv'
  BY <1>1, <1>2, PlaceStep
<1>6. SightInv'
  BY <1>1, SightStep
<1>7. GoingInv'
  BY <1>1, GoingStep
<1>8. Grown
  BY <1>1, <1>2, StepGrown
<1> QED
  BY <1>3, <1>4, <1>5, <1>6, <1>7, <1>8 DEF BaseInv

\* The rows, the turns, the transcripts and the calls of every conversation
\* always have their types, through crashes, resumes and branches.
THEOREM SessionsTyped == Spec => []TypeOK
<1>1. TypeInv => TypeOK
  BY DEF TypeInv, TypeOK, RowT, TurnT
<1>2. BaseInv /\ [Next]_vars => BaseInv'
  BY BaseStep
<1>3. BaseInv => TypeOK
  BY <1>1 DEF BaseInv
<1> QED
  BY BaseInit, <1>2, <1>3, PTL DEF Spec
-----------------------------------------------------------------------------
(********************* where the log and the turns are cut *****************)

\* The rows there were stay, so a place that was good stays good.
LEMMA CutGoodKept ==
    ASSUME TypeInv, Grown, NEW c \in Convs, NEW n, CutGood(c, n), Cut(c, n)' = Cut(c, n),
           turns'[c][n].run = turns[c][n].run
    PROVE  CutGood(c, n)'
  BY GrownKeeps DEF CutGood

\* The newest row, after rows were added.
LEMMA LastAdded ==
    ASSUME TypeInv, NEW c \in Convs, NEW x \in Seq(RowT), x # <<>>, rows' = [rows EXCEPT ![c] = rows[c] \o x]
    PROVE  LastLogged(c)' = x[Len(x)].run /\ \A d \in Convs : d # c => LastLogged(d)' = LastLogged(d)
<1>1. PICK s \in Seq(RowT) : s = rows[c]
  BY DEF TypeInv
<1>2. s \o x # <<>> /\ (s \o x)[Len(s \o x)] = x[Len(x)]
  OBVIOUS
<1>3. rows'[c] = s \o x /\ \A d \in Convs : d # c => rows'[d] = rows[d]
  BY <1>1 DEF TypeInv
<1> QED
  BY ONLY <1>2, <1>3 DEF LastLogged

\* Rows of the run going on, added to its conversation.
LEMMA CutAdded ==
    ASSUME BaseInv, CutInv, NEW c \in Convs, NEW x \in Seq(RowT), x # <<>>,
           rows' = [rows EXCEPT ![c] = rows[c] \o x], \A j \in DOMAIN x : x[j].run = active[c],
           active[c] # NoRun, turns' = turns, active' = active, checks' = {}
    PROVE  CutInv'
<1>1. TypeInv /\ GoingInv /\ Grown
  BY AddedGrown DEF BaseInv
<1>2. x[Len(x)].run = active[c]
  <2>1. Len(x) \in DOMAIN x
    OBVIOUS
  <2> QED
    BY <2>1
<1>3. LastLogged(c)' = active[c] /\ \A d \in Convs : d # c => LastLogged(d)' = LastLogged(d)
  BY <1>1, <1>2, LastAdded
<1>4. \A d \in Convs : active'[d] # NoRun => LastLogged(d)' = active'[d]
  BY <1>3 DEF CutInv
<1>5. ASSUME NEW d \in Convs, NEW n \in DOMAIN turns'[d], turns'[d][n].reason = "cut"
      PROVE  CutGood(d, n)'
  <2>1. CutGood(d, n)
    BY <1>5 DEF CutInv
  <2>2. Cut(d, n)' = Cut(d, n)
    <3>1. CASE d = c
      <4>1. turns[c][Len(turns[c])].reason = "none"
        <5>1. Len(turns[c]) \in DOMAIN turns[c] /\ turns[c][Len(turns[c])].run = active[c]
          <6>1. turns[c] \in Seq(TurnT)
            BY <1>1 DEF TypeInv
          <6>2. turns[c] # <<>> /\ turns[c][Len(turns[c])].run = active[c]
            BY <1>1 DEF GoingInv
          <6> QED
            BY ONLY <6>1, <6>2
        <5> QED
          BY <1>1, <5>1 DEF GoingInv
      <4>2. n # Len(turns[c])
        BY <1>5, <3>1, <4>1
      <4> QED
        BY <3>1, <4>2 DEF Cut
    <3>2. CASE d # c
      <4>1. rows'[d] = rows[d]
        BY <1>1, <3>2, AddedRows
      <4> QED
        BY ONLY <4>1, turns' = turns DEF Cut
    <3> QED
      BY <3>1, <3>2
  <2>3. turns'[d][n].run = turns[d][n].run
    OBVIOUS
  <2> QED
    BY ONLY <1>1, <2>1, <2>2, <2>3, d \in Convs, CutGoodKept
<1> QED
  BY <1>4, <1>5 DEF CutInv

\* A turn more in a conversation that is between turns.
LEMMA CutTurn ==
    ASSUME BaseInv, CutInv, Grown, NEW c \in Convs, NEW t \in TurnT, TurnAdded(c, t),
           t.at = Len(rows[c]), t.reason = "none",
           \A d \in Convs : d # c => rows'[d] = rows[d],
           NEW d \in Convs, NEW n \in DOMAIN turns'[d], turns'[d][n].reason = "cut"
    PROVE  CutGood(d, n)'
<1>1. TypeInv
  BY DEF BaseInv
<1>2. CASE d # c
  <2>1. turns'[d] = turns[d] /\ rows'[d] = rows[d]
    BY <1>2 DEF TurnAdded
  <2> QED
    BY <2>1 DEF CutInv, CutGood, Cut
<1>3. CASE d = c
  <2>1. n \in 1..Len(turns[c]) /\ n \in DOMAIN turns[c] /\ turns'[c][n] = turns[c][n]
    BY <1>3 DEF TurnAdded
  <2>2. CutGood(c, n)
    BY <1>3, <2>1 DEF CutInv
  <2>3. Cut(c, n)' = turns'[c][n + 1].at
    BY <2>1 DEF Cut, TurnAdded
  <2>4. Cut(c, n)' = Cut(c, n)
    <3>1. CASE n = Len(turns[c])
      BY <2>3, <3>1 DEF Cut, TurnAdded
    <3>2. CASE n # Len(turns[c])
      <4>1. n + 1 \in 1..Len(turns[c])
        BY <2>1, <3>2 DEF TurnAdded
      <4> QED
        BY <2>3, <3>2, <4>1 DEF Cut, TurnAdded
    <3> QED
      BY <3>1, <3>2
  <2> QED
    BY ONLY <1>1, <1>3, <2>1, <2>2, <2>4, Grown, c \in Convs, CutGoodKept
<1> QED
  BY <1>2, <1>3

\* A branch is cut where the original is.
LEMMA CutFork ==
    ASSUME BaseInv, CutInv, NEW c \in Convs, NEW d \in Convs, Fork(c, d)
    PROVE  CutInv'
<1>1. TypeInv /\ PlaceInv
  BY DEF BaseInv
<1>2. PICK n \in 1..Len(turns[c]), t \in Seq(TurnT), s \in Seq(RowT) :
               /\ turns' = [turns EXCEPT ![d] = t] /\ rows' = [rows EXCEPT ![d] = s]
               /\ Len(t) = n /\ (\A k \in 1..n : t[k] = turns[c][k])
               /\ Len(s) = Cut(c, n) /\ (\A i \in 1..Len(s) : s[i] = rows[c][i])
  BY ONLY <1>1, c \in Convs, d \in Convs, Fork(c, d), ForkEffect
<1>3. checks' = checks /\ active' = active /\ \A e \in Convs : active[e] = NoRun
  BY DEF Fork, Free
<1>4. \A e \in Convs : IF e = d THEN turns'[e] = t /\ rows'[e] = s ELSE turns'[e] = turns[e] /\ rows'[e] = rows[e]
  BY <1>1, <1>2 DEF TypeInv
<1>5. /\ DOMAIN t = 1..n /\ Len(s) \in Nat /\ n \in Nat /\ Len(turns[c]) \in Nat /\ n <= Len(turns[c])
      /\ DOMAIN turns[c] = 1..Len(turns[c])
  <2>1. turns[c] \in Seq(TurnT) /\ DOMAIN t = 1..Len(t)
    BY <1>1 DEF TypeInv
  <2> QED
    BY <1>2, <2>1
<1>6. \A k \in 1..n : turns[c][k].at <= Cut(c, n)
  BY <1>1, CutIs
<1>7. ASSUME NEW k \in 1..n, turns[c][k].reason = "cut" PROVE CutGood(d, k)'
  <2>1. CutGood(c, k)
    BY <1>5, <1>7 DEF CutInv
  <2>2. turns'[d] = t /\ rows'[d] = s
    BY <1>4
  <2>3. Cut(d, k)' = Cut(c, k) /\ Cut(c, k) <= Len(s)
    <3>1. CASE k = n
      BY <1>2, <1>5, <2>2, <3>1 DEF Cut
    <3>2. CASE k # n
      <4>1. k + 1 \in 1..n /\ k # Len(turns[c])
        BY <1>5, <3>2
      <4> QED
        BY <1>2, <1>6, <2>2, <3>2, <4>1 DEF Cut
    <3> QED
      BY <3>1, <3>2
  <2>4. Cut(c, k) \in 1..Len(s)
    BY <1>5, <2>1, <2>3 DEF CutGood
  <2> QED
    BY <1>2, <2>1, <2>2, <2>3, <2>4 DEF CutGood
<1>8. ASSUME NEW e \in Convs, NEW k \in DOMAIN turns'[e], turns'[e][k].reason = "cut" PROVE CutGood(e, k)'
  <2>1. CASE e = d
    <3>1. k \in 1..n /\ turns[c][k].reason = "cut"
      BY <1>2, <1>4, <1>5, <1>8, <2>1
    <3> QED
      BY <1>7, <2>1, <3>1
  <2>2. CASE e # d
    <3>1. turns'[e] = turns[e] /\ rows'[e] = rows[e]
      BY <1>4, <2>2
    <3> QED
      BY <1>8, <3>1 DEF CutInv, CutGood, Cut
  <2> QED
    BY <2>1, <2>2
<1> QED
  BY <1>3, <1>8 DEF CutInv

\* A turn that was cut off ends with its run's newest row.
LEMMA CutFinalize ==
    ASSUME BaseInv, CutInv, NEW c \in Convs, Finalize(c)
    PROVE  CutInv'
<1>1. TypeInv /\ GoingInv /\ PhaseInv
  BY DEF BaseInv
<1>2. /\ turns' \in [Convs -> Seq(TurnT)]
      /\ \A d \in Convs : Len(turns'[d]) = Len(turns[d]) /\ (d # c => turns'[d] = turns[d])
      /\ \A n \in DOMAIN turns[c] :
            turns'[c][n] = IF n = Len(turns[c]) THEN [turns[c][n] EXCEPT !.reason = phase[c]]
                           ELSE turns[c][n]
  BY ONLY <1>1, c \in Convs, Finalize(c), FinalizeEffect
<1>3. rows' = rows /\ checks' = checks /\ active' = [active EXCEPT ![c] = NoRun]
  BY DEF Finalize
<1>4. active[c] # NoRun /\ turns[c][Len(turns[c])].run = active[c] /\ LastLogged(c) = active[c]
  <2>1. active[c] # NoRun
    BY <1>1 DEF Finalize, PhaseInv, Reasons
  <2> QED
    BY <1>1, <2>1 DEF GoingInv, CutInv
<1>5. ASSUME NEW d \in Convs
      PROVE  /\ DOMAIN turns'[d] = DOMAIN turns[d] /\ DOMAIN turns[d] = 1..Len(turns[d]) /\ Len(turns[d]) \in Nat
             /\ \A n \in DOMAIN turns[d] :
                   turns'[d][n].run = turns[d][n].run /\ turns'[d][n].at = turns[d][n].at
  <2>1. turns[d] \in Seq(TurnT) /\ turns'[d] \in Seq(TurnT)
    BY <1>1, <1>2 DEF TypeInv
  <2>2. DOMAIN turns[d] = 1..Len(turns[d]) /\ DOMAIN turns'[d] = 1..Len(turns'[d]) /\ Len(turns[d]) \in Nat
    BY <2>1
  <2>3. \A n \in DOMAIN turns[d] : turns[d][n] \in TurnT
    BY <2>1
  <2>4. \A x \in TurnT : [x EXCEPT !.reason = phase[c]].run = x.run /\ [x EXCEPT !.reason = phase[c]].at = x.at
    BY DEF TurnT
  <2>5. CASE d = c
    BY <1>2, <2>2, <2>3, <2>4, <2>5
  <2>6. CASE d # c
    BY <1>2, <2>2, <2>6
  <2> QED
    BY <2>5, <2>6
<1>6. ASSUME NEW d \in Convs, NEW n \in DOMAIN turns[d] PROVE CutGood(d, n)' <=> CutGood(d, n)
  <2>1. Cut(d, n)' = Cut(d, n)
    <3>1. CASE n = Len(turns[d])
      BY <1>2, <1>3, <3>1 DEF Cut
    <3>2. CASE n # Len(turns[d])
      <4>1. n + 1 \in DOMAIN turns[d]
        BY <1>5, <3>2
      <4> QED
        BY <1>2, <1>5, <3>2, <4>1 DEF Cut
    <3> QED
      BY <3>1, <3>2
  <2> QED
    BY <1>3, <1>5, <2>1 DEF CutGood
<1>7. ASSUME NEW d \in Convs, NEW n \in DOMAIN turns'[d], turns'[d][n].reason = "cut"
      PROVE  CutGood(d, n)'
  <2>1. n \in DOMAIN turns[d]
    BY <1>5
  <2>2. CASE d = c /\ n = Len(turns[c])
    <3>1. rows[c] # <<>> /\ rows[c] \in Seq(RowT)
      BY <1>1, <1>4 DEF LastLogged, TypeInv
    <3>2. Len(rows[c]) \in 1..Len(rows[c])
      BY <3>1
    <3>3. Cut(c, n) = Len(rows[c]) /\ rows[c][Len(rows[c])].run = active[c]
      BY <1>4, <2>2, <3>1 DEF Cut, LastLogged
    <3>4. CutGood(c, n)
      BY <1>4, <2>2, <3>2, <3>3 DEF CutGood
    <3> QED
      BY <1>6, <2>1, <2>2, <3>4
  <2>3. CASE ~(d = c /\ n = Len(turns[c]))
    <3>1. turns[d][n].reason = "cut"
      BY <1>2, <1>7, <2>1, <2>3
    <3> QED
      BY <1>6, <2>1, <3>1 DEF CutInv
  <2> QED
    BY <2>2, <2>3
<1>8. \A d \in Convs : active'[d] # NoRun => LastLogged(d)' = active'[d]
  BY <1>1, <1>3 DEF CutInv, LastLogged, TypeInv
<1> QED
  BY <1>3, <1>7, <1>8 DEF CutInv

\* Without checks of answers only the run going on writes rows, and every step
\* cuts the log where the messages are cut.
LEMMA CutStep == ASSUME BaseInv, CutInv, ~AnswerChecks, [Next]_vars PROVE CutInv'
<1>0. TypeInv /\ PhaseInv /\ TailInv /\ GoingInv /\ Grown
  BY BaseStep DEF BaseInv
<1>1. ASSUME NEW c \in Convs, StartTurn(c) \/ Resume(c) PROVE CutInv'
  <2>1. PICK opening \in Seq(Messages) : Launch(c, opening)
    BY <1>0, <1>1, StartEffect
  <2>2. PICK t \in TurnT, x \in RowT :
               /\ nextRun \in Runs /\ nextRun' = nextRun + 1
               /\ t = [run |-> nextRun, reason |-> "none", at |-> Len(rows[c])]
               /\ turns' = [turns EXCEPT ![c] = Append(turns[c], t)]
               /\ x = Row(nextRun, "prompt", opening)
               /\ rows' = [rows EXCEPT ![c] = rows[c] \o <<x>>]
    BY ONLY <1>0, <2>1, c \in Convs, opening \in Seq(Messages), LaunchEffect
  <2>3. TurnAdded(c, t) /\ t.at = Len(rows[c]) /\ t.reason = "none"
    BY ONLY <1>0, c \in Convs, <2>2, AddsTurn
  <2>4. PICK y \in Seq(RowT) : y = <<x>> /\ y # <<>> /\ y[Len(y)] = x
    <3>1. <<x>> \in Seq(RowT) /\ <<x>> # <<>> /\ <<x>>[Len(<<x>>)] = x
      OBVIOUS
    <3> QED
      BY ONLY <3>1
  <2>5. rows' = [rows EXCEPT ![c] = rows[c] \o y]
    BY ONLY <2>2, <2>4
  <2>6. LastLogged(c)' = nextRun
    <3>1. LastLogged(c)' = y[Len(y)].run
      BY ONLY <1>0, c \in Convs, <2>4, <2>5, LastAdded
    <3> QED
      BY ONLY <2>2, <2>4, <3>1 DEF Row
  <2>7. \A d \in Convs : d # c => rows'[d] = rows[d]
    BY ONLY <1>0, c \in Convs, <2>2 DEF TypeInv
  <2>8. \A d \in Convs : \A n \in DOMAIN turns'[d] : turns'[d][n].reason = "cut" => CutGood(d, n)'
    BY ONLY BaseInv, CutInv, <1>0, c \in Convs, <2>3, <2>7, CutTurn
  <2>9. /\ checks' = checks /\ active' = [active EXCEPT ![c] = nextRun]
        /\ \A d \in Convs : active[d] = NoRun
    BY <1>1, <2>1 DEF Launch, StartTurn, Resume, Free
  <2>10. \A d \in Convs : active'[d] # NoRun => d = c /\ active'[d] = nextRun
    BY <1>0, <2>9 DEF TypeInv
  <2> QED
    BY ONLY CutInv, <2>6, <2>8, <2>9, <2>10 DEF CutInv
<1>2. ASSUME NEW c \in Convs, ResumeRefused(c) \/ NoModel(c) PROVE CutInv'
  <2>0. RowOnly(c)
    BY <1>2 DEF ResumeRefused, NoModel
  <2>1. PICK t \in TurnT : /\ t = [run |-> NoRun, reason |-> "none", at |-> Len(rows[c])]
                           /\ turns' = [turns EXCEPT ![c] = Append(turns[c], t)]
    BY ONLY <1>0, <2>0, c \in Convs, RowOnlyEffect
  <2>2. TurnAdded(c, t) /\ t.at = Len(rows[c]) /\ t.reason = "none"
    BY ONLY <1>0, c \in Convs, <2>1, AddsTurn
  <2>3. rows' = rows /\ checks' = checks /\ active' = active /\ \A d \in Convs : active[d] = NoRun
    BY <2>0 DEF RowOnly, Free
  <2>4. \A d \in Convs : d # c => rows'[d] = rows[d]
    BY <2>3
  <2>5. \A d \in Convs : \A n \in DOMAIN turns'[d] : turns'[d][n].reason = "cut" => CutGood(d, n)'
    BY ONLY BaseInv, CutInv, <1>0, c \in Convs, <2>2, <2>4, CutTurn
  <2> QED
    BY ONLY CutInv, <2>3, <2>5 DEF CutInv
<1>3. ASSUME rows' = rows, turns' = turns, checks' = {}, \A d \in Convs : active'[d] \in {active[d], NoRun}
      PROVE  CutInv'
  <2>1. \A d \in Convs : LastLogged(d)' = LastLogged(d)
    BY <1>3 DEF LastLogged
  <2>2. \A d \in Convs : \A n \in DOMAIN turns[d] : CutGood(d, n)' <=> CutGood(d, n)
    BY <1>3 DEF CutGood, Cut
  <2> QED
    BY <1>3, <2>1, <2>2 DEF CutInv
<1>4. ASSUME NEW c \in Convs, AskCalls(c) \/ CallReturns(c) \/ Request(c) PROVE CutInv'
  BY <1>3, <1>4 DEF AskCalls, CallReturns, Request, CutInv
<1>5. ASSUME NEW c \in Convs, FlushRow(c) PROVE CutInv'
  <2>1. PICK m \in Messages, x \in RowT :
               /\ x = Row(active[c], KindOf(m), <<m>>) /\ active[c] \in Runs
               /\ rows' = [rows EXCEPT ![c] = rows[c] \o <<x>>]
    BY <1>0, <1>5, FlushEffect
  <2>2. PICK y \in Seq(RowT) : y = <<x>> /\ y # <<>> /\ \A j \in DOMAIN y : y[j] = x
    <3>1. <<x>> \in Seq(RowT) /\ <<x>> # <<>> /\ \A j \in DOMAIN <<x>> : <<x>>[j] = x
      OBVIOUS
    <3> QED
      BY ONLY <3>1
  <2>3. /\ rows' = [rows EXCEPT ![c] = rows[c] \o y] /\ \A j \in DOMAIN y : y[j].run = active[c]
        /\ active[c] # NoRun
    BY ONLY <2>1, <2>2 DEF Row, Runs, NoRun
  <2>4. turns' = turns /\ active' = active /\ checks' = {}
    BY <1>5 DEF FlushRow, CutInv
  <2> QED
    BY ONLY BaseInv, CutInv, c \in Convs, y \in Seq(RowT), <2>2, <2>3, <2>4, CutAdded
<1>6. ASSUME NEW c \in Convs, DecisionRow(c) PROVE CutInv'
  <2>1. PICK k \in Runs, x \in RowT :
               /\ (k = active[c] /\ phase[c] \in {"turn", "batch"}) \/ <<c, k>> \in checks
               /\ x = Row(k, "decision", <<Msg("decision", <<>>)>>)
               /\ rows' = [rows EXCEPT ![c] = rows[c] \o <<x>>]
    BY <1>0, <1>6, DecisionEffect
  <2>2. k = active[c]
    BY <2>1 DEF CutInv
  <2>3. PICK y \in Seq(RowT) : y = <<x>> /\ y # <<>> /\ \A j \in DOMAIN y : y[j] = x
    <3>1. <<x>> \in Seq(RowT) /\ <<x>> # <<>> /\ \A j \in DOMAIN <<x>> : <<x>>[j] = x
      OBVIOUS
    <3> QED
      BY ONLY <3>1
  <2>4. /\ rows' = [rows EXCEPT ![c] = rows[c] \o y] /\ \A j \in DOMAIN y : y[j].run = active[c]
        /\ active[c] # NoRun
    <3>1. x.run = k
      BY ONLY <2>1 DEF Row
    <3>2. k # NoRun
      BY ONLY k \in Runs DEF Runs, NoRun
    <3>3. rows' = [rows EXCEPT ![c] = rows[c] \o y]
      BY ONLY <2>1, <2>3
    <3> QED
      BY ONLY <2>2, <2>3, <3>1, <3>2, <3>3
  <2>5. turns' = turns /\ active' = active /\ checks' = {}
    BY <1>6 DEF DecisionRow, CutInv
  <2> QED
    BY ONLY BaseInv, CutInv, c \in Convs, y \in Seq(RowT), <2>3, <2>4, <2>5, CutAdded
<1>7. ASSUME NEW c \in Convs, EndLoop(c) PROVE CutInv'
  <2>1. PICK why \in {"over", "cut"}, x \in Seq(RowT) :
               /\ x = Answer(c, why) \o <<Row(active[c], "stop", <<>>)>>
               /\ rows' = [rows EXCEPT ![c] = rows[c] \o x]
               /\ checks' \subseteq checks /\ active[c] \in Runs
    BY <1>0, <1>7, EndEffect
  <2>2. x # <<>> /\ (\A j \in DOMAIN x : x[j].run = active[c]) /\ active[c] # NoRun
    <3>1. x # <<>> /\ \A j \in DOMAIN x : x[j].run = active[c]
      BY ONLY <1>0, <2>1, c \in Convs, x \in Seq(RowT), EndRows
    <3> QED
      BY ONLY <2>1, <3>1 DEF Runs, NoRun
  <2>3. turns' = turns /\ active' = active /\ checks' = {}
    BY <1>7, <2>1 DEF EndLoop, CutInv
  <2> QED
    BY ONLY BaseInv, CutInv, c \in Convs, x \in Seq(RowT), <2>1, <2>2, <2>3, CutAdded
<1>8. ASSUME NEW c \in Convs, Finalize(c) PROVE CutInv'
  BY <1>8, CutFinalize
<1>9. ASSUME NEW c \in Convs, NEW d \in Convs, Fork(c, d) PROVE CutInv'
  BY <1>9, CutFork
<1>10. ASSUME Crash \/ UNCHANGED vars PROVE CutInv'
  BY <1>3, <1>10 DEF Crash, vars, CutInv
<1> QED
  BY <1>1, <1>2, <1>4, <1>5, <1>6, <1>7, <1>8, <1>9, <1>10 DEF Next

\* Where continuing is offered, the newest row of the log is one of the run
\* whose answer is the last message.
LEMMA OfferedIs ==
    ASSUME TypeInv, CutInv, NEW c \in Convs, Offered(c)
    PROVE  /\ LastLogged(c) = turns[c][Len(turns[c])].run
           /\ Len(turns[c]) \in DOMAIN turns[c] /\ turns[c][Len(turns[c])].reason = "cut"
<1>1. turns[c] \in Seq(TurnT) /\ rows[c] \in Seq(RowT)
  BY DEF TypeInv
<1>2. Len(turns[c]) \in DOMAIN turns[c] /\ turns[c][Len(turns[c])].reason = "cut"
  BY <1>1 DEF Offered
<1>3. CutGood(c, Len(turns[c]))
  BY <1>2 DEF CutInv
<1>4. Len(rows[c]) \in 1..Len(rows[c]) /\ rows[c][Len(rows[c])].run = turns[c][Len(turns[c])].run
  BY <1>3 DEF CutGood, Cut
<1>5. rows[c] # <<>>
  BY <1>1, <1>4
<1> QED
  BY <1>2, <1>4, <1>5 DEF LastLogged

\* It holds when the app is new.
LEMMA CutInit == Init => CutInv
<1>1. DOMAIN <<>> = {}
  OBVIOUS
<1> QED
  BY <1>1 DEF Init, CutInv

\* "Continue" means the run at the end: where it is offered, in the original
\* and in every branch, the run it would pick up is the one whose answer is the
\* last message.  (As in the run that checks it, answers are not checked in the
\* background: such a check writes about a run after the next has begun.)
THEOREM ContinueIsTheLastRun == ASSUME ~AnswerChecks PROVE Spec => []ContinueMeansTheLastRun
<1>1. Init => BaseInv /\ CutInv
  BY BaseInit, CutInit
<1>2. BaseInv /\ CutInv /\ [Next]_vars => (BaseInv /\ CutInv)'
  BY BaseStep, CutStep
<1>3. BaseInv /\ CutInv => ContinueMeansTheLastRun
  BY OfferedIs DEF BaseInv, ContinueMeansTheLastRun
<1> QED
  BY <1>1, <1>2, <1>3, PTL DEF Spec
-----------------------------------------------------------------------------
(************************* what a replay begins with ***********************)

\* A log that grew says of a run what it said, and maybe more.
LEMMA SaidGrows ==
    ASSUME TypeInv, Grown, NEW c \in Convs, NEW r, NEW p \in Seq(Messages), IsPrefix(p, Said(rows[c], r))
    PROVE  IsPrefix(p, Said(rows'[c], r))
<1>1. PICK s \in Seq(RowT), x \in Seq(RowT) : s = rows[c] /\ rows'[c] = s \o x
  BY DEF TypeInv, Grown
<1>2. PICK a \in Seq(Messages), b \in Seq(Messages) : a = Said(s, r) /\ b = Said(x, r)
  BY SaidType
<1>3. Said(s \o x, r) = a \o b
  BY <1>2, SaidConcat
<1>4. IsPrefix(p, a \o b)
  BY <1>1, <1>2, PrefixConcat
<1> QED
  BY ONLY <1>1, <1>3, <1>4

\* What a log says of a run when a row is added.
LEMMA SaidAdded ==
    ASSUME TypeInv, NEW c \in Convs, NEW x \in RowT, rows' = [rows EXCEPT ![c] = rows[c] \o <<x>>], NEW r
    PROVE  Said(rows'[c], r)
             = Said(rows[c], r) \o (IF x.run = r /\ x.kind \notin {"stop", "decision"} THEN x.msgs ELSE <<>>)
<1>1. PICK s \in Seq(RowT) : s = rows[c] /\ rows'[c] = s \o <<x>>
  BY DEF TypeInv
<1>2. PICK u \in Seq(RowT) : u = <<x>>
  <2>1. <<x>> \in Seq(RowT)
    OBVIOUS
  <2> QED
    BY ONLY <2>1
<1>3. Said(s \o u, r) = Said(s, r) \o Said(u, r)
  BY ONLY s \in Seq(RowT), u \in Seq(RowT), SaidConcat
<1>4. Said(u, r) = IF x.run = r /\ x.kind \notin {"stop", "decision"} THEN x.msgs ELSE <<>>
  BY ONLY <1>2, x \in RowT, SaidOne
<1> QED
  BY ONLY <1>1, <1>2, <1>3, <1>4

\* A step that leaves a run's last request alone keeps it at the beginning.
LEMMA SeenKept ==
    ASSUME TypeInv, SightInv, Grown, NEW c \in Convs, NEW r \in Started, SeenInv(c),
           Homes(r)' = {c}, seen'[r] = seen[r]
    PROVE  IsPrefix(seen'[r], Said(rows'[c], r))
<1>1. r \in Runs
  BY SessionsAssumption DEF TypeInv, Started, Runs
<1>2. Homes(r) = {c}
  BY HomesGrow DEF SightInv
<1>3. IsPrefix(seen[r], Said(rows[c], r)) /\ seen[r] \in Seq(Messages)
  BY <1>1, <1>2 DEF SeenInv, TypeInv
<1> QED
  BY <1>3, SaidGrows

\* Where nothing about a conversation changes, nor what its run was sent.
LEMMA TranscriptSame ==
    ASSUME NEW c, TranscriptInv(c), phase'[c] = phase[c], active'[c] = active[c],
           messages'[c] = messages[c], unlogged'[c] = unlogged[c], rows'[c] = rows[c],
           seen'[active[c]] = seen[active[c]]
    PROVE  TranscriptInv(c)'
  BY DEF TranscriptInv

\* The two halves for a step that sends nothing.
LEMMA ReplayKept ==
    ASSUME BaseInv, ReplayInv, Grown, seen' = seen, nextRun' = nextRun, \A c \in Convs : TranscriptInv(c)'
    PROVE  ReplayInv'
<1>1. TypeInv /\ SightInv
  BY DEF BaseInv
<1>2. ASSUME NEW c \in Convs, NEW r \in Started, Homes(r)' = {c}
      PROVE  IsPrefix(seen'[r], Said(rows'[c], r))
  BY <1>1, <1>2, SeenKept DEF ReplayInv
<1>3. Started' = Started
  BY DEF Started
<1>4. \A c \in Convs : SeenInv(c)'
  BY <1>2, <1>3 DEF SeenInv
<1> QED
  BY <1>4 DEF ReplayInv

\* A launch: the prompt row is all the log says of the new run, and all it was sent.
LEMMA ReplayLaunch ==
    ASSUME BaseInv, ReplayInv, Grown, NEW c \in Convs, NEW opening \in Seq(Messages),
           Launch(c, opening), Free
    PROVE  ReplayInv'
<1>1. TypeInv /\ SightInv /\ PhaseInv /\ TailInv
  BY DEF BaseInv
<1>2. PICK x \in RowT :
               /\ nextRun \in Runs /\ nextRun' = nextRun + 1
               /\ x = Row(nextRun, "prompt", opening)
               /\ rows' = [rows EXCEPT ![c] = rows[c] \o <<x>>]
  BY ONLY <1>1, c \in Convs, opening \in Seq(Messages), Launch(c, opening), LaunchEffect
<1>3. PICK k \in Runs : k = nextRun
  BY <1>2
<1>4. Said(rows'[c], k) = opening
  <2>1. Said(rows[c], k) = <<>>
    <3>1. PICK s \in Seq(RowT) : s = rows[c]
      BY <1>1 DEF TypeInv
    <3>2. \A i \in DOMAIN s : s[i].run # k
      <4>1. \A i \in DOMAIN rows[c] : rows[c][i].run < nextRun
        BY <1>1 DEF SightInv
      <4>2. ~(k < k)
        BY DEF Runs
      <4> QED
        BY ONLY <1>3, <3>1, <4>1, <4>2
    <3> QED
      BY ONLY <3>1, <3>2, SaidNothing
  <2>2. Said(rows'[c], k)
             = Said(rows[c], k) \o (IF x.run = k /\ x.kind \notin {"stop", "decision"} THEN x.msgs ELSE <<>>)
    BY ONLY <1>1, <1>2, c \in Convs, x \in RowT, SaidAdded
  <2>3. x.run = k /\ x.kind = "prompt" /\ x.msgs = opening
    BY ONLY <1>2, <1>3 DEF Row
  <2>4. <<>> \o opening = opening
    BY ConcatEmptySeq
  <2> QED
    BY ONLY <2>1, <2>2, <2>3, <2>4
<1>5. seen'[k] = opening /\ \A r \in Runs : r # k => seen'[r] = seen[r]
  BY <1>1, <1>3 DEF TypeInv, Launch
<1>6. IsPrefix(opening, opening)
  BY PrefixSelf
<1>7. /\ \A d \in Convs : d # c => phase'[d] = "idle"
      /\ active'[c] = k /\ messages'[c] = opening /\ unlogged'[c] = <<>>
  <2>1. \A d \in Convs : phase[d] = "idle"
    BY <1>1 DEF Free, PhaseInv
  <2>2. unlogged[c] = <<>>
    BY <1>1, <2>1 DEF TailInv
  <2> QED
    BY <1>1, <1>3, <2>1, <2>2 DEF TypeInv, Launch
<1>8. opening \o <<>> = opening
  BY ConcatEmptySeq
<1>9. ASSUME NEW d \in Convs PROVE TranscriptInv(d)'
  <2>1. CASE d = c
    BY <1>4, <1>5, <1>6, <1>7, <1>8, <2>1 DEF TranscriptInv
  <2>2. CASE d # c
    BY <1>7, <2>2 DEF TranscriptInv
  <2> QED
    BY <2>1, <2>2
<1>10. c \in Homes(k)'
  BY <1>1, <1>3, SightLaunch
<1>11. ASSUME NEW d \in Convs, NEW r \in Started', Homes(r)' = {d} PROVE IsPrefix(seen'[r], Said(rows'[d], r))
  <2>1. CASE r = k
    <3>1. d = c
      BY <1>10, <1>11, <2>1
    <3> QED
      BY <1>4, <1>5, <1>6, <2>1, <3>1
  <2>2. CASE r # k
    <3>1. r \in Started /\ r \in Runs
      BY <1>1, <1>2, <1>3, <2>2, SessionsAssumption DEF Started, TypeInv, Runs
    <3>2. seen'[r] = seen[r] /\ SeenInv(d)
      BY <1>5, <2>2, <3>1 DEF ReplayInv
    <3> QED
      BY ONLY <1>1, <1>11, <3>1, <3>2, Grown, d \in Convs, SeenKept
  <2> QED
    BY <2>1, <2>2
<1>12. \A d \in Convs : SeenInv(d)'
  BY <1>11 DEF SeenInv
<1> QED
  BY <1>9, <1>12 DEF ReplayInv

\* The transcript gets a message that is still to be logged.
LEMMA ReplayMore ==
    ASSUME BaseInv, ReplayInv, Grown, NEW c \in Convs, NEW m \in Messages, phase[c] \in {"turn", "batch"},
           messages' = [messages EXCEPT ![c] = Append(messages[c], m)],
           unlogged' = [unlogged EXCEPT ![c] = Append(unlogged[c], m)],
           \A d \in Convs : d # c => phase'[d] = phase[d],
           rows' = rows, active' = active, seen' = seen, nextRun' = nextRun
    PROVE  ReplayInv'
<1>1. TypeInv
  BY DEF BaseInv
<1>2. /\ messages'[c] = Append(messages[c], m) /\ unlogged'[c] = Append(unlogged[c], m)
      /\ \A d \in Convs : d # c => messages'[d] = messages[d] /\ unlogged'[d] = unlogged[d]
  BY <1>1 DEF TypeInv
<1>3. /\ messages[c] = Said(rows[c], active[c]) \o unlogged[c]
      /\ IsPrefix(seen[active[c]], Said(rows[c], active[c]))
  BY DEF ReplayInv, TranscriptInv
<1>4. Said(rows[c], active[c]) \o Append(unlogged[c], m) = Append(messages[c], m)
  <2>1. rows[c] \in Seq(RowT) /\ unlogged[c] \in Seq(Messages)
    BY <1>1 DEF TypeInv
  <2>2. PICK a \in Seq(Messages), u \in Seq(Messages) : a = Said(rows[c], active[c]) /\ u = unlogged[c]
    BY <2>1, SaidType
  <2>3. a \o Append(u, m) = Append(a \o u, m)
    BY ONLY a \in Seq(Messages), u \in Seq(Messages), m \in Messages, ConcatAppend
  <2> QED
    BY ONLY <1>3, <2>2, <2>3
<1>5. TranscriptInv(c)'
  BY <1>2, <1>3, <1>4 DEF TranscriptInv
<1>6. \A d \in Convs : d # c => TranscriptInv(d)'
  BY <1>2, TranscriptSame DEF ReplayInv
<1> QED
  BY <1>5, <1>6, ReplayKept

\* A message is logged: it moves from what waits to what the rows say.
LEMMA ReplayFlush ==
    ASSUME BaseInv, ReplayInv, Grown, NEW c \in Convs, FlushRow(c)
    PROVE  ReplayInv'
<1>1. TypeInv /\ PhaseInv /\ TailInv
  BY DEF BaseInv
<1>2. PICK m \in Messages, x \in RowT :
               /\ unlogged[c] # <<>> /\ m = Head(unlogged[c]) /\ m.kind \in {"tool_call", "ok", "err"}
               /\ active[c] \in Runs /\ x = Row(active[c], KindOf(m), <<m>>)
               /\ rows' = [rows EXCEPT ![c] = rows[c] \o <<x>>]
  BY ONLY <1>1, c \in Convs, FlushRow(c), FlushEffect
<1>3. PICK r : r = active[c]
  OBVIOUS
<1>4. x.run = r /\ x.kind \notin {"stop", "decision"} /\ x.msgs = <<m>>
  BY ONLY <1>2, <1>3 DEF Row, KindOf
<1>5. Said(rows'[c], r)
             = Said(rows[c], r) \o (IF x.run = r /\ x.kind \notin {"stop", "decision"} THEN x.msgs ELSE <<>>)
  BY ONLY <1>1, <1>2, c \in Convs, x \in RowT, SaidAdded
<1>6. Said(rows'[c], r) = Said(rows[c], r) \o <<m>>
  BY ONLY <1>4, <1>5
<1>7. /\ messages[c] = Said(rows[c], r) \o unlogged[c]
      /\ IsPrefix(seen[r], Said(rows[c], r))
  BY <1>3 DEF ReplayInv, TranscriptInv, FlushRow
<1>8. Said(rows[c], r) \o unlogged[c] = (Said(rows[c], r) \o <<m>>) \o Tail(unlogged[c])
  <2>1. Said(rows[c], r) \in Seq(Messages) /\ unlogged[c] \in Seq(Messages) /\ unlogged[c] # <<>>
    BY <1>1, <1>2, SaidType DEF TypeInv
  <2> QED
    BY ONLY <1>2, <2>1, ConcatShift
<1>9. /\ messages' = messages /\ active' = active /\ phase' = phase /\ seen' = seen /\ nextRun' = nextRun
      /\ unlogged'[c] = Tail(unlogged[c])
      /\ \A d \in Convs : d # c => unlogged'[d] = unlogged[d] /\ rows'[d] = rows[d]
  BY <1>1, <1>2 DEF FlushRow, TypeInv, counters, history
<1>10. IsPrefix(seen[r], Said(rows'[c], r))
  <2>1. seen[r] \in Seq(Messages)
    BY <1>1, <1>2, <1>3 DEF TypeInv
  <2> QED
    BY <1>1, <1>7, <2>1, SaidGrows
<1>11. TranscriptInv(c)'
  BY ONLY <1>3, <1>6, <1>7, <1>8, <1>9, <1>10 DEF TranscriptInv
<1>12. \A d \in Convs : d # c => TranscriptInv(d)'
  BY <1>9, TranscriptSame DEF ReplayInv
<1> QED
  BY <1>9, <1>11, <1>12, ReplayKept

\* A decision says nothing.
LEMMA ReplayDecision ==
    ASSUME BaseInv, ReplayInv, Grown, NEW c \in Convs, DecisionRow(c)
    PROVE  ReplayInv'
<1>1. TypeInv
  BY DEF BaseInv
<1>2. PICK k \in Runs, x \in RowT :
               /\ x = Row(k, "decision", <<Msg("decision", <<>>)>>)
               /\ rows' = [rows EXCEPT ![c] = rows[c] \o <<x>>]
  BY ONLY <1>1, c \in Convs, DecisionRow(c), DecisionEffect
<1>3. PICK r : r = active[c]
  OBVIOUS
<1>4. Said(rows'[c], r)
             = Said(rows[c], r) \o (IF x.run = r /\ x.kind \notin {"stop", "decision"} THEN x.msgs ELSE <<>>)
  BY ONLY <1>1, <1>2, c \in Convs, x \in RowT, SaidAdded
<1>5. Said(rows'[c], r) = Said(rows[c], r)
  <2>1. x.kind = "decision"
    BY ONLY <1>2 DEF Row
  <2>2. Said(rows[c], r) \in Seq(Messages)
    BY <1>1, SaidType DEF TypeInv
  <2>3. Said(rows[c], r) \o <<>> = Said(rows[c], r)
    BY ONLY <2>2, ConcatEmptySeq
  <2> QED
    BY ONLY <1>4, <2>1, <2>3
<1>6. /\ messages' = messages /\ active' = active /\ phase' = phase /\ seen' = seen /\ nextRun' = nextRun
      /\ unlogged' = unlogged
      /\ \A d \in Convs : d # c => rows'[d] = rows[d]
  BY <1>1, <1>2 DEF DecisionRow, TypeInv, history
<1>7. TranscriptInv(c)'
  BY <1>3, <1>5, <1>6 DEF TranscriptInv, ReplayInv
<1>8. \A d \in Convs : d # c => TranscriptInv(d)'
  BY <1>6, TranscriptSame DEF ReplayInv
<1> QED
  BY <1>6, <1>7, <1>8, ReplayKept

\* The whole transcript is sent, and all of it is logged.
LEMMA ReplayRequest ==
    ASSUME BaseInv, ReplayInv, Grown, NEW c \in Convs, Request(c)
    PROVE  ReplayInv'
<1>1. TypeInv /\ SightInv /\ GoingInv /\ PhaseInv
  BY DEF BaseInv
<1>2. PICK r \in Runs : r = active[c] /\ r # NoRun
  BY <1>1 DEF PhaseInv, TypeInv, Request
<1>3. messages[c] = Said(rows[c], r) /\ messages[c] \in Seq(Messages)
  <2>1. messages[c] = Said(rows[c], r) \o <<>>
    BY <1>2 DEF Request, ReplayInv, TranscriptInv
  <2>2. Said(rows[c], r) \in Seq(Messages) /\ messages[c] \in Seq(Messages)
    BY <1>1, SaidType DEF TypeInv
  <2>3. Said(rows[c], r) \o <<>> = Said(rows[c], r)
    BY ONLY <2>2, ConcatEmptySeq
  <2> QED
    BY ONLY <2>1, <2>2, <2>3
<1>4. seen'[r] = messages[c] /\ \A k \in Runs : k # r => seen'[k] = seen[k]
  BY <1>1, <1>2 DEF Request, TypeInv
<1>5. /\ rows' = rows /\ messages' = messages /\ unlogged' = unlogged /\ active' = active /\ unlogged[c] = <<>>
      /\ nextRun' = nextRun /\ phase'[c] = "turn" /\ \A d \in Convs : d # c => phase'[d] = phase[d]
  BY <1>1 DEF Request, TypeInv, counters
<1>6. IsPrefix(seen'[r], Said(rows[c], r))
  BY <1>3, <1>4, PrefixSelf
<1>7. TranscriptInv(c)'
  BY <1>2, <1>5, <1>6 DEF TranscriptInv, ReplayInv, Request
<1>8. ASSUME NEW d \in Convs, d # c PROVE TranscriptInv(d)'
  <2>1. phase'[d] = "idle"
    BY <1>1, <1>2, <1>5, <1>8 DEF GoingInv, PhaseInv
  <2> QED
    BY <2>1 DEF TranscriptInv
<1>9. ASSUME NEW d \in Convs, NEW k \in Started, Homes(k)' = {d} PROVE IsPrefix(seen'[k], Said(rows'[d], k))
  <2>1. CASE k = r
    <3>1. c \in Homes(k)'
      <4>1. c \in Homes(k)
        BY <1>1, <1>2, <2>1 DEF GoingInv
      <4> QED
        BY <1>1, <4>1, HomesGrow
    <3>2. d = c
      BY <1>9, <3>1
    <3> QED
      BY <1>5, <1>6, <2>1, <3>2
  <2>2. CASE k # r
    <3>1. seen'[k] = seen[k] /\ SeenInv(d)
      <4>1. k \in Runs
        BY <1>1, SessionsAssumption DEF Started, TypeInv, Runs
      <4> QED
        BY <1>4, <2>2, <4>1 DEF ReplayInv
    <3> QED
      BY ONLY <1>1, <1>9, <3>1, Grown, d \in Convs, k \in Started, SeenKept
  <2> QED
    BY <2>1, <2>2
<1>10. Started' = Started
  BY <1>5 DEF Started
<1>11. \A d \in Convs : SeenInv(d)'
  BY <1>9, <1>10 DEF SeenInv
<1> QED
  BY <1>7, <1>8, <1>11 DEF ReplayInv

\* Every step keeps what the replays begin with.
LEMMA ReplayStep == ASSUME BaseInv, ReplayInv, [Next]_vars PROVE ReplayInv'
<1>0. TypeInv /\ PhaseInv /\ TailInv /\ GoingInv /\ Grown
  BY BaseStep DEF BaseInv
<1>1. ASSUME NEW c \in Convs, StartTurn(c) \/ Resume(c) PROVE ReplayInv'
  <2>1. PICK opening \in Seq(Messages) : Launch(c, opening) /\ Free
    BY <1>0, <1>1, StartEffect
  <2> QED
    BY <1>0, <2>1, ReplayLaunch
<1>2. ASSUME seen' = seen, nextRun' = nextRun,
             \A c \in Convs : \/ phase'[c] \notin {"turn", "batch", "flush"}
                              \/ /\ phase'[c] = phase[c] /\ active'[c] = active[c]
                                 /\ messages'[c] = messages[c] /\ unlogged'[c] = unlogged[c]
                                 /\ rows'[c] = rows[c]
      PROVE  ReplayInv'
  <2>1. ASSUME NEW c \in Convs PROVE TranscriptInv(c)'
    <3>1. CASE phase'[c] \notin {"turn", "batch", "flush"}
      BY <3>1 DEF TranscriptInv
    <3>2. CASE phase'[c] \in {"turn", "batch", "flush"}
      BY <1>2, <3>2, TranscriptSame DEF ReplayInv
    <3> QED
      BY <3>1, <3>2
  <2> QED
    BY <1>0, <1>2, <2>1, ReplayKept
<1>3. ASSUME NEW c \in Convs, ResumeRefused(c) \/ NoModel(c) PROVE ReplayInv'
  BY <1>2, <1>3 DEF ResumeRefused, NoModel, RowOnly, history
<1>4. ASSUME NEW c \in Convs, AskCalls(c) PROVE ReplayInv'
  <2>1. PICK ids \in Seq(Calls), m \in Messages :
               /\ messages' = [messages EXCEPT ![c] = Append(messages[c], m)]
               /\ unlogged' = [unlogged EXCEPT ![c] = <<m>>]
    BY <1>0, <1>4, AskEffect
  <2>2. unlogged[c] = <<>>
    BY <1>0, <1>4 DEF AskCalls, TailInv
  <2>3. Append(<<>>, m) = <<m>>
    OBVIOUS
  <2>4. unlogged' = [unlogged EXCEPT ![c] = Append(unlogged[c], m)]
    BY ONLY <2>1, <2>2, <2>3
  <2>5. /\ phase[c] \in {"turn", "batch"} /\ (\A d \in Convs : d # c => phase'[d] = phase[d])
        /\ rows' = rows /\ active' = active /\ seen' = seen /\ nextRun' = nextRun
    BY <1>0, <1>4 DEF AskCalls, TypeInv, history
  <2> QED
    BY ONLY BaseInv, ReplayInv, <1>0, c \in Convs, m \in Messages, <2>1, <2>4, <2>5, ReplayMore
<1>5. ASSUME NEW c \in Convs, CallReturns(c) PROVE ReplayInv'
  <2>1. PICK call \in Calls, out \in {"ok", "err"}, m \in Messages :
               /\ messages' = [messages EXCEPT ![c] = Append(messages[c], m)]
               /\ unlogged' = [unlogged EXCEPT ![c] = Append(unlogged[c], m)]
    BY <1>0, <1>5, ReturnEffect
  <2>2. /\ phase[c] \in {"turn", "batch"} /\ (\A d \in Convs : d # c => phase'[d] = phase[d])
        /\ rows' = rows /\ active' = active /\ seen' = seen /\ nextRun' = nextRun
    BY <1>0, <1>5 DEF CallReturns, TypeInv, counters
  <2> QED
    BY ONLY BaseInv, ReplayInv, <1>0, c \in Convs, m \in Messages, <2>1, <2>2, ReplayMore
<1>6. ASSUME NEW c \in Convs, FlushRow(c) PROVE ReplayInv'
  BY <1>0, <1>6, ReplayFlush
<1>7. ASSUME NEW c \in Convs, Request(c) PROVE ReplayInv'
  BY <1>0, <1>7, ReplayRequest
<1>8. ASSUME NEW c \in Convs, EndLoop(c) PROVE ReplayInv'
  <2>1. PICK why \in {"over", "cut"}, x \in Seq(RowT) :
               /\ phase' = [phase EXCEPT ![c] = why]
               /\ rows' = [rows EXCEPT ![c] = rows[c] \o x]
    BY <1>0, <1>8, EndEffect
  <2>2. unlogged' = [unlogged EXCEPT ![c] = <<>>] /\ messages' = messages /\ active' = active /\ seen' = seen
        /\ nextRun' = nextRun
    BY <1>8 DEF EndLoop, counters, history
  <2>3. phase'[c] \notin {"turn", "batch", "flush"}
    BY <1>0, <2>1 DEF TypeInv
  <2>4. \A d \in Convs : d # c => phase'[d] = phase[d] /\ rows'[d] = rows[d] /\ unlogged'[d] = unlogged[d]
    BY <1>0, <2>1, <2>2 DEF TypeInv
  <2> QED
    BY <1>2, <2>2, <2>3, <2>4
<1>9. ASSUME NEW c \in Convs, Finalize(c) PROVE ReplayInv'
  <2>1. phase'[c] = "idle" /\ \A d \in Convs : d # c => phase'[d] = phase[d] /\ active'[d] = active[d]
                                                        /\ messages'[d] = messages[d]
    BY <1>0, <1>9 DEF Finalize, TypeInv
  <2>2. rows' = rows /\ unlogged' = unlogged /\ seen' = seen /\ nextRun' = nextRun
    BY <1>9 DEF Finalize, counters, history
  <2> QED
    BY <1>2, <2>1, <2>2
<1>10. ASSUME NEW c \in Convs, DecisionRow(c) PROVE ReplayInv'
  BY <1>0, <1>10, ReplayDecision
<1>11. ASSUME NEW c \in Convs, NEW d \in Convs, Fork(c, d) PROVE ReplayInv'
  <2>1. \A e \in Convs : phase[e] = "idle"
    BY <1>0, <1>11 DEF Fork, Free, PhaseInv
  <2>2. phase' = phase /\ seen' = seen /\ nextRun' = nextRun
    BY <1>11 DEF Fork, counters, history
  <2> QED
    BY <1>2, <2>1, <2>2
<1>12. ASSUME Crash PROVE ReplayInv'
  BY <1>2, <1>12 DEF Crash, history
<1>13. ASSUME UNCHANGED vars PROVE ReplayInv'
  BY <1>2, <1>13 DEF vars, history, counters
<1> QED
  BY <1>1, <1>3, <1>4, <1>5, <1>6, <1>7, <1>8, <1>9, <1>10, <1>11, <1>12, <1>13 DEF Next

\* There are no runs at first.
LEMMA ReplayInit == Init => ReplayInv
<1>1. Init => Started = {}
  BY DEF Init, Started
<1> QED
  BY <1>1 DEF Init, ReplayInv, TranscriptInv, SeenInv

\* What both invariants say of a run with rows in one conversation.
LEMMA ReplayBegins ==
    ASSUME BaseInv, ReplayInv, NEW r \in Started, Cardinality(Homes(r)) <= 1
    PROVE  IsPrefix(seen[r], Replay(r))
<1>1. Homes(r) # {}
  BY DEF BaseInv, SightInv
<1>2. PICK c \in Convs : Homes(r) = {c}
  BY <1>1, OneHome
<1>3. Replay(r) = Said(rows[c], r)
  BY <1>2, EventsOneHome
<1>4. IsPrefix(seen[r], Said(rows[c], r))
  BY <1>2 DEF ReplayInv, SeenInv
<1> QED
  BY ONLY <1>3, <1>4

\* Through crashes in the middle of a flush and runs that began as the replay
\* of another, the replay of a run in a conversation that was not branched
\* begins with what the model was last sent.
THEOREM ReplayIsExact == Spec => []ReplayExact
<1>1. Init => BaseInv /\ ReplayInv
  BY BaseInit, ReplayInit
<1>2. BaseInv /\ ReplayInv /\ [Next]_vars => (BaseInv /\ ReplayInv)'
  BY BaseStep, ReplayStep
<1>3. BaseInv /\ ReplayInv => ReplayExact
  BY ReplayBegins DEF ReplayExact
<1> QED
  BY <1>1, <1>2, <1>3, PTL DEF Spec
-----------------------------------------------------------------------------
(************************* the work a resume keeps *************************)

\* A run with rows in one conversation had them in no more before.
LEMMA HomesFewer ==
    ASSUME TypeInv, Grown, NEW r, Cardinality(Homes(r)') <= 1
    PROVE  Cardinality(Homes(r)) <= 1
<1>1. PICK H : H = Homes(r)'
  OBVIOUS
<1>2. H \subseteq Convs /\ IsFiniteSet(Convs)
  <2>1. H \subseteq Convs
    BY <1>1 DEF Homes
  <2> QED
    BY <2>1, SessionsAssumption, FS_Interval DEF Convs
<1>3. IsFiniteSet(H)
  BY <1>2, FS_Subset
<1>4. Homes(r) \subseteq H
  BY <1>1, HomesGrow
<1>5. /\ Cardinality(Homes(r)) \in Nat /\ Cardinality(H) \in Nat
      /\ Cardinality(Homes(r)) <= Cardinality(H)
  BY <1>3, <1>4, FS_Subset, FS_CardinalityType
<1> QED
  BY <1>1, <1>5

\* What a resume writes down: the run before, which is an earlier one, and all
\* that its rows say.
LEMMA ResumeEffect ==
    ASSUME BaseInv, ReplayInv, NEW c \in Convs, Resume(c)
    PROVE  \E l \in Started : \E k \in Runs : \E p \in Seq(Messages) :
               /\ l = LastLogged(c) /\ k = nextRun /\ l < k /\ l \in Runs
               /\ from' = [from EXCEPT ![k] = l]
               /\ p = Replay(l) \o <<Msg("note", <<>>)>>
               /\ seen' = [seen EXCEPT ![k] = p]
               /\ (Cardinality(Homes(l)) <= 1 => IsPrefix(seen[l], p))
<1>1. TypeInv /\ SightInv
  BY DEF BaseInv
<1>2. nextRun \in Runs /\ nextRun' = nextRun + 1
  BY <1>1, SessionsAssumption DEF Resume, Launch, TypeInv, Runs
<1>3. LastLogged(c) \in Runs /\ LastLogged(c) < nextRun
  <2>1. rows[c] \in Seq(RowT) /\ rows[c] # <<>>
    BY <1>1 DEF TypeInv, Resume, LastLogged
  <2>2. Len(rows[c]) \in DOMAIN rows[c] /\ rows[c][Len(rows[c])] \in RowT
    BY <2>1
  <2> QED
    BY <1>1, <2>1, <2>2 DEF LastLogged, RowT, SightInv
<1>4. PICK l \in Started : l = LastLogged(c) /\ l \in Runs /\ l < nextRun
  BY <1>2, <1>3 DEF Started, Runs
<1>5. PICK q \in Seq(Messages) : q = Replay(l)
  BY <1>1, ReplayType
<1>6. PICK n \in Seq(Messages) : n = <<Msg("note", <<>>)>>
  <2>1. Msg("note", <<>>) \in Messages
    BY MsgRowType DEF MsgKinds
  <2>2. <<Msg("note", <<>>)>> \in Seq(Messages)
    BY <2>1
  <2> QED
    BY ONLY <2>2
<1>7. PICK p \in Seq(Messages) : p = q \o n
  BY ONLY q \in Seq(Messages), n \in Seq(Messages), ConcatProperties
<1>8. ASSUME Cardinality(Homes(l)) <= 1 PROVE IsPrefix(seen[l], p)
  <2>1. IsPrefix(seen[l], q)
    BY <1>5, <1>8, ReplayBegins
  <2>2. seen[l] \in Seq(Messages)
    BY <1>1, <1>4 DEF TypeInv
  <2> QED
    BY ONLY <1>7, <2>1, <2>2, q \in Seq(Messages), n \in Seq(Messages), PrefixConcat
<1>9. seen' = [seen EXCEPT ![nextRun] = p] /\ from' = [from EXCEPT ![nextRun] = l]
  BY <1>4, <1>5, <1>6, <1>7 DEF Resume, Launch, Resumed
<1> QED
  BY <1>2, <1>4, <1>5, <1>6, <1>7, <1>8, <1>9

\* Every run that was resumed is an earlier one, and what it was sent begins
\* what its successor was.
WorkInv == FromInv /\ ResumeKeepsWork

\* A step that sends nothing and starts nothing.
LEMMA WorkKept ==
    ASSUME BaseInv, WorkInv, Grown, seen' = seen, from' = from, nextRun' = nextRun
    PROVE  WorkInv'
<1>1. ASSUME NEW r \in Started, from[r] # NoRun, Cardinality(Homes(from[r])') <= 1
      PROVE  IsPrefix(seen[from[r]], seen[r])
  <2>1. PICK l : l = from[r]
    OBVIOUS
  <2>2. Homes(from[r])' = Homes(l)'
    BY <2>1 DEF Homes
  <2>3. Cardinality(Homes(l)) <= 1
    BY <1>1, <2>2, HomesFewer DEF BaseInv
  <2> QED
    BY <1>1, <2>1, <2>3 DEF WorkInv, ResumeKeepsWork
<1> QED
  BY <1>1 DEF WorkInv, FromInv, ResumeKeepsWork, Started

\* A resumed run begins with all its predecessor was sent.
LEMMA WorkLaunch ==
    ASSUME BaseInv, ReplayInv, WorkInv, Grown, NEW c \in Convs, StartTurn(c) \/ Resume(c)
    PROVE  WorkInv'
<1>1. TypeInv
  BY DEF BaseInv
<1>2. PICK opening \in Seq(Messages) : Launch(c, opening)
  BY <1>1, StartEffect
<1>3. PICK k \in Runs : k = nextRun /\ nextRun' = k + 1 /\ seen' = [seen EXCEPT ![k] = opening]
  <2>1. nextRun \in Runs /\ nextRun' = nextRun + 1
    BY ONLY <1>1, <1>2, c \in Convs, opening \in Seq(Messages), LaunchEffect
  <2>2. seen' = [seen EXCEPT ![nextRun] = opening]
    BY <1>2 DEF Launch
  <2> QED
    BY ONLY <2>1, <2>2
<1>4. /\ from \in [Runs -> Runs \cup {NoRun}] /\ Runs \subseteq Nat /\ NoRun \notin Runs
      /\ seen \in [Runs -> Seq(Messages)]
  BY <1>1 DEF TypeInv, Runs, NoRun
<1>5. from[k] = NoRun /\ \A r \in Runs : from[r] # NoRun => from[r] < r /\ r < k
  BY <1>3, <1>4 DEF WorkInv, FromInv
<1>6. \A r \in Runs : r # k => from'[r] = from[r] /\ seen'[r] = seen[r]
  <2>1. from' = from \/ \E l \in Runs : from' = [from EXCEPT ![k] = l]
    <3>1. CASE StartTurn(c)
      BY <3>1 DEF StartTurn
    <3>2. CASE Resume(c)
      BY <1>3, <3>2, ResumeEffect
    <3> QED
      BY <3>1, <3>2
  <2> QED
    BY <1>3, <1>4, <2>1
<1>7. Started' = 1..k /\ Started = 1..(k - 1) /\ Started' \subseteq Runs
  BY <1>3, SessionsAssumption DEF Started, Runs
<1>8. from'[k] # NoRun => /\ from'[k] < k /\ from'[k] \in Runs
                          /\ Cardinality(Homes(from[k])') <= 1 => IsPrefix(seen'[from'[k]], seen'[k])
  <2>1. CASE StartTurn(c)
    BY <1>5, <2>1 DEF StartTurn
  <2>2. CASE Resume(c)
    <3>1. \E l \in Started : \E j \in Runs : \E p \in Seq(Messages) :
               /\ l = LastLogged(c) /\ j = nextRun /\ l < j /\ l \in Runs
               /\ from' = [from EXCEPT ![j] = l]
               /\ p = Replay(l) \o <<Msg("note", <<>>)>>
               /\ seen' = [seen EXCEPT ![j] = p]
               /\ (Cardinality(Homes(l)) <= 1 => IsPrefix(seen[l], p))
      BY <2>2, ResumeEffect
    <3>2. PICK l \in Runs, p \in Seq(Messages) :
               /\ l < k /\ from' = [from EXCEPT ![k] = l] /\ seen' = [seen EXCEPT ![k] = p]
               /\ (Cardinality(Homes(l)) <= 1 => IsPrefix(seen[l], p))
      BY ONLY <1>3, <3>1
    <3>3. from'[k] = l /\ seen'[k] = p /\ seen'[l] = seen[l]
      BY <1>4, <1>6, <3>2
    <3>4. ASSUME Cardinality(Homes(from[k])') <= 1 PROVE Cardinality(Homes(l)) <= 1
      <4>1. Homes(from[k])' = Homes(l)'
        BY <3>3 DEF Homes
      <4> QED
        BY <1>1, <3>4, <4>1, HomesFewer
    <3> QED
      BY <3>2, <3>3, <3>4
  <2> QED
    BY <2>1, <2>2
<1>9. FromInv'
  BY <1>3, <1>4, <1>5, <1>6, <1>8 DEF FromInv
<1>10. ASSUME NEW r \in Started', from'[r] # NoRun, Cardinality(Homes(from[r])') <= 1
       PROVE  IsPrefix(seen'[from'[r]], seen'[r])
  <2>1. CASE r = k
    BY <1>8, <1>10, <2>1
  <2>2. CASE r # k
    <3>1. r \in Started /\ r \in Runs /\ from'[r] = from[r] /\ seen'[r] = seen[r]
      BY <1>3, <1>6, <1>7, <2>2
    <3>2. PICK l \in Runs : l = from[r] /\ l < r /\ r < k /\ seen'[l] = seen[l]
      <4>1. from[r] # NoRun /\ from[r] \in Runs
        BY ONLY <1>4, <1>10, <3>1
      <4>2. from[r] < r /\ r < k
        BY ONLY <1>5, <3>1, <4>1
      <4>3. from[r] # k
        BY ONLY <1>4, <3>1, <4>1, <4>2, k \in Runs
      <4> QED
        BY ONLY <1>6, <4>1, <4>2, <4>3
    <3>3. Cardinality(Homes(l)) <= 1
      <4>1. Homes(from[r])' = Homes(l)'
        BY <3>1, <3>2 DEF Homes
      <4> QED
        BY <1>1, <1>10, <4>1, HomesFewer
    <3> QED
      BY <1>10, <3>1, <3>2, <3>3 DEF WorkInv, ResumeKeepsWork
  <2> QED
    BY <2>1, <2>2
<1>11. ResumeKeepsWork'
  BY <1>10 DEF ResumeKeepsWork
<1> QED
  BY <1>9, <1>11 DEF WorkInv

\* A run that is asked again is sent what it was sent before, and more.
LEMMA WorkRequest ==
    ASSUME BaseInv, ReplayInv, WorkInv, Grown, NEW c \in Convs, Request(c)
    PROVE  WorkInv'
<1>1. TypeInv /\ GoingInv /\ PhaseInv
  BY DEF BaseInv
<1>2. PICK k \in Runs : k = active[c] /\ k = nextRun - 1
  BY <1>1 DEF PhaseInv, TypeInv, GoingInv, Request
<1>3. /\ from \in [Runs -> Runs \cup {NoRun}] /\ Runs \subseteq Nat /\ NoRun \notin Runs
      /\ seen \in [Runs -> Seq(Messages)] /\ nextRun \in Nat
  BY <1>1 DEF TypeInv, Runs, NoRun
<1>4. from' = from /\ nextRun' = nextRun /\ seen'[k] = messages[c] /\ \A r \in Runs : r # k => seen'[r] = seen[r]
  BY <1>2, <1>3 DEF Request, counters
<1>5. IsPrefix(seen[k], messages[c])
  <2>1. messages[c] = Said(rows[c], k) \o unlogged[c] /\ IsPrefix(seen[k], Said(rows[c], k))
    BY <1>2 DEF Request, ReplayInv, TranscriptInv
  <2>2. rows[c] \in Seq(RowT) /\ unlogged[c] \in Seq(Messages) /\ seen[k] \in Seq(Messages)
    BY <1>1 DEF TypeInv
  <2>3. PICK s \in Seq(Messages), u \in Seq(Messages), p \in Seq(Messages) :
            s = Said(rows[c], k) /\ u = unlogged[c] /\ p = seen[k]
    BY <2>2, SaidType
  <2>4. IsPrefix(p, s \o u)
    BY ONLY <2>1, <2>3, s \in Seq(Messages), u \in Seq(Messages), p \in Seq(Messages), PrefixConcat
  <2> QED
    BY ONLY <2>1, <2>3, <2>4
<1>6. ASSUME NEW r \in Started, from[r] # NoRun, Cardinality(Homes(from[r])') <= 1
      PROVE  IsPrefix(seen'[from[r]], seen'[r])
  <2>0. r \in Runs
    BY <1>1, SessionsAssumption DEF Started, TypeInv, Runs
  <2>1. PICK l \in Runs : l = from[r] /\ l < r /\ r < nextRun
    BY <1>3, <1>6, <2>0 DEF WorkInv, FromInv
  <2>2. l # k /\ seen'[l] = seen[l]
    BY <1>2, <1>3, <1>4, <2>0, <2>1
  <2>3. IsPrefix(seen[l], seen[r])
    <3>1. Homes(from[r])' = Homes(l)'
      BY <1>4, <2>1 DEF Homes
    <3>2. Cardinality(Homes(l)) <= 1
      BY <1>1, <1>6, <3>1, HomesFewer
    <3> QED
      BY <1>6, <2>1, <3>2 DEF WorkInv, ResumeKeepsWork
  <2>4. CASE r = k
    <3>1. PICK a \in Seq(Messages), b \in Seq(Messages), m \in Seq(Messages) :
              a = seen[l] /\ b = seen[k] /\ m = messages[c]
      BY <1>1, <1>3 DEF TypeInv
    <3>2. IsPrefix(a, m)
      BY ONLY <1>5, <2>3, <2>4, <3>1, a \in Seq(Messages), b \in Seq(Messages), m \in Seq(Messages), PrefixTrans
    <3> QED
      BY ONLY <1>4, <2>1, <2>2, <2>4, <3>1, <3>2
  <2>5. CASE r # k
    BY <1>4, <2>0, <2>1, <2>2, <2>3, <2>5
  <2> QED
    BY <2>4, <2>5
<1> QED
  BY <1>4, <1>6 DEF WorkInv, FromInv, ResumeKeepsWork, Started

\* Every step keeps the work of what was resumed.
LEMMA WorkStep == ASSUME BaseInv, ReplayInv, WorkInv, [Next]_vars PROVE WorkInv'
<1>0. Grown
  BY BaseStep
<1>1. ASSUME NEW c \in Convs, StartTurn(c) \/ Resume(c) PROVE WorkInv'
  BY <1>0, <1>1, WorkLaunch
<1>2. ASSUME NEW c \in Convs, Request(c) PROVE WorkInv'
  BY <1>0, <1>2, WorkRequest
<1>3. ASSUME NEW c \in Convs,
             \/ ResumeRefused(c) \/ NoModel(c) \/ AskCalls(c) \/ CallReturns(c) \/ FlushRow(c)
             \/ EndLoop(c) \/ Finalize(c) \/ DecisionRow(c) \/ \E d \in Convs : Fork(c, d)
      PROVE  WorkInv'
  <2>1. seen' = seen /\ from' = from /\ nextRun' = nextRun
    BY <1>3 DEF ResumeRefused, NoModel, RowOnly, AskCalls, CallReturns, FlushRow, EndLoop, Finalize,
                DecisionRow, Fork, counters, history
  <2> QED
    BY <1>0, <2>1, WorkKept
<1>4. ASSUME Crash \/ UNCHANGED vars PROVE WorkInv'
  <2>1. seen' = seen /\ from' = from /\ nextRun' = nextRun
    BY <1>4 DEF Crash, vars, counters, history
  <2> QED
    BY <1>0, <2>1, WorkKept
<1> QED
  BY <1>1, <1>2, <1>3, <1>4 DEF Next

\* Nothing is resumed at first.
LEMMA WorkInit == Init => WorkInv
<1>1. Init => Started = {}
  BY DEF Init, Started
<1> QED
  BY <1>1 DEF Init, WorkInv, FromInv, ResumeKeepsWork

\* A resumed run begins with all the model had seen in the run before it, along
\* any chain of resumes, wherever the rows of that run are in one conversation.
THEOREM ResumeKeepsTheWork == Spec => []ResumeKeepsWork
<1>1. Init => BaseInv /\ ReplayInv /\ WorkInv
  BY BaseInit, ReplayInit, WorkInit
<1>2. BaseInv /\ ReplayInv /\ WorkInv /\ [Next]_vars => (BaseInv /\ ReplayInv /\ WorkInv)'
  BY BaseStep, ReplayStep, WorkStep
<1>3. WorkInv => ResumeKeepsWork
  BY DEF WorkInv
<1> QED
  BY <1>1, <1>2, <1>3, PTL DEF Spec
-----------------------------------------------------------------------------
(***************************** what went out ******************************)

\* What is in a log stays there.
LEMMA HasGrown ==
    ASSUME TypeInv, Grown, NEW c \in Convs, NEW m, Has(c, m), active'[c] = active[c],
           \A i \in DOMAIN unlogged[c] : unlogged[c][i] = m => Has(c, m)'
    PROVE  Has(c, m)'
<1>1. CASE \E i \in DOMAIN rows[c] : rows[c][i] = Row(active[c], KindOf(m), <<m>>)
  <2>1. PICK i \in DOMAIN rows[c] : rows[c][i] = Row(active[c], KindOf(m), <<m>>)
    BY <1>1
  <2>2. i \in DOMAIN rows'[c] /\ rows'[c][i] = Row(active'[c], KindOf(m), <<m>>)
    BY <2>1, GrownKeeps
  <2> QED
    BY <2>2 DEF Has
<1>2. CASE ~ \E i \in DOMAIN rows[c] : rows[c][i] = Row(active[c], KindOf(m), <<m>>)
  BY <1>2 DEF Has
<1> QED
  BY <1>1, <1>2

\* The same where what waits does not change.
LEMMA HasSame ==
    ASSUME TypeInv, Grown, NEW c \in Convs, active'[c] = active[c], unlogged'[c] = unlogged[c]
    PROVE  \A m : Has(c, m) => Has(c, m)'
<1> SUFFICES ASSUME NEW m, Has(c, m) PROVE Has(c, m)'
  OBVIOUS
<1>1. \A i \in DOMAIN unlogged[c] : unlogged[c][i] = m => Has(c, m)'
  BY DEF Has
<1> QED
  BY <1>1, HasGrown

\* And where something is added to it, or nothing waited.
LEMMA HasMore ==
    ASSUME TypeInv, Grown, NEW c \in Convs, active'[c] = active[c],
           unlogged[c] = <<>> \/ \E e \in Messages : unlogged'[c] = Append(unlogged[c], e)
    PROVE  \A m : Has(c, m) => Has(c, m)'
<1> SUFFICES ASSUME NEW m, Has(c, m) PROVE Has(c, m)'
  OBVIOUS
<1>1. CASE unlogged[c] = <<>>
  <2>1. DOMAIN unlogged[c] = {}
    BY <1>1
  <2> QED
    BY <2>1, HasGrown
<1>2. CASE \E e \in Messages : unlogged'[c] = Append(unlogged[c], e)
  <2>1. PICK e \in Messages, s \in Seq(Messages) : s = unlogged[c] /\ unlogged'[c] = Append(s, e)
    BY <1>2 DEF TypeInv
  <2>2. \A i \in DOMAIN s : i \in DOMAIN Append(s, e) /\ Append(s, e)[i] = s[i]
    OBVIOUS
  <2>3. \A i \in DOMAIN unlogged[c] : i \in DOMAIN unlogged'[c] /\ unlogged'[c][i] = unlogged[c][i]
    BY ONLY <2>1, <2>2
  <2>4. \A i \in DOMAIN unlogged[c] : unlogged[c][i] = m => Has(c, m)'
    BY ONLY <2>3 DEF Has
  <2> QED
    BY <2>4, HasGrown
<1> QED
  BY <1>1, <1>2

\* And where the first that waits is logged.
LEMMA HasFlushed ==
    ASSUME TypeInv, PhaseInv, TailInv, Grown, NEW c \in Convs, FlushRow(c)
    PROVE  \A m : Has(c, m) => Has(c, m)'
<1> SUFFICES ASSUME NEW m, Has(c, m) PROVE Has(c, m)'
  OBVIOUS
<1>1. PICK f \in Messages, x \in RowT :
               /\ unlogged[c] # <<>> /\ f = Head(unlogged[c])
               /\ x = Row(active[c], KindOf(f), <<f>>)
               /\ rows' = [rows EXCEPT ![c] = rows[c] \o <<x>>]
  BY ONLY TypeInv, PhaseInv, TailInv, c \in Convs, FlushRow(c), FlushEffect
<1>2. active' = active /\ unlogged'[c] = Tail(unlogged[c])
  BY DEF FlushRow, TypeInv
<1>3. Len(rows[c]) + 1 \in DOMAIN rows'[c] /\ rows'[c][Len(rows[c]) + 1] = x
  <2>1. PICK s \in Seq(RowT) : s = rows[c]
    BY DEF TypeInv
  <2>2. rows'[c] = s \o <<x>>
    BY <1>1, <2>1 DEF TypeInv
  <2>3. Len(s) + 1 \in DOMAIN (s \o <<x>>) /\ (s \o <<x>>)[Len(s) + 1] = x
    BY ONLY s \in Seq(RowT), x \in RowT
  <2> QED
    BY ONLY <2>1, <2>2, <2>3
<1>4. ASSUME NEW i \in DOMAIN unlogged[c], unlogged[c][i] = m PROVE Has(c, m)'
  <2>1. PICK u \in Seq(Messages) : u = unlogged[c] /\ u # <<>>
    BY <1>1 DEF TypeInv
  <2>2. Head(u) = u[1] /\ DOMAIN u = 1..Len(u)
    BY <2>1
  <2>3. CASE i = 1
    <3>1. f = m
      BY <1>1, <1>4, <2>1, <2>2, <2>3
    <3> QED
      BY ONLY <1>1, <1>2, <1>3, <3>1 DEF Has
  <2>4. CASE i # 1
    <3>1. i \in DOMAIN u
      BY <2>1
    <3>2. i - 1 \in DOMAIN Tail(u) /\ Tail(u)[i - 1] = u[i]
      BY ONLY <2>1, <2>4, <3>1, u \in Seq(Messages)
    <3> QED
      BY ONLY <1>2, <1>4, <2>1, <3>2 DEF Has
  <2> QED
    BY <2>3, <2>4
<1> QED
  BY ONLY TypeInv, Grown, c \in Convs, Has(c, m), <1>2, <1>4, HasGrown

\* What was in sight stays in sight.
LEMMA SentKept ==
    ASSUME NEW c, SentHas(c), \A m : Has(c, m) => Has(c, m)',
           phase'[c] \in {"turn", "batch", "flush", "cut"} => phase[c] \in {"turn", "batch", "flush", "cut"},
           \A w \in world' : w.run = active'[c] => w \in world /\ w.run = active[c]
    PROVE  SentHas(c)'
<1>1. \A w : Sent(c, w) => Sent(c, w)'
  BY DEF Sent
<1> QED
  BY <1>1 DEF SentHas

\* What the log shows it goes on showing.
LEMMA SentLoggedKept ==
    ASSUME TypeInv, Grown, NEW w, SentLogged(w)
    PROVE  SentLogged(w)'
<1>1. \A c \in Convs : \A i \in DOMAIN rows[c] : i \in DOMAIN rows'[c] /\ rows'[c][i] = rows[c][i]
  BY GrownKeeps
<1>2. PICK c \in Convs, d \in Convs : \E i \in DOMAIN rows[c], j \in DOMAIN rows[d] :
        /\ rows[c][i].run = w.run /\ rows[c][i].kind = "tool_call"
        /\ rows[d][j].run = w.run /\ rows[d][j].kind = "tool_result"
        /\ rows[d][j].msgs = <<Msg(w.out, <<w.call>>)>>
        /\ \E k \in DOMAIN rows[c][i].msgs[1].ids : rows[c][i].msgs[1].ids[k] = w.call
  BY Zenon DEF SentLogged
<1>3. PICK i \in DOMAIN rows[c], j \in DOMAIN rows[d] :
        /\ rows[c][i].run = w.run /\ rows[c][i].kind = "tool_call"
        /\ rows[d][j].run = w.run /\ rows[d][j].kind = "tool_result"
        /\ rows[d][j].msgs = <<Msg(w.out, <<w.call>>)>>
        /\ \E k \in DOMAIN rows[c][i].msgs[1].ids : rows[c][i].msgs[1].ids[k] = w.call
  BY <1>2, Zenon
<1>4. /\ i \in DOMAIN rows'[c] /\ rows'[c][i] = rows[c][i]
      /\ j \in DOMAIN rows'[d] /\ rows'[d][j] = rows[d][j]
  BY ONLY <1>1, c \in Convs, d \in Convs, i \in DOMAIN rows[c], j \in DOMAIN rows[d]
<1>5. /\ rows'[c][i].run = w.run /\ rows'[c][i].kind = "tool_call"
      /\ rows'[d][j].run = w.run /\ rows'[d][j].kind = "tool_result"
      /\ rows'[d][j].msgs = <<Msg(w.out, <<w.call>>)>>
      /\ \E k \in DOMAIN rows'[c][i].msgs[1].ids : rows'[c][i].msgs[1].ids[k] = w.call
  BY ONLY <1>3, <1>4
<1>6. i \in DOMAIN rows'[c] /\ j \in DOMAIN rows'[d] /\ w.out # "lost"
  BY <1>4 DEF SentLogged
<1>7. \E a \in DOMAIN rows'[c], b \in DOMAIN rows'[d] :
        /\ rows'[c][a].run = w.run /\ rows'[c][a].kind = "tool_call"
        /\ rows'[d][b].run = w.run /\ rows'[d][b].kind = "tool_result"
        /\ rows'[d][b].msgs = <<Msg(w.out, <<w.call>>)>>
        /\ \E k \in DOMAIN rows'[c][a].msgs[1].ids : rows'[c][a].msgs[1].ids[k] = w.call
  BY ONLY <1>5, <1>6, Zenon
<1> QED
  BY ONLY <1>6, <1>7, c \in Convs, d \in Convs, Zenon DEF SentLogged

\* What the log shows as done resume_turn finds, and its replay has the rest.
LEMMA SentLoggedFound ==
    ASSUME TypeInv, NEW w \in Sends, SentLogged(w)
    PROVE  IF w.out = "ok" THEN OutwardDone(w.run)
           ELSE w.out = "err" /\ IsIn(Msg("err", <<w.call>>), Replay(w.run))
<1>1. PICK c \in Convs, d \in Convs : \E i \in DOMAIN rows[c], j \in DOMAIN rows[d] :
        /\ rows[c][i].run = w.run /\ rows[c][i].kind = "tool_call"
        /\ rows[d][j].run = w.run /\ rows[d][j].kind = "tool_result"
        /\ rows[d][j].msgs = <<Msg(w.out, <<w.call>>)>>
        /\ \E k \in DOMAIN rows[c][i].msgs[1].ids : rows[c][i].msgs[1].ids[k] = w.call
  BY Zenon DEF SentLogged
<1>2. PICK i \in DOMAIN rows[c], j \in DOMAIN rows[d] :
        /\ rows[c][i].run = w.run /\ rows[c][i].kind = "tool_call"
        /\ rows[d][j].run = w.run /\ rows[d][j].kind = "tool_result"
        /\ rows[d][j].msgs = <<Msg(w.out, <<w.call>>)>>
        /\ \E k \in DOMAIN rows[c][i].msgs[1].ids : rows[c][i].msgs[1].ids[k] = w.call
  BY <1>1, Zenon
<1>3. rows[c][i] \in Range(EventsForRun(w.run)) /\ rows[d][j] \in Range(EventsForRun(w.run))
  BY <1>2, EventsHave
<1>4. PICK k \in DOMAIN rows[c][i].msgs[1].ids : rows[c][i].msgs[1].ids[k] = w.call
  BY <1>2
<1>5. w.out \in {"ok", "err"} /\ w.call.send
  BY DEF SentLogged, Sends
<1>6. rows[d][j].msgs[1] = Msg(w.out, <<w.call>>)
  BY ONLY <1>2
<1>7. CASE w.out = "ok"
  <2>1. PICK e, f : e = rows[c][i] /\ f = rows[d][j]
    OBVIOUS
  <2>2. /\ e.kind = "tool_call" /\ f.kind = "tool_result"
        /\ k \in DOMAIN e.msgs[1].ids /\ e.msgs[1].ids[k].send
        /\ f.msgs[1] = Msg("ok", <<e.msgs[1].ids[k]>>)
    BY ONLY <1>2, <1>4, <1>5, <1>6, <1>7, <2>1
  <2>3. e \in Range(EventsForRun(w.run)) /\ f \in Range(EventsForRun(w.run))
    BY ONLY <1>3, <2>1
  <2>4. OutwardDone(w.run)
    BY ONLY <2>2, <2>3, Zenon DEF OutwardDone
  <2> QED
    BY ONLY <1>7, <2>4
<1>8. CASE w.out = "err"
  <2>1. PICK es \in Seq(RowT) : es = EventsForRun(w.run)
    BY EventsType
  <2>2. PICK n \in 1..Len(es) : es[n] = rows[d][j]
    BY <1>3, <2>1 DEF Range
  <2>3. es[n] \in RowT /\ Says[es[n]] = <<Msg("err", <<w.call>>)>>
    <3>1. es[n] \in RowT
      OBVIOUS
    <3>2. Says[es[n]] = es[n].msgs
      BY <1>2, <2>2, <3>1 DEF Says
    <3> QED
      BY <1>2, <1>8, <2>2, <3>1, <3>2
  <2>4. PICK m : m = Msg("err", <<w.call>>)
    OBVIOUS
  <2>5. IsIn(m, Says[es[n]])
    BY ONLY <2>3, <2>4 DEF IsIn
  <2>6. IsIn(m, FlatMap(Says, es))
    BY ONLY <2>5, RowFunctions, es \in Seq(RowT), n \in 1..Len(es), FlatMapHas
  <2>7. Replay(w.run) = FlatMap(Says, es)
    BY <2>1, SpokenIs DEF Replay
  <2> QED
    BY ONLY <1>8, <2>4, <2>6, <2>7
<1> QED
  BY <1>5, <1>7, <1>8

\* A send in sight of which nothing waits is in the log.
LEMMA SentIsLogged ==
    ASSUME NEW c \in Convs, NEW w, w.run = active[c], unlogged[c] = <<>>, Sent(c, w), w.out \in {"ok", "err", "lost"}
    PROVE  SentLogged(w)
<1>1. PICK ids \in Seq(Calls) : \E k \in DOMAIN ids :
        ids[k] = w.call /\ Has(c, Msg("tool_call", ids)) /\ Has(c, Msg(w.out, <<w.call>>))
  BY DEF Sent
<1>2. PICK k \in DOMAIN ids : ids[k] = w.call /\ Has(c, Msg("tool_call", ids)) /\ Has(c, Msg(w.out, <<w.call>>))
  BY <1>1
<1>3. DOMAIN unlogged[c] = {}
  OBVIOUS
<1>4. PICK i \in DOMAIN rows[c] : rows[c][i] = Row(w.run, KindOf(Msg("tool_call", ids)), <<Msg("tool_call", ids)>>)
  BY ONLY <1>2, <1>3, w.run = active[c] DEF Has
<1>5. PICK j \in DOMAIN rows[c] : rows[c][j] = Row(w.run, KindOf(Msg(w.out, <<w.call>>)), <<Msg(w.out, <<w.call>>)>>)
  BY ONLY <1>2, <1>3, w.run = active[c] DEF Has
<1>6. w.out \in {"ok", "err"}
  BY DEF Sent
<1>7. KindOf(Msg("tool_call", ids)) = "tool_call" /\ KindOf(Msg(w.out, <<w.call>>)) = "tool_result"
  BY ONLY <1>6 DEF KindOf, Msg
<1>8. rows[c][i].run = w.run /\ rows[c][i].kind = "tool_call" /\ rows[c][i].msgs[1].ids = ids
  BY ONLY <1>4, <1>7 DEF Row, Msg
<1>9. rows[c][j].run = w.run /\ rows[c][j].kind = "tool_result" /\ rows[c][j].msgs = <<Msg(w.out, <<w.call>>)>>
  BY ONLY <1>5, <1>7 DEF Row
<1>10. \E n \in DOMAIN rows[c][i].msgs[1].ids : rows[c][i].msgs[1].ids[n] = w.call
  BY ONLY <1>2, <1>8
<1>11. \E a, b \in DOMAIN rows[c] :
        /\ rows[c][a].run = w.run /\ rows[c][a].kind = "tool_call"
        /\ rows[c][b].run = w.run /\ rows[c][b].kind = "tool_result"
        /\ rows[c][b].msgs = <<Msg(w.out, <<w.call>>)>>
        /\ \E n \in DOMAIN rows[c][a].msgs[1].ids : rows[c][a].msgs[1].ids[n] = w.call
  BY ONLY <1>8, <1>9, <1>10, i \in DOMAIN rows[c], j \in DOMAIN rows[c], Zenon
<1>12. w.out # "lost"
  BY <1>6
<1> QED
  BY ONLY <1>11, <1>12, c \in Convs, Zenon DEF SentLogged

\* The calls of a batch are asked for in one message.
LEMMA BatchAsk ==
    ASSUME BaseInv, NEW c \in Convs, AskCalls(c)
    PROVE  BatchInv(c)'
<1>1. TypeInv
  BY DEF BaseInv
<1>2. PICK ids \in Seq(Calls), m \in Messages :
               /\ m = Msg("tool_call", ids) /\ batch' = [batch EXCEPT ![c] = ids]
               /\ unlogged' = [unlogged EXCEPT ![c] = <<m>>]
  BY <1>1, AskEffect
<1>3. batch'[c] = ids /\ unlogged'[c] = <<m>>
  BY <1>1, <1>2 DEF TypeInv
<1>4. <<m>> # <<>> /\ <<m>>[1] = m
  OBVIOUS
<1>5. \A i \in DOMAIN ids : \E k \in DOMAIN ids : ids[k] = ids[i]
  OBVIOUS
<1> QED
  BY ONLY <1>2, <1>3, <1>4, <1>5 DEF BatchInv

\* The calls left are calls of the same message.
LEMMA BatchReturn ==
    ASSUME BaseInv, NEW c \in Convs, BatchInv(c), CallReturns(c)
    PROVE  BatchInv(c)'
<1>1. TypeInv /\ PhaseInv
  BY DEF BaseInv
<1>2. PICK ids \in Seq(Calls) :
            /\ unlogged[c] # <<>> /\ unlogged[c][1] = Msg("tool_call", ids)
            /\ \A i \in DOMAIN batch[c] : \E k \in DOMAIN ids : ids[k] = batch[c][i]
  BY DEF BatchInv, CallReturns
<1>3. PICK m \in Messages : batch[c] # <<>> /\ unlogged' = [unlogged EXCEPT ![c] = Append(unlogged[c], m)]
  BY <1>1, ReturnEffect
<1>4. /\ unlogged'[c] = Append(unlogged[c], m) /\ batch'[c] = Tail(batch[c])
      /\ unlogged[c] \in Seq(Messages) /\ batch[c] \in Seq(Calls)
  BY <1>1, <1>3 DEF TypeInv, CallReturns
<1>5. unlogged'[c] # <<>> /\ unlogged'[c][1] = unlogged[c][1]
  <2>1. PICK u \in Seq(Messages) : u = unlogged[c] /\ u # <<>>
    BY <1>2, <1>4
  <2>2. Append(u, m) # <<>> /\ Append(u, m)[1] = u[1]
    BY ONLY <2>1, u \in Seq(Messages), m \in Messages
  <2> QED
    BY ONLY <1>4, <2>1, <2>2
<1>6. \A i \in DOMAIN batch'[c] : \E k \in DOMAIN ids : ids[k] = batch'[c][i]
  <2>1. PICK b \in Seq(Calls) : b = batch[c] /\ b # <<>>
    BY <1>3, <1>4
  <2>2. \A i \in DOMAIN Tail(b) : i + 1 \in DOMAIN b /\ Tail(b)[i] = b[i + 1]
    BY ONLY <2>1, b \in Seq(Calls)
  <2> QED
    BY ONLY <1>2, <1>4, <2>1, <2>2
<1> QED
  BY ONLY <1>2, <1>5, <1>6 DEF BatchInv

\* When a send has come back, its call and its result wait to be logged.
LEMMA SentReturn ==
    ASSUME BaseInv, NEW c \in Convs, BatchInv(c), SentHas(c), CallReturns(c), Grown
    PROVE  SentHas(c)'
<1>1. TypeInv /\ PhaseInv
  BY DEF BaseInv
<1>2. PICK call \in Calls, out \in {"ok", "err"}, m \in Messages :
               /\ batch[c] # <<>> /\ call = Head(batch[c]) /\ m = Msg(out, <<call>>)
               /\ unlogged' = [unlogged EXCEPT ![c] = Append(unlogged[c], m)]
               /\ world' = IF call.send THEN world \cup {Gone(active[c], call, out)} ELSE world
  BY ONLY <1>1, c \in Convs, CallReturns(c), ReturnEffect
<1>3. /\ unlogged'[c] = Append(unlogged[c], m) /\ active' = active /\ phase[c] = "batch"
      /\ unlogged[c] \in Seq(Messages) /\ batch[c] \in Seq(Calls)
  BY <1>1, <1>2 DEF TypeInv, CallReturns
<1>4. \A e : Has(c, e) => Has(c, e)'
  BY <1>1, <1>3, HasMore
<1>5. PICK ids \in Seq(Calls) :
          /\ unlogged[c] # <<>> /\ unlogged[c][1] = Msg("tool_call", ids)
          /\ \A i \in DOMAIN batch[c] : \E k \in DOMAIN ids : ids[k] = batch[c][i]
  BY <1>3 DEF BatchInv
<1>6. PICK k \in DOMAIN ids : ids[k] = call
  <2>1. 1 \in DOMAIN batch[c] /\ Head(batch[c]) = batch[c][1]
    BY ONLY <1>2, <1>3
  <2> QED
    BY ONLY <1>2, <1>5, <2>1
<1>7. Has(c, Msg("tool_call", ids))
  <2>1. 1 \in DOMAIN unlogged[c]
    BY ONLY <1>3, <1>5
  <2> QED
    BY ONLY <1>5, <2>1 DEF Has
<1>8. Has(c, m)'
  <2>1. PICK u \in Seq(Messages) : u = unlogged[c]
    BY <1>3
  <2>2. Len(u) + 1 \in DOMAIN Append(u, m) /\ Append(u, m)[Len(u) + 1] = m
    BY ONLY u \in Seq(Messages), m \in Messages
  <2> QED
    BY ONLY <1>3, <2>1, <2>2 DEF Has
<1>9. PICK g : g = Gone(active[c], call, out)
  OBVIOUS
<1>10. g.call = call /\ g.out = out
  BY ONLY <1>9 DEF Gone
<1>11. Has(c, Msg("tool_call", ids))' /\ Has(c, Msg(g.out, <<g.call>>))'
  <2>1. PICK e : e = Msg("tool_call", ids)
    OBVIOUS
  <2>2. Has(c, e)' /\ Has(c, m)'
    BY <1>4, <1>7, <1>8, <2>1
  <2>3. m = Msg(g.out, <<g.call>>)
    BY <1>2, <1>10
  <2> QED
    BY ONLY <2>1, <2>2, <2>3 DEF Has
<1>12. Sent(c, g)'
  BY ONLY <1>6, <1>10, <1>11, ids \in Seq(Calls), k \in DOMAIN ids, out \in {"ok", "err"} DEF Sent
<1>13. \A w \in world' : w \in world \/ w = g
  BY ONLY <1>2, <1>9
<1>14. \A w \in world : w.run = active[c] => Sent(c, w)'
  <2>1. \A w : Sent(c, w) => Sent(c, w)'
    BY <1>4 DEF Sent
  <2> QED
    BY <1>3, <2>1 DEF SentHas
<1> QED
  BY ONLY <1>3, <1>12, <1>13, <1>14 DEF SentHas

\* Where nothing about a conversation's run changes.
LEMMA SentSame ==
    ASSUME BaseInv, SentInv, Grown, NEW d \in Convs, phase'[d] = phase[d], active'[d] = active[d],
           unlogged'[d] = unlogged[d], batch'[d] = batch[d], world' = world
    PROVE  BatchInv(d)' /\ SentHas(d)'
<1>1. \A m : Has(d, m) => Has(d, m)'
  BY HasSame DEF BaseInv
<1>2. BatchInv(d)'
  <2>1. BatchInv(d)
    BY DEF SentInv
  <2> QED
    BY ONLY <2>1, phase'[d] = phase[d], unlogged'[d] = unlogged[d], batch'[d] = batch[d], Zenon DEF BatchInv
<1>3. SentHas(d)'
  BY <1>1, SentKept DEF SentInv
<1> QED
  BY <1>2, <1>3

\* Where nothing runs.
LEMMA SentIdle ==
    ASSUME NEW d, phase'[d] = "idle"
    PROVE  BatchInv(d)' /\ SentHas(d)'
  BY DEF BatchInv, SentHas

\* Where every turn that was cut off is one that was there before.
LEMMA SentCutKept ==
    ASSUME BaseInv, SentInv, Grown, NEW d \in Convs,
           \A w \in world' : \A n \in DOMAIN turns'[d] :
               turns'[d][n].run = w.run /\ turns'[d][n].reason = "cut" =>
                   w \in world /\ \E e \in Convs : \E k \in DOMAIN turns[e] :
                                     turns[e][k].run = w.run /\ turns[e][k].reason = "cut"
    PROVE  SentCut(d)'
<1> SUFFICES ASSUME NEW w \in world', NEW n \in DOMAIN turns'[d],
                    turns'[d][n].run = w.run, turns'[d][n].reason = "cut"
             PROVE  SentLogged(w)'
  BY DEF SentCut
<1>1. SentLogged(w)
  BY DEF SentInv, SentCut
<1> QED
  BY <1>1, SentLoggedKept DEF BaseInv

\* So it is when no turn and no send is new.
LEMMA SentTurnsSame ==
    ASSUME BaseInv, SentInv, Grown, NEW d \in Convs, turns'[d] = turns[d], world' = world
    PROVE  SentCut(d)'
  BY SentCutKept

\* And when the new turn was not cut off.
LEMMA SentTurnAdded ==
    ASSUME BaseInv, SentInv, Grown, NEW c \in Convs, NEW t, TurnAdded(c, t), t.reason = "none", world' = world,
           NEW d \in Convs
    PROVE  SentCut(d)'
<1>1. CASE d # c
  <2>1. turns'[d] = turns[d]
    BY <1>1 DEF TurnAdded
  <2> QED
    BY <2>1, SentTurnsSame
<1>2. CASE d = c
  <2>1. \A n \in DOMAIN turns'[c] : (n \in DOMAIN turns[c] /\ turns'[c][n] = turns[c][n]) \/ turns'[c][n] = t
    BY DEF TurnAdded
  <2> QED
    BY <1>2, <2>1, SentCutKept
<1> QED
  BY <1>1, <1>2

\* A launch: the new run has sent nothing.
LEMMA SentLaunch ==
    ASSUME BaseInv, SentInv, Grown, NEW c \in Convs, NEW opening \in Seq(Messages), Launch(c, opening), Free
    PROVE  SentInv'
<1>1. TypeInv /\ PhaseInv
  BY DEF BaseInv
<1>2. PICK t \in TurnT :
               /\ nextRun \in Runs /\ nextRun' = nextRun + 1
               /\ t = [run |-> nextRun, reason |-> "none", at |-> Len(rows[c])]
               /\ turns' = [turns EXCEPT ![c] = Append(turns[c], t)]
  BY ONLY <1>1, Launch(c, opening), c \in Convs, opening \in Seq(Messages), LaunchEffect
<1>3. TurnAdded(c, t) /\ t.reason = "none"
  BY ONLY <1>1, c \in Convs, <1>2, AddsTurn
<1>4. world' = world /\ active'[c] = nextRun /\ phase'[c] = "turn" /\ \A d \in Convs : d # c => phase'[d] = "idle"
  BY <1>1 DEF Launch, TypeInv, Free, PhaseInv
<1>5. SentRuns /\ nextRun \notin Started /\ Started \subseteq Started'
  BY <1>2 DEF SentInv, Started, Runs
<1>6. BatchInv(c)' /\ SentHas(c)'
  BY <1>4, <1>5 DEF BatchInv, SentHas, SentRuns
<1>7. \A d \in Convs : BatchInv(d)' /\ SentHas(d)'
  BY <1>4, <1>6, SentIdle
<1>8. \A d \in Convs : SentCut(d)'
  BY <1>3, <1>4, SentTurnAdded
<1> QED
  BY <1>4, <1>5, <1>7, <1>8 DEF SentInv, SentRuns

\* The end of a turn that was cut off: all its run sent is logged.
LEMMA SentFinalize ==
    ASSUME BaseInv, SentInv, Grown, NEW c \in Convs, Finalize(c)
    PROVE  SentInv'
<1>1. TypeInv /\ GoingInv /\ PhaseInv /\ TailInv
  BY DEF BaseInv
<1>2. /\ turns' \in [Convs -> Seq(TurnT)]
      /\ \A d \in Convs : Len(turns'[d]) = Len(turns[d]) /\ (d # c => turns'[d] = turns[d])
      /\ \A n \in DOMAIN turns[c] :
            turns'[c][n] = IF n = Len(turns[c]) THEN [turns[c][n] EXCEPT !.reason = phase[c]]
                           ELSE turns[c][n]
  BY ONLY <1>1, c \in Convs, Finalize(c), FinalizeEffect
<1>3. /\ phase'[c] = "idle" /\ world' = world /\ nextRun' = nextRun
      /\ \A d \in Convs : d # c => /\ phase'[d] = phase[d] /\ active'[d] = active[d]
                                   /\ unlogged'[d] = unlogged[d] /\ batch'[d] = batch[d]
  BY <1>1 DEF Finalize, TypeInv, counters, history
<1>4. active[c] # NoRun /\ turns[c][Len(turns[c])].run = active[c]
  BY <1>1 DEF Finalize, PhaseInv, Reasons, GoingInv
<1>5. \A d \in Convs : BatchInv(d)' /\ SentHas(d)'
  BY <1>3, SentSame, SentIdle
<1>6. ASSUME NEW w \in world, NEW n \in DOMAIN turns'[c], turns'[c][n].run = w.run, turns'[c][n].reason = "cut"
      PROVE  SentLogged(w)'
  <2>0. DOMAIN turns'[c] = DOMAIN turns[c] /\ \A k \in DOMAIN turns[c] : turns[c][k] \in TurnT
    <3>1. turns[c] \in Seq(TurnT) /\ turns'[c] \in Seq(TurnT)
      BY <1>1, <1>2 DEF TypeInv
    <3> QED
      BY <1>2, <3>1
  <2>1. CASE n = Len(turns[c])
    <3>1. turns'[c][n].run = turns[c][n].run /\ turns'[c][n].reason = phase[c]
      BY <1>2, <2>0, <2>1 DEF TurnT
    <3>2. w.run = active[c] /\ phase[c] = "cut"
      BY <1>4, <1>6, <2>1, <3>1
    <3>3. unlogged[c] = <<>> /\ Sent(c, w) /\ w.out \in {"ok", "err", "lost"}
      BY <1>1, <3>2 DEF TailInv, SentInv, SentHas, TypeInv, Sends
    <3>4. SentLogged(w)
      BY <3>2, <3>3, SentIsLogged
    <3> QED
      BY <1>1, <3>4, SentLoggedKept
  <2>2. CASE n # Len(turns[c])
    <3>1. turns'[c][n] = turns[c][n]
      BY <1>2, <2>0, <2>2
    <3>2. SentLogged(w)
      BY <1>6, <2>0, <3>1 DEF SentInv, SentCut
    <3> QED
      BY <1>1, <3>2, SentLoggedKept
  <2> QED
    BY <2>1, <2>2
<1>7. SentCut(c)'
  BY <1>3, <1>6 DEF SentCut
<1>8. \A d \in Convs : d # c => SentCut(d)'
  BY <1>2, <1>3, SentTurnsSame
<1>9. SentRuns'
  BY <1>3 DEF SentInv, SentRuns, Started
<1> QED
  BY <1>5, <1>7, <1>8, <1>9 DEF SentInv

\* A branch: its turns are copies.
LEMMA SentFork ==
    ASSUME BaseInv, SentInv, Grown, NEW c \in Convs, NEW d \in Convs, Fork(c, d)
    PROVE  SentInv'
<1>1. TypeInv /\ PlaceInv /\ PhaseInv
  BY DEF BaseInv
<1>2. PICK n \in 1..Len(turns[c]), t \in Seq(TurnT) :
               turns' = [turns EXCEPT ![d] = t] /\ Len(t) = n /\ (\A k \in 1..n : t[k] = turns[c][k])
  BY ONLY <1>1, c \in Convs, d \in Convs, Fork(c, d), ForkEffect
<1>3. /\ \A e \in Convs : phase'[e] = "idle"
      /\ world' = world /\ nextRun' = nextRun
  BY <1>1 DEF Fork, Free, PhaseInv, counters, history
<1>4. turns'[d] = t /\ \A e \in Convs : e # d => turns'[e] = turns[e]
  BY <1>1, <1>2 DEF TypeInv
<1>5. DOMAIN t = 1..n /\ \A k \in 1..n : k \in DOMAIN turns[c]
  <2>1. DOMAIN t = 1..Len(t) /\ turns[c] \in Seq(TurnT)
    BY <1>1 DEF TypeInv
  <2> QED
    BY <1>2, <2>1
<1>6. SentCut(d)'
  BY <1>2, <1>3, <1>4, <1>5, SentCutKept
<1>7. \A e \in Convs : SentCut(e)'
  BY <1>3, <1>4, <1>6, SentTurnsSame
<1>8. \A e \in Convs : BatchInv(e)' /\ SentHas(e)'
  BY <1>3, SentIdle
<1>9. SentRuns'
  BY <1>3 DEF SentInv, SentRuns, Started
<1> QED
  BY <1>7, <1>8, <1>9 DEF SentInv

\* The step of a conversation that has a run, which goes on or ends: what it
\* has to show for itself, and that nothing else runs.
LEMMA SentRunning ==
    ASSUME BaseInv, SentInv, Grown, NEW c \in Convs, active[c] # NoRun,
           \A d \in Convs : d # c => phase'[d] = phase[d],
           turns' = turns, nextRun' = nextRun, \A w \in world' : w \in world \/ w.run = active[c],
           BatchInv(c)', SentHas(c)'
    PROVE  SentInv'
<1>1. TypeInv /\ PhaseInv /\ GoingInv
  BY DEF BaseInv
<1>2. \A d \in Convs : d # c => phase'[d] = "idle"
  BY <1>1 DEF GoingInv, PhaseInv
<1>3. \A d \in Convs : BatchInv(d)' /\ SentHas(d)'
  BY <1>2, SentIdle
<1>4. ASSUME NEW d \in Convs PROVE SentCut(d)'
  <2>1. \A n \in DOMAIN turns[d] : turns[d][n].run = active[c] => turns[d][n].reason = "none"
    BY <1>1 DEF GoingInv
  <2>2. \A w \in world' : \A n \in DOMAIN turns'[d] :
          turns'[d][n].run = w.run /\ turns'[d][n].reason = "cut" =>
              w \in world /\ \E e \in Convs : \E k \in DOMAIN turns[e] :
                                turns[e][k].run = w.run /\ turns[e][k].reason = "cut"
    BY <2>1
  <2> QED
    BY <2>2, SentCutKept
<1>5. active[c] \in Started /\ Started' = Started
  BY <1>1 DEF GoingInv, TypeInv, Started, NoRun
<1>6. SentRuns'
  BY <1>5 DEF SentInv, SentRuns
<1> QED
  BY <1>3, <1>4, <1>6 DEF SentInv

\* Every step keeps it: what a run that was cut off sent is in the log.
LEMMA SentStep == ASSUME BaseInv, SentInv, [Next]_vars PROVE SentInv'
<1>0. TypeInv /\ PhaseInv /\ TailInv /\ Grown /\ \A c \in Convs : phase[c] # "idle" => active[c] # NoRun
  BY BaseStep DEF BaseInv, PhaseInv
<1>1. ASSUME NEW c \in Convs, StartTurn(c) \/ Resume(c) PROVE SentInv'
  <2>1. PICK opening \in Seq(Messages) : Launch(c, opening) /\ Free
    BY <1>0, <1>1, StartEffect
  <2> QED
    BY <1>0, <2>1, SentLaunch
<1>2. ASSUME NEW c \in Convs, ResumeRefused(c) \/ NoModel(c) PROVE SentInv'
  <2>0. RowOnly(c)
    BY <1>2 DEF ResumeRefused, NoModel
  <2>1. PICK t \in TurnT : /\ t = [run |-> NoRun, reason |-> "none", at |-> Len(rows[c])]
                           /\ turns' = [turns EXCEPT ![c] = Append(turns[c], t)]
    BY ONLY <1>0, <2>0, c \in Convs, RowOnlyEffect
  <2>2. TurnAdded(c, t) /\ t.reason = "none"
    BY ONLY <1>0, c \in Convs, <2>1, AddsTurn
  <2>3. phase' = phase /\ active' = active /\ unlogged' = unlogged /\ batch' = batch /\ world' = world
        /\ nextRun' = nextRun
    BY <2>0 DEF RowOnly, history
  <2>4. \A d \in Convs : BatchInv(d)' /\ SentHas(d)'
    BY <1>0, <2>3, SentSame
  <2>5. \A d \in Convs : SentCut(d)'
    BY <1>0, <2>2, <2>3, SentTurnAdded
  <2>6. SentRuns'
    BY <2>3 DEF SentInv, SentRuns, Started
  <2> QED
    BY <2>4, <2>5, <2>6 DEF SentInv
<1>3. ASSUME NEW c \in Convs, AskCalls(c) PROVE SentInv'
  <2>1. /\ phase[c] = "turn" /\ (\A d \in Convs : d # c => phase'[d] = phase[d])
        /\ turns' = turns /\ nextRun' = nextRun /\ world' = world /\ active' = active
    BY <1>0, <1>3 DEF AskCalls, TypeInv, history
  <2>2. unlogged[c] = <<>>
    BY <1>0, <2>1 DEF TailInv
  <2>3. \A m : Has(c, m) => Has(c, m)'
    BY <1>0, <2>1, <2>2, HasMore
  <2>4. SentHas(c)'
    BY <2>1, <2>3, SentKept DEF SentInv
  <2>5. BatchInv(c)'
    BY <1>3, BatchAsk
  <2> QED
    BY <1>0, <2>1, <2>4, <2>5, SentRunning
<1>4. ASSUME NEW c \in Convs, CallReturns(c) PROVE SentInv'
  <2>1. /\ phase[c] = "batch" /\ (\A d \in Convs : d # c => phase'[d] = phase[d])
        /\ turns' = turns /\ nextRun' = nextRun /\ \A w \in world' : w \in world \/ w.run = active[c]
    BY <1>0, <1>4 DEF CallReturns, TypeInv, counters, Gone
  <2>2. BatchInv(c)' /\ SentHas(c)'
    BY <1>0, <1>4, BatchReturn, SentReturn DEF SentInv
  <2> QED
    BY <1>0, <2>1, <2>2, SentRunning
<1>5. ASSUME NEW c \in Convs, FlushRow(c) PROVE SentInv'
  <2>1. /\ phase[c] = "flush" /\ phase' = phase
        /\ turns' = turns /\ nextRun' = nextRun /\ world' = world /\ active' = active
    BY <1>5 DEF FlushRow, counters, history
  <2>2. \A m : Has(c, m) => Has(c, m)'
    BY <1>0, <1>5, HasFlushed
  <2>3. SentHas(c)'
    BY <2>1, <2>2, SentKept DEF SentInv
  <2>4. BatchInv(c)'
    BY <2>1 DEF BatchInv
  <2> QED
    BY <1>0, <2>1, <2>3, <2>4, SentRunning
<1>6. ASSUME NEW c \in Convs, Request(c) PROVE SentInv'
  <2>1. /\ phase[c] = "flush" /\ phase'[c] = "turn" /\ (\A d \in Convs : d # c => phase'[d] = phase[d])
        /\ turns' = turns /\ nextRun' = nextRun /\ world' = world /\ active' = active /\ unlogged' = unlogged
    BY <1>0, <1>6 DEF Request, TypeInv, counters
  <2>2. \A m : Has(c, m) => Has(c, m)'
    BY <1>0, <2>1, HasSame
  <2>3. SentHas(c)'
    BY <2>1, <2>2, SentKept DEF SentInv
  <2>4. BatchInv(c)'
    BY <2>1 DEF BatchInv
  <2> QED
    BY <1>0, <2>1, <2>3, <2>4, SentRunning
<1>7. ASSUME NEW c \in Convs, EndLoop(c) PROVE SentInv'
  <2>1. PICK why \in {"over", "cut"} :
               /\ CanEnd(c, why) /\ phase' = [phase EXCEPT ![c] = why] /\ phase[c] \in {"turn", "flush"}
    BY <1>0, <1>7, EndEffect
  <2>2. /\ phase'[c] = why /\ (\A d \in Convs : d # c => phase'[d] = phase[d])
        /\ turns' = turns /\ nextRun' = nextRun /\ world' = world /\ active' = active
    BY <1>0, <1>7, <2>1 DEF EndLoop, TypeInv, counters, history
  <2>3. BatchInv(c)'
    BY <2>2 DEF BatchInv
  <2>4. CASE why = "over"
    <3>1. SentHas(c)'
      BY <2>2, <2>4 DEF SentHas
    <3> QED
      BY <1>0, <2>1, <2>2, <2>3, <3>1, SentRunning
  <2>5. CASE why = "cut"
    <3>1. unlogged[c] = <<>>
      BY <1>0, <2>1, <2>5 DEF CanEnd, TailInv
    <3>2. \A m : Has(c, m) => Has(c, m)'
      BY <1>0, <2>2, <3>1, HasMore
    <3>3. SentHas(c)'
      BY <2>1, <2>2, <3>2, SentKept DEF SentInv
    <3> QED
      BY <1>0, <2>1, <2>2, <2>3, <3>3, SentRunning
  <2> QED
    BY <2>4, <2>5
<1>8. ASSUME NEW c \in Convs, Finalize(c) PROVE SentInv'
  BY <1>0, <1>8, SentFinalize
<1>9. ASSUME phase' = phase, active' = active, unlogged' = unlogged, batch' = batch, world' = world,
             nextRun' = nextRun, turns' = turns
      PROVE  SentInv'
  <2>1. \A d \in Convs : BatchInv(d)' /\ SentHas(d)'
    BY <1>0, <1>9, SentSame
  <2>2. \A d \in Convs : SentCut(d)'
    BY <1>0, <1>9, SentTurnsSame
  <2>3. SentRuns'
    BY <1>9 DEF SentInv, SentRuns, Started
  <2> QED
    BY <2>1, <2>2, <2>3 DEF SentInv
<1>10. ASSUME NEW c \in Convs, DecisionRow(c) PROVE SentInv'
  BY <1>9, <1>10 DEF DecisionRow, history
<1>11. ASSUME NEW c \in Convs, NEW d \in Convs, Fork(c, d) PROVE SentInv'
  BY <1>0, <1>11, SentFork
<1>12. ASSUME Crash PROVE SentInv'
  <2>1. (\A d \in Convs : phase'[d] = "idle") /\ turns' = turns /\ world' = world \cup UnderWay /\ nextRun' = nextRun
    BY <1>12 DEF Crash
  <2>2. \A d \in Convs : BatchInv(d)' /\ SentHas(d)'
    BY <2>1, SentIdle
  <2>3. ASSUME NEW d \in Convs PROVE SentCut(d)'
    <3>1. \A w \in UnderWay : \A n \in DOMAIN turns[d] : turns[d][n].run = w.run => turns[d][n].reason = "none"
      BY <1>0, UnderWayIs DEF BaseInv, GoingInv, NoRun, Runs
    <3> QED
      BY <1>0, <2>1, <3>1, SentCutKept
  <2>4. \A w \in UnderWay : w.run \in Started
    <3>1. ASSUME NEW c \in Convs, active[c] \in Runs PROVE active[c] \in Started
      <4>1. active[c] \in Nat /\ active[c] >= 1 /\ active[c] # NoRun
        BY ONLY <3>1, SessionsAssumption DEF Runs, NoRun
      <4>2. active[c] = nextRun - 1
        BY <4>1 DEF BaseInv, GoingInv
      <4>3. active[c] \in 1..active[c]
        BY ONLY <4>1
      <4> QED
        BY ONLY <4>2, <4>3 DEF Started
    <3> QED
      BY <1>0, <3>1, UnderWayIs
  <2>5. SentRuns'
    BY <2>1, <2>4 DEF SentInv, SentRuns, Started
  <2> QED
    BY <2>2, <2>3, <2>5 DEF SentInv
<1>13. ASSUME UNCHANGED vars PROVE SentInv'
  BY <1>9, <1>13 DEF vars, counters, history
<1> QED
  BY <1>1, <1>2, <1>3, <1>4, <1>5, <1>6, <1>7, <1>8, <1>10, <1>11, <1>12, <1>13 DEF Next

\* Nothing has gone out at first.
LEMMA SentInit == Init => SentInv
<1>1. DOMAIN <<>> = {}
  OBVIOUS
<1> QED
  BY <1>1 DEF Init, SentInv, SentRuns, BatchInv, SentHas, SentCut

\* What begins an array is in it.
LEMMA PrefixHas ==
    ASSUME NEW S, NEW a \in Seq(S), NEW b \in Seq(S), IsPrefix(a, b)
    PROVE  Range(a) \subseteq Range(b)
<1>1. Len(a) <= Len(b) /\ \A i \in 1..Len(a) : a[i] = b[i]
  BY DEF IsPrefix
<1> QED
  BY <1>1 DEF Range

\* The array of a resumed run has what the replay it begins with has.
LEMMA ResumedHas ==
    ASSUME TypeInv, NEW r, Convs # {}, NEW m, IsIn(m, Replay(r))
    PROVE  m \in Range(Resumed(r))
<1>1. PICK p \in Seq(Messages) : p = Replay(r)
  BY ReplayType
<1>2. PICK q \in Seq(Messages) : q = <<Msg("note", <<>>)>>
  <2>1. Msg("note", <<>>) \in Messages
    BY MsgRowType DEF MsgKinds
  <2>2. <<Msg("note", <<>>)>> \in Seq(Messages)
    BY <2>1
  <2> QED
    BY ONLY <2>2
<1>3. PICK i \in 1..Len(p) : p[i] = m
  BY <1>1 DEF IsIn
<1>4. i \in DOMAIN (p \o q) /\ (p \o q)[i] = m
  BY ONLY <1>3, p \in Seq(Messages), q \in Seq(Messages), i \in 1..Len(p)
<1> QED
  BY ONLY <1>1, <1>2, <1>4 DEF Resumed, Range

\* What the model is sent in the next request begins with what it was last sent.
LEMMA RequestHas ==
    ASSUME BaseInv, ReplayInv, NEW c \in Convs, Request(c), NEW r \in Runs
    PROVE  Range(seen[r]) \subseteq Range(seen'[r])
<1>1. TypeInv /\ PhaseInv
  BY DEF BaseInv
<1>2. PICK k \in Runs : k = active[c]
  BY <1>1 DEF PhaseInv, TypeInv, Request
<1>3. seen \in [Runs -> Seq(Messages)] /\ messages[c] \in Seq(Messages)
  BY <1>1 DEF TypeInv
<1>4. seen'[k] = messages[c] /\ (r # k => seen'[r] = seen[r])
  BY <1>2, <1>3 DEF Request
<1>5. IsPrefix(seen[k], messages[c])
  <2>1. messages[c] = Said(rows[c], k) \o unlogged[c] /\ IsPrefix(seen[k], Said(rows[c], k))
    BY <1>2 DEF Request, ReplayInv, TranscriptInv
  <2>2. rows[c] \in Seq(RowT) /\ unlogged[c] \in Seq(Messages) /\ seen[k] \in Seq(Messages)
    BY <1>1 DEF TypeInv
  <2>3. PICK s \in Seq(Messages), u \in Seq(Messages), p \in Seq(Messages) :
            s = Said(rows[c], k) /\ u = unlogged[c] /\ p = seen[k]
    BY <2>2, SaidType
  <2>4. IsPrefix(p, s \o u)
    BY ONLY <2>1, <2>3, s \in Seq(Messages), u \in Seq(Messages), p \in Seq(Messages), PrefixConcat
  <2> QED
    BY ONLY <2>1, <2>3, <2>4
<1>6. Range(seen[k]) \subseteq Range(messages[c])
  <2>1. PICK a \in Seq(Messages), b \in Seq(Messages) : a = seen[k] /\ b = messages[c]
    BY <1>3
  <2> QED
    BY ONLY <1>5, <2>1, a \in Seq(Messages), b \in Seq(Messages), PrefixHas
<1> QED
  BY ONLY <1>4, <1>6

\* One more resumed run: nothing its predecessor did came back done, and what
\* came back as an error is in what it sends.
LEMMA NeverResume ==
    ASSUME BaseInv, CutInv, SentInv, WorkInv, ResumeNeverRepeats, NEW c \in Convs, Resume(c)
    PROVE  ResumeNeverRepeats'
<1>1. /\ TypeInv /\ from \in [Runs -> Runs \cup {NoRun}] /\ seen \in [Runs -> Seq(Messages)]
      /\ world \subseteq Sends
  BY DEF BaseInv, TypeInv
<1>2. PICK l : l = LastLogged(c)
  OBVIOUS
<1>3. /\ from' = [from EXCEPT ![nextRun] = l] /\ seen' = [seen EXCEPT ![nextRun] = Resumed(l)]
      /\ world' = world /\ ~OutwardDone(l) /\ Offered(c)
  BY <1>2 DEF Resume, Launch
<1>4. nextRun \in Runs /\ nextRun' = nextRun + 1 /\ nextRun \in Nat
  BY <1>1, SessionsAssumption DEF Resume, Launch, TypeInv, Runs
<1>5. Started' \subseteq Started \cup {nextRun}
  BY ONLY <1>4 DEF Started
<1>6. /\ l = turns[c][Len(turns[c])].run
      /\ Len(turns[c]) \in DOMAIN turns[c] /\ turns[c][Len(turns[c])].reason = "cut"
  BY ONLY <1>1, CutInv, c \in Convs, <1>2, <1>3, OfferedIs
<1>7. ASSUME NEW w \in world, w.run = l
      PROVE  w.out = "err" /\ Msg("err", <<w.call>>) \in Range(Resumed(l))
  <2>1. SentLogged(w)
    BY <1>6, <1>7 DEF SentInv, SentCut
  <2>2. w.out = "err" /\ IsIn(Msg("err", <<w.call>>), Replay(l))
    BY <1>1, <1>3, <1>7, <2>1, SentLoggedFound
  <2> QED
    BY <1>1, <2>2, ResumedHas
<1>8. ASSUME NEW r \in Started', NEW w \in world, from'[r] = w.run
      PROVE  w.out = "err" /\ Msg("err", <<w.call>>) \in Range(seen'[r])
  <2>1. CASE r = nextRun
    <3>1. from'[r] = l /\ seen'[r] = Resumed(l)
      BY <1>1, <1>3, <1>4, <2>1
    <3> QED
      BY <1>7, <1>8, <3>1
  <2>2. CASE r # nextRun
    <3>1. r \in Started /\ from'[r] = from[r] /\ seen'[r] = seen[r]
      BY <1>1, <1>3, <1>5, <2>2
    <3> QED
      BY <1>8, <3>1 DEF ResumeNeverRepeats
  <2> QED
    BY <2>1, <2>2
<1> QED
  BY <1>3, <1>8 DEF ResumeNeverRepeats

\* Every step keeps it.
LEMMA NeverStep ==
    ASSUME BaseInv, ReplayInv, CutInv, SentInv, WorkInv, ResumeNeverRepeats, [Next]_vars
    PROVE  ResumeNeverRepeats'
<1>1. /\ TypeInv /\ GoingInv /\ PhaseInv
      /\ from \in [Runs -> Runs \cup {NoRun}] /\ Runs \subseteq Nat /\ NoRun \notin Runs
      /\ nextRun \in Nat /\ world \subseteq Sends
      /\ \A w \in Sends : w.run \in Runs
  BY DEF BaseInv, TypeInv, Runs, NoRun, Sends
<1>2. \A r \in Runs : from[r] # NoRun => from[r] \in Nat /\ from[r] < r /\ r < nextRun
  BY <1>1 DEF WorkInv, FromInv
<1>3. Started \subseteq Runs
  BY <1>1, SessionsAssumption DEF Started, TypeInv, Runs
<1>4. ASSUME NEW c \in Convs, StartTurn(c) PROVE ResumeNeverRepeats'
  <2>1. from' = from /\ world' = world /\ nextRun' = nextRun + 1 /\ nextRun \in Runs
        /\ \A r \in Runs : r # nextRun => seen'[r] = seen[r]
    BY <1>1, <1>4, SessionsAssumption DEF StartTurn, Launch, TypeInv, Runs
  <2>2. \A r \in Started' : r \in Runs /\ (r \in Started \/ r = nextRun)
    BY ONLY <1>1, <1>3, <2>1 DEF Started, Runs
  <2>3. from[nextRun] = NoRun /\ nextRun \notin Started
    BY ONLY <1>1, <1>2, <2>1 DEF Started
  <2>4. ASSUME NEW r \in Started', NEW w \in world, from[r] = w.run
        PROVE  w.out = "err" /\ Msg("err", <<w.call>>) \in Range(seen'[r])
    <3>1. r # nextRun
      BY <1>1, <2>3, <2>4
    <3>2. r \in Started /\ seen'[r] = seen[r]
      BY <2>1, <2>2, <3>1
    <3> QED
      BY <2>4, <3>2 DEF ResumeNeverRepeats
  <2> QED
    BY <2>1, <2>4 DEF ResumeNeverRepeats
<1>5. ASSUME NEW c \in Convs, Resume(c) PROVE ResumeNeverRepeats'
  BY <1>5, NeverResume
<1>6. ASSUME from' = from, nextRun' = nextRun,
             \A w \in world' : w \in world \/ w.run = nextRun - 1,
             \A r \in Runs : Range(seen[r]) \subseteq Range(seen'[r])
      PROVE  ResumeNeverRepeats'
  <2>1. Started' = Started
    BY <1>6 DEF Started
  <2>2. ASSUME NEW r \in Started, NEW w \in world', from[r] = w.run
        PROVE  w.out = "err" /\ Msg("err", <<w.call>>) \in Range(seen'[r])
    <3>1. r \in Runs
      BY <1>3
    <3>2. CASE w \in world
      BY <1>6, <2>2, <3>1, <3>2 DEF ResumeNeverRepeats
    <3>3. CASE w \notin world
      <4>1. from[r] = nextRun - 1
        BY <1>6, <2>2, <3>3
      <4>2. from[r] # NoRun
        <5>1. r \in 1..(nextRun - 1)
          BY DEF Started
        <5> QED
          BY ONLY <1>1, <4>1, <5>1 DEF NoRun
      <4>3. from[r] \in Nat /\ r \in Nat /\ from[r] < r /\ r < nextRun
        BY <1>1, <1>2, <3>1, <4>2
      <4> QED
        BY ONLY <1>1, <4>1, <4>3
    <3> QED
      BY <3>2, <3>3
  <2> QED
    BY <1>6, <2>1, <2>2 DEF ResumeNeverRepeats
<1>7. ASSUME NEW c \in Convs, CallReturns(c) PROVE ResumeNeverRepeats'
  <2>1. active[c] = nextRun - 1
    BY <1>1, <1>7 DEF CallReturns, PhaseInv, GoingInv
  <2>2. from' = from /\ nextRun' = nextRun /\ seen' = seen
    BY <1>7 DEF CallReturns, counters
  <2>3. \A w \in world' : w \in world \/ w.run = active[c]
    BY <1>7 DEF CallReturns, Gone
  <2> QED
    BY <1>6, <2>1, <2>2, <2>3
<1>8. ASSUME NEW c \in Convs, Request(c) PROVE ResumeNeverRepeats'
  <2>1. from' = from /\ nextRun' = nextRun /\ world' = world
    BY <1>8 DEF Request, counters
  <2> QED
    BY <1>6, <1>8, <2>1, RequestHas
<1>9. ASSUME Crash PROVE ResumeNeverRepeats'
  <2>1. from' = from /\ nextRun' = nextRun /\ seen' = seen /\ world' = world \cup UnderWay
    BY <1>9 DEF Crash
  <2>2. \A c \in Convs : active[c] \in Runs => active[c] = nextRun - 1
    BY <1>1 DEF GoingInv
  <2>3. \A w \in UnderWay : w.run = nextRun - 1
    BY <1>1, <2>2, UnderWayIs
  <2> QED
    BY <1>6, <2>1, <2>3
<1>10. ASSUME from' = from, nextRun' = nextRun, world' = world, seen' = seen PROVE ResumeNeverRepeats'
  BY <1>6, <1>10
<1>11. ASSUME NEW c \in Convs,
             \/ ResumeRefused(c) \/ NoModel(c) \/ AskCalls(c) \/ FlushRow(c)
             \/ EndLoop(c) \/ Finalize(c) \/ DecisionRow(c) \/ \E d \in Convs : Fork(c, d)
      PROVE  ResumeNeverRepeats'
  BY <1>10, <1>11 DEF ResumeRefused, NoModel, RowOnly, AskCalls, FlushRow, EndLoop, Finalize,
                      DecisionRow, Fork, counters, history
<1>12. ASSUME UNCHANGED vars PROVE ResumeNeverRepeats'
  BY <1>10, <1>12 DEF vars, counters, history
<1> QED
  BY <1>4, <1>5, <1>7, <1>8, <1>9, <1>11, <1>12 DEF Next

\* A run is resumed only if no send of it came back done and none was under way
\* when the app died, however it ended, was branched or was resumed itself; and
\* a send that came back as an error, which may have left all the same, is in
\* what the resumed run sends its model, as a call that failed.  (As in the run that checks it, answers are not
\* checked in the background: with such checks the newest row, by which
\* resume_turn knows the run to go on with, may be of another run.)
THEOREM ResumeRepeatsNothing == ASSUME ~AnswerChecks PROVE Spec => []ResumeNeverRepeats
<1>1. Init => BaseInv /\ ReplayInv /\ CutInv /\ SentInv /\ WorkInv /\ ResumeNeverRepeats
  <2>1. Init => ResumeNeverRepeats
    BY DEF Init, ResumeNeverRepeats, Started
  <2> QED
    BY <2>1, BaseInit, ReplayInit, CutInit, SentInit, WorkInit
<1>2. BaseInv /\ ReplayInv /\ CutInv /\ SentInv /\ WorkInv /\ ResumeNeverRepeats /\ [Next]_vars
        => (BaseInv /\ ReplayInv /\ CutInv /\ SentInv /\ WorkInv /\ ResumeNeverRepeats)'
  BY BaseStep, ReplayStep, CutStep, SentStep, WorkStep, NeverStep
<1> QED
  BY <1>1, <1>2, PTL DEF Spec
=============================================================================
