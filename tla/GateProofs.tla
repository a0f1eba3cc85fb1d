----------------------------- MODULE GateProofs -----------------------------
(***************************************************************************)
(* What Gate promises for any set of apps, tools, calls and inbox clicks:  *)
(* the types, the daily cap, that a no is final and that an "always" is    *)
(* about one kind of call.                                                 *)
(***************************************************************************)
EXTENDS Gate, FiniteSetTheorems, TLAPS

-----------------------------------------------------------------------------
(********************************** types **********************************)

CallPcs == {"idle", "weigh", "asked", "count", "go", "end"}
PartType == [kind : Kinds, sends : Nat]
PartsSet == UNION {[D -> PartType] : D \in SUBSET Apps}
HeldSet  == UNION {[D -> Policies] : D \in SUBSET Apps}
SeenSet  == UNION {[D -> Nat] : D \in SUBSET Apps}
CallType == [pc : CallPcs, batch : SUBSET Tools, parts : PartsSet, held : HeldSet, seen : SeenSet,
             headless : BOOLEAN, added : BOOLEAN, quiet : BOOLEAN]
PropType == [status : {"none", "pending", "applied", "dismissed"}, target : {None, "app", "email"},
             batch : SUBSET Tools, kind : Kinds \cup {None}]
AccType  == [pc : {"free", "start", "calling", "close"}, of : Calls \cup {None}, sends : PartsSet]

\* The types of the variables, with every record's shape.
Types ==
    /\ policy \in [Apps -> Policies] /\ told \in [Apps -> Policies]
    /\ rung \in [{"app_send", "email_send"} -> Rungs]
    /\ sent \in [Apps -> Nat] /\ left \in [Apps -> Nat] /\ quiet \in [Apps -> Nat]
    /\ top \in [Apps -> 1..MaxCap]
    /\ call \in [Calls -> CallType]
    /\ pending \subseteq Calls /\ stopped \subseteq Calls /\ refused \subseteq Calls
    /\ blurred \subseteq Apps
    /\ answer \in [Calls -> {None, "deny", "once", "chat", "forever"}]
    /\ prop \in [Calls -> PropType] /\ acc \in [Accepts -> AccType]
    /\ edits \in 0..MaxEdits /\ clicks \in 0..MaxClicks
    /\ ran \in [Calls -> Nat]

\* The strictest of some kinds is one of them, and it is "send" if that is there.
LEMMA StrictestKind ==
    ASSUME NEW ks \in SUBSET Kinds, ks # {}
    PROVE  Strictest(ks) \in ks /\ ("send" \in ks => Strictest(ks) = "send")
<1>1. Rank["read"] = 1 /\ Rank["change"] = 2 /\ Rank["send"] = 3
  BY DEF Rank
<1>2. \A k \in Kinds : Rank[k] \in 1..3 /\ (Rank[k] = 3 => k = "send")
  BY <1>1 DEF Kinds
<1>3. \E k \in ks : \A j \in ks : Rank[k] >= Rank[j]
  <2>1. CASE "send" \in ks
    BY <1>1, <1>2, <2>1
  <2>2. CASE "send" \notin ks /\ "change" \in ks
    BY <1>1, <2>2 DEF Kinds
  <2>3. CASE "send" \notin ks /\ "change" \notin ks
    <3>1. \A j \in ks : j = "read"
      BY <2>3 DEF Kinds
    <3> QED
      BY <1>1, <3>1
  <2> QED
    BY <2>1, <2>2, <2>3
<1>4. Strictest(ks) \in ks /\ \A j \in ks : Rank[Strictest(ks)] >= Rank[j]
  BY <1>3 DEF Strictest
<1>5. ASSUME "send" \in ks PROVE Strictest(ks) = "send"
  BY <1>1, <1>2, <1>4, <1>5
<1> QED
  BY <1>4, <1>5

\* A function from some of the apps to parts, policies or counts.
LEMMA PartsAre ==
    /\ \A p \in PartsSet : DOMAIN p \subseteq Apps /\ \A a \in DOMAIN p : p[a] \in PartType
    /\ \A h \in HeldSet : DOMAIN h \subseteq Apps /\ \A a \in DOMAIN h : h[a] \in Policies
    /\ \A n \in SeenSet : DOMAIN n \subseteq Apps /\ \A a \in DOMAIN n : n[a] \in Nat
    /\ NoParts \in PartsSet /\ NoParts \in HeldSet /\ NoParts \in SeenSet /\ DOMAIN NoParts = {}
<1>1. \A p \in PartsSet : DOMAIN p \subseteq Apps /\ \A a \in DOMAIN p : p[a] \in PartType
  BY DEF PartsSet
<1>2. \A h \in HeldSet : DOMAIN h \subseteq Apps /\ \A a \in DOMAIN h : h[a] \in Policies
  BY DEF HeldSet
<1>3. \A n \in SeenSet : DOMAIN n \subseteq Apps /\ \A a \in DOMAIN n : n[a] \in Nat
  BY DEF SeenSet
<1>4. \A X : NoParts \in [{} -> X]
  BY DEF NoParts
<1>5. {} \in SUBSET Apps /\ DOMAIN NoParts = {}
  BY DEF NoParts
<1>6. NoParts \in PartsSet
  BY <1>4, <1>5 DEF PartsSet
<1>7. NoParts \in HeldSet
  BY <1>4, <1>5 DEF HeldSet
<1>8. NoParts \in SeenSet
  BY <1>4, <1>5 DEF SeenSet
<1> QED
  BY <1>1, <1>2, <1>3, <1>5, <1>6, <1>7, <1>8

\* What parts_of makes of a batch: a part for each of its apps, and an app whose
\* strictest kind is not "send" has no sends to count.
LEMMA PartsOfType ==
    ASSUME policy \in [Apps -> Policies], NEW batch \in SUBSET Tools, NEW raised
    PROVE  /\ PartsOf(batch, raised) \in PartsSet
           /\ DOMAIN PartsOf(batch, raised) = {AppOf[t] : t \in batch}
           /\ \A a \in DOMAIN PartsOf(batch, raised) :
                 PartsOf(batch, raised)[a].kind # "send" => PartsOf(batch, raised)[a].sends = 0
<1> DEFINE Kind(t) == IF t \in raised THEN "send" ELSE EffectiveKind(t)
           Of(a)   == {t \in batch : AppOf[t] = a}
           D       == {AppOf[t] : t \in batch}
           part(a) == [kind  |-> Strictest({Kind(t) : t \in Of(a)}),
                       sends |-> Cardinality({t \in Of(a) : Kind(t) = "send"})]
<1>1. \A t \in batch : Kind(t) \in Kinds
  <2> SUFFICES ASSUME NEW t \in batch PROVE Kind(t) \in Kinds
    OBVIOUS
  <2>1. AppOf[t] \in Apps /\ AutoKind[t] \in Kinds
    BY GateAssumption
  <2>2. policy[AppOf[t]].kind[t] \in Kinds \cup {"none"}
    BY <2>1 DEF Policies
  <2>3. EffectiveKind(t) \in Kinds
    BY <2>1, <2>2 DEF EffectiveKind, None
  <2> QED
    BY <2>3 DEF Kinds
<1>2. PartsOf(batch, raised) = [a \in D |-> part(a)]
  BY DEF PartsOf
<1>3. D \in SUBSET Apps
  BY GateAssumption
<1>4. ASSUME NEW a \in D
      PROVE  part(a) \in PartType /\ (part(a).kind # "send" => part(a).sends = 0)
  <2> DEFINE ks == {Kind(t) : t \in Of(a)}
             sends == {t \in Of(a) : Kind(t) = "send"}
  <2>1. ks \in SUBSET Kinds /\ ks # {}
    BY <1>1, <1>4
  <2>2. Strictest(ks) \in Kinds /\ ("send" \in ks => Strictest(ks) = "send")
    BY <2>1, StrictestKind
  <2>3. sends \in SUBSET Tools
    OBVIOUS
  <2>4. Cardinality(sends) \in Nat
    BY <2>3, GateAssumption, FS_Subset, FS_CardinalityType
  <2>5. "send" \notin ks => sends = {}
    OBVIOUS
  <2>6. "send" \notin ks => Cardinality(sends) = 0
    BY <2>5, FS_EmptySet
  <2> HIDE DEF ks, sends
  <2>7. part(a) = [kind |-> Strictest(ks), sends |-> Cardinality(sends)]
    BY DEF ks, sends
  <2> HIDE DEF part
  <2> QED
    BY <2>2, <2>4, <2>6, <2>7 DEF PartType
<1> HIDE DEF part, D
<1>5. [a \in D |-> part(a)] \in [D -> PartType]
  BY <1>4
<1>6. PartsOf(batch, raised) \in PartsSet
  BY <1>2, <1>3, <1>5 DEF PartsSet
<1> QED
  BY <1>2, <1>4, <1>6 DEF D

\* The kind a call is held to is a kind.
LEMMA KindOfType ==
    ASSUME NEW parts \in PartsSet, parts # NoParts
    PROVE  KindOf(parts) \in Kinds
<1>1. DOMAIN parts # {}
  BY PartsAre DEF NoParts, PartsSet
<1>2. {parts[a].kind : a \in DOMAIN parts} \in SUBSET Kinds
  BY PartsAre DEF PartType
<1>3. {parts[a].kind : a \in DOMAIN parts} # {}
  BY <1>1
<1> QED
  BY <1>2, <1>3, StrictestKind DEF KindOf

\* What is counted for an accepted card names apps.
LEMMA SendCountsType ==
    ASSUME policy \in [Apps -> Policies], NEW p \in PropType
    PROVE  SendCounts(p) \in PartsSet
<1> DEFINE apps == {AppOf[t] : t \in p.batch}
           ones == [a \in apps |-> [kind |-> "send", sends |-> 1]]
<1>1. p.batch \in SUBSET Tools /\ apps \in SUBSET Apps
  BY GateAssumption DEF PropType
<1>2. PartsOf(p.batch, {}) \in PartsSet
  BY <1>1, PartsOfType
<1>3. ones \in PartsSet
  <2>1. [kind |-> "send", sends |-> 1] \in PartType
    BY DEF PartType, Kinds
  <2>2. ones \in [apps -> PartType]
    BY <2>1
  <2> QED
    BY <1>1, <2>2 DEF PartsSet
<1> QED
  BY <1>2, <1>3, PartsAre DEF SendCounts

\* The sends of an app are a count, also of an app the parts do not name.
LEMMA SendsOfType == \A parts \in PartsSet, a \in Apps : SendsOf(parts, a) \in Nat
  BY PartsAre DEF SendsOf, PartType

\* The records the actions start from have their types.
LEMMA Records ==
    /\ Defaults \in Policies
    /\ Idle \in CallType /\ Ended \in CallType /\ Ended.pc = "end" /\ Ended.parts = NoParts
    /\ NoProp \in PropType /\ FreeAcc \in AccType /\ FreeAcc.pc = "free"
    /\ \A n \in Int : Clamp(n) \in 1..MaxCap
<1>1. Defaults \in Policies
  BY GateAssumption DEF Defaults, Policies, Kinds, None
<1>2. Idle \in CallType
  BY PartsAre DEF Idle, CallType, CallPcs
<1>3. Ended \in CallType /\ Ended.pc = "end" /\ Ended.parts = NoParts
  BY PartsAre DEF Idle, Ended, CallType, CallPcs
<1>4. NoProp \in PropType
  BY DEF NoProp, PropType
<1>5. FreeAcc \in AccType /\ FreeAcc.pc = "free"
  BY PartsAre DEF FreeAcc, AccType
<1>6. \A n \in Int : Clamp(n) \in 1..MaxCap
  BY GateAssumption DEF Clamp
<1> QED
  BY <1>1, <1>2, <1>3, <1>4, <1>5, <1>6

\* "Always" makes a policy of a policy, and leaves the cap.
LEMMA GrantType ==
    \A p \in Policies, k \in Kinds : Grant(p, k) \in Policies /\ Grant(p, k).cap = p.cap
  BY DEF Grant, Kinds, Policies

\* The calls an answer or the policies let through, with their parts.
LEMMA CallRecords ==
    ASSUME Types, NEW c \in Calls
    PROVE  /\ Admitted(c) \in CallType /\ Admitted(c).pc = "count"
           /\ Admitted(c).parts = call[c].parts /\ Admitted(c).quiet = FALSE
           /\ Admitted(c).held = NoParts
  BY PartsAre DEF Types, Admitted, Idle, CallType, CallPcs

\* The initial state has the types.
LEMMA InitTypes == Init => Types
<1> SUFFICES ASSUME Init PROVE Types
  OBVIOUS
<1>1. rung \in [{"app_send", "email_send"} -> Rungs]
  BY DEF Init, Rungs
<1>2. 0 \in 0..MaxEdits /\ 0 \in 0..MaxClicks /\ DefaultCap \in 1..MaxCap
  BY GateAssumption
<1> QED
  BY <1>1, <1>2, Records DEF Init, Types

\* A planned call has its types, and names what it touches unless it ended.
LEMMA PlanMoves ==
    ASSUME Types, NEW c \in Calls, Plan(c)
    PROVE  /\ call' \in [Calls -> CallType] /\ \A d \in Calls \ {c} : call'[d] = call[d]
           /\ \/ call'[c] = Ended
              \/ /\ call'[c].pc = "weigh" /\ call'[c].parts # NoParts /\ call'[c].held = NoParts
                 /\ ~call'[c].quiet
                 /\ \A a \in DOMAIN call'[c].parts :
                        call'[c].parts[a].kind # "send" => call'[c].parts[a].sends = 0
<1>1. PICK batch \in Batches, headless \in BOOLEAN, added \in BOOLEAN, planFirst \in BOOLEAN :
         \E raised \in SUBSET MayRaise(batch) :
            call' = [call EXCEPT ![c] =
                IF planFirst /\ KindOf(PartsOf(batch, raised)) # "read" THEN Ended
                ELSE [Idle EXCEPT !.pc = "weigh", !.batch = batch, !.parts = PartsOf(batch, raised),
                                  !.headless = headless,
                                  !.added = (added /\ KindOf(PartsOf(batch, raised)) = "read")]]
  BY DEF Plan
<1>2. PICK raised \in SUBSET MayRaise(batch) :
            call' = [call EXCEPT ![c] =
                IF planFirst /\ KindOf(PartsOf(batch, raised)) # "read" THEN Ended
                ELSE [Idle EXCEPT !.pc = "weigh", !.batch = batch, !.parts = PartsOf(batch, raised),
                                  !.headless = headless,
                                  !.added = (added /\ KindOf(PartsOf(batch, raised)) = "read")]]
  BY <1>1
<1> DEFINE parts == PartsOf(batch, raised)
           only  == added /\ KindOf(parts) = "read"
           next  == [Idle EXCEPT !.pc = "weigh", !.batch = batch, !.parts = parts,
                                 !.headless = headless, !.added = only]
<1>3. batch \in SUBSET Tools /\ batch # {}
  BY GateAssumption
<1>4. policy \in [Apps -> Policies] /\ call \in [Calls -> CallType]
  BY DEF Types
<1>5. /\ parts \in PartsSet /\ DOMAIN parts = {AppOf[t] : t \in batch}
      /\ \A a \in DOMAIN parts : parts[a].kind # "send" => parts[a].sends = 0
  BY <1>3, <1>4, PartsOfType
<1>6. parts # NoParts
  <2>1. DOMAIN parts # {} /\ DOMAIN NoParts = {}
    BY <1>3, <1>5, PartsAre
  <2> HIDE DEF parts
  <2> QED
    BY <2>1
<1>7. call'[c] = Ended \/ call'[c] = next
  BY <1>2, <1>4
<1>8. call' = [call EXCEPT ![c] = call'[c]]
  BY <1>2, <1>4
<1>9. only \in BOOLEAN
  OBVIOUS
<1> HIDE DEF parts, only
<1>10. /\ next \in CallType /\ next.pc = "weigh" /\ next.parts = parts /\ next.held = NoParts
       /\ next.quiet = FALSE
  BY <1>3, <1>5, <1>9, PartsAre DEF Idle, CallType, CallPcs
<1> HIDE DEF next
<1>11. call' \in [Calls -> CallType] /\ \A d \in Calls \ {c} : call'[d] = call[d]
  BY <1>4, <1>7, <1>8, <1>10, Records
<1> QED
  BY <1>5, <1>6, <1>7, <1>10, <1>11

\* A call that is weighed and let through, or asked about, keeps its parts and
\* what it read of the count and of the policies.
LEMMA WeighMoves ==
    ASSUME Types, NEW c \in Calls, WeighAllowed(c) \/ OpenRequest(c)
    PROVE  /\ call' \in [Calls -> CallType] /\ \A d \in Calls \ {c} : call'[d] = call[d]
           /\ call'[c].parts = call[c].parts /\ call[c].pc = "weigh"
           /\ WeighAllowed(c) => /\ call'[c].pc = "count" /\ call'[c].quiet
                                 /\ call'[c].held = NoParts
                                 /\ call'[c].seen = Restrict(sent, DOMAIN call[c].parts)
           /\ OpenRequest(c) => /\ call'[c].pc = "asked" /\ ~call'[c].quiet
                                /\ call'[c].held = Restrict(policy, DOMAIN call[c].parts)
<1> DEFINE parts == call[c].parts
           held  == Restrict(policy, DOMAIN parts)
           seen  == Restrict(sent, DOMAIN parts)
           through == [Idle EXCEPT !.pc = "count", !.parts = parts, !.quiet = TRUE, !.seen = seen]
           asked   == [Idle EXCEPT !.pc = "asked", !.parts = parts, !.held = held]
<1>0. /\ call \in [Calls -> CallType] /\ policy \in [Apps -> Policies] /\ sent \in [Apps -> Nat]
  BY DEF Types
<1>1. parts \in PartsSet /\ DOMAIN parts \in SUBSET Apps
  BY <1>0, PartsAre DEF CallType
<1>2. held \in HeldSet
  <2>1. held \in [DOMAIN parts -> Policies]
    BY <1>0, <1>1 DEF Restrict
  <2> HIDE DEF held, parts
  <2> QED
    BY <1>1, <2>1 DEF HeldSet
<1>3. seen \in SeenSet
  <2>1. seen \in [DOMAIN parts -> Nat]
    BY <1>0, <1>1 DEF Restrict
  <2> HIDE DEF seen, parts
  <2> QED
    BY <1>1, <2>1 DEF SeenSet
<1>4. /\ WeighAllowed(c) => call' = [call EXCEPT ![c] = through]
      /\ OpenRequest(c) => call' = [call EXCEPT ![c] = asked]
      /\ call[c].pc = "weigh"
  BY DEF WeighAllowed, OpenRequest
<1>5. ASSUME WeighAllowed(c), OpenRequest(c) PROVE FALSE
  BY <1>5 DEF WeighAllowed, OpenRequest
<1> HIDE DEF held, seen, parts
<1>6. /\ through \in CallType /\ through.pc = "count" /\ through.quiet = TRUE
      /\ through.parts = parts /\ through.seen = seen /\ through.held = NoParts
  BY <1>1, <1>3, PartsAre DEF Idle, CallType, CallPcs
<1>7. /\ asked \in CallType /\ asked.pc = "asked" /\ asked.quiet = FALSE
      /\ asked.parts = parts /\ asked.held = held
  BY <1>1, <1>2, PartsAre DEF Idle, CallType, CallPcs
<1> HIDE DEF through, asked
<1>8. \A r \in {through, asked} : call' = [call EXCEPT ![c] = r] =>
         /\ call' \in [Calls -> CallType] /\ \A d \in Calls \ {c} : call'[d] = call[d]
         /\ call'[c] = r
  BY <1>0, <1>6, <1>7
<1> QED
  BY <1>4, <1>5, <1>6, <1>7, <1>8 DEF held, seen, parts

\* What one step may make of a call.
Goes(c) ==
    \/ call'[c] = Ended
    \/ /\ call[c].pc = "idle" /\ call'[c].pc = "weigh" /\ call'[c].parts # NoParts
       /\ call'[c].held = NoParts /\ ~call'[c].quiet
       /\ \A a \in DOMAIN call'[c].parts :
             call'[c].parts[a].kind # "send" => call'[c].parts[a].sends = 0
    \/ /\ call[c].pc = "weigh" /\ call'[c].parts = call[c].parts /\ WeighAllowed(c)
       /\ call'[c].pc = "count" /\ call'[c].quiet /\ call'[c].held = NoParts
       /\ call'[c].seen = Restrict(sent, DOMAIN call[c].parts)
    \/ /\ call[c].pc = "weigh" /\ call'[c].parts = call[c].parts /\ OpenRequest(c)
       /\ call'[c].pc = "asked" /\ ~call'[c].quiet
       /\ call'[c].held = Restrict(policy, DOMAIN call[c].parts)
    \/ /\ call[c].pc = "asked" /\ call'[c].pc = "count" /\ ~call'[c].quiet
       /\ call'[c].parts = call[c].parts /\ call'[c].held = NoParts
       /\ answer[c] \in {"once", "chat", "forever"}
    \/ /\ CountSends(c)
       /\ call[c].pc = "count" /\ call'[c].pc = "go" /\ ~call'[c].quiet
       /\ call'[c].parts = call[c].parts /\ call'[c].held = NoParts

\* Every step moves at most one call, and along one of these ways.
LEMMA CallMoves ==
    ASSUME Types, [Next]_vars
    PROVE  /\ call' \in [Calls -> CallType]
           /\ call' = call \/ \E c \in Calls : Goes(c) /\ \A d \in Calls \ {c} : call'[d] = call[d]
<1> DEFINE Goal == /\ call' \in [Calls -> CallType]
                   /\ call' = call \/ \E c \in Calls : Goes(c) /\ \A d \in Calls \ {c} : call'[d] = call[d]
<1>0. call \in [Calls -> CallType]
  BY DEF Types
<1>1. ASSUME UNCHANGED call PROVE Goal
  BY <1>0, <1>1
<1>2. ASSUME NEW c \in Calls, NEW r \in CallType, call' = [call EXCEPT ![c] = r], call'[c] = r => Goes(c)
      PROVE Goal
  BY <1>0, <1>2
<1>3. ASSUME NEW c \in Calls, Plan(c) PROVE Goal
  <2>1. call[c].pc = "idle"
    BY <1>3 DEF Plan
  <2> QED
    BY <1>3, <2>1, PlanMoves DEF Goes
<1>4. ASSUME NEW c \in Calls, WeighAllowed(c) \/ OpenRequest(c) PROVE Goal
  BY <1>4, WeighMoves DEF Goes
<1>5. ASSUME NEW c \in Calls, WeighRefused(c) \/ LeaveForApproval(c) \/ GiveUp(c) \/ Declined(c)
                               \/ CallTool(c) \/ SendMail(c)
      PROVE  Goal
  <2>1. call' = [call EXCEPT ![c] = Ended]
    BY <1>5 DEF WeighRefused, LeaveForApproval, GiveUp, Declined, CallTool, SendMail
  <2> QED
    BY <1>2, <2>1, Records DEF Goes
<1>6. ASSUME NEW c \in Calls, SaidOnce(c) \/ SaidForever(c) PROVE Goal
  <2>1. /\ call' = [call EXCEPT ![c] = Admitted(c)] /\ call[c].pc = "asked"
        /\ answer[c] \in {"once", "chat", "forever"}
    BY <1>6 DEF SaidOnce, SaidForever
  <2> QED
    BY <1>2, <2>1, CallRecords DEF Goes
<1>7. ASSUME NEW c \in Calls, CountSends(c) PROVE Goal
  <2> DEFINE r == [Idle EXCEPT !.pc = "go", !.parts = call[c].parts]
  <2>1. call' = [call EXCEPT ![c] = r] /\ call[c].pc = "count"
    BY <1>7 DEF CountSends
  <2>2. r \in CallType /\ r.pc = "go" /\ r.quiet = FALSE /\ r.parts = call[c].parts /\ r.held = NoParts
    BY <1>0, PartsAre DEF Idle, CallType, CallPcs
  <2> HIDE DEF r
  <2> QED
    BY <1>2, <1>7, <2>1, <2>2 DEF Goes
<1>8. ASSUME NEW c \in Calls, StopRun(c) \/ Dismiss(c) \/ \E d \in {"deny", "once", "chat", "forever"} : Resolve(c, d)
      PROVE  Goal
  BY <1>1, <1>8 DEF StopRun, Dismiss, Resolve
<1>9. ASSUME NEW k \in Accepts, (\E c \in Calls : Accept(k, c)) \/ StartApproved(k) \/ CallApproved(k)
                                 \/ CloseApproved(k)
      PROVE  Goal
  BY <1>1, <1>9 DEF Accept, StartApproved, CallApproved, CloseApproved
<1>10. CASE (\E a \in Apps : SetPolicy(a)) \/ (\E t \in Tools : SetToolKind(t)) \/ SetRung \/ UNCHANGED vars
  BY <1>1, <1>10 DEF SetPolicy, SetToolKind, SetRung, vars
<1> QED
  BY <1>3, <1>4, <1>5, <1>6, <1>7, <1>8, <1>9, <1>10 DEF Next

\* A call under way names what it touches; an open question holds the policies
\* of exactly the apps it is about; an app without a send has no sends to count.
Shape ==
    \A c \in Calls :
        /\ call[c].pc \in {"weigh", "asked", "count", "go"} => call[c].parts # NoParts
        /\ call[c].pc = "asked" => DOMAIN call[c].held = DOMAIN call[c].parts
        /\ \A a \in DOMAIN call[c].parts :
              call[c].parts[a].kind # "send" => call[c].parts[a].sends = 0

\* Every step keeps the shape of the calls.
LEMMA ShapeStep == Types /\ Shape /\ [Next]_vars => Shape'
<1> SUFFICES ASSUME Types, Shape, [Next]_vars, call' # call PROVE Shape'
  BY DEF Shape
<1>1. PICK c \in Calls : Goes(c) /\ \A d \in Calls \ {c} : call'[d] = call[d]
  BY CallMoves
<1> SUFFICES ASSUME NEW d \in Calls
             PROVE  /\ call'[d].pc \in {"weigh", "asked", "count", "go"} => call'[d].parts # NoParts
                    /\ call'[d].pc = "asked" => DOMAIN call'[d].held = DOMAIN call'[d].parts
                    /\ \A a \in DOMAIN call'[d].parts :
                          call'[d].parts[a].kind # "send" => call'[d].parts[a].sends = 0
  BY DEF Shape
<1>2. CASE d # c
  BY <1>1, <1>2 DEF Shape
<1>3. CASE d = c
  <2>1. CASE call'[c] = Ended
    BY <1>3, <2>1, Records, PartsAre
  <2>2. CASE call'[c] # Ended
    BY <1>1, <1>3, <2>2 DEF Goes, Shape, Restrict
  <2> QED
    BY <2>1, <2>2
<1> QED
  BY <1>2, <1>3

\* The policies and what the person was last told of them keep their types, and
\* differ only for an app that is blurred.
LEMMA PolicyStep ==
    ASSUME Types, Shape, AlwaysKeepsTheRest, [Next]_vars
    PROVE  policy' \in [Apps -> Policies] /\ told' \in [Apps -> Policies] /\ AlwaysKeepsTheRest'
<1> DEFINE Goal == policy' \in [Apps -> Policies] /\ told' \in [Apps -> Policies] /\ AlwaysKeepsTheRest'
<1>0. /\ policy \in [Apps -> Policies] /\ told \in [Apps -> Policies] /\ blurred \subseteq Apps
      /\ call \in [Calls -> CallType]
  BY DEF Types
<1>1. ASSUME UNCHANGED <<policy, told, blurred>> PROVE Goal
  BY <1>0, <1>1 DEF AlwaysKeepsTheRest
<1>2. ASSUME NEW c \in Calls, SaidForever(c) PROVE Goal
  <2> DEFINE parts == call[c].parts
             held == call[c].held
             TellA(a) == CASE parts[a].kind = "read"   -> [told[a] EXCEPT !.read = "run"]
                           [] parts[a].kind = "change" -> [told[a] EXCEPT !.change = "allow"]
                           [] parts[a].kind = "send"   -> [told[a] EXCEPT !.send = "allow"]
  <2>1. /\ policy' = [a \in Apps |-> IF a \in DOMAIN parts THEN Grant(held[a], parts[a].kind) ELSE policy[a]]
        /\ told' = [a \in Apps |-> IF a \notin DOMAIN parts THEN told[a] ELSE TellA(a)]
        /\ blurred' = blurred \cup {a \in DOMAIN parts : held[a] # policy[a]}
    BY <1>2 DEF SaidForever
  <2>2. /\ parts \in PartsSet /\ held \in HeldSet /\ DOMAIN held = DOMAIN parts
    BY <1>0, <1>2 DEF CallType, Shape, SaidForever
  <2>3. \A a \in DOMAIN parts : parts[a].kind \in Kinds /\ held[a] \in Policies
    BY <2>2, PartsAre DEF PartType
  <2>4. \A a \in DOMAIN parts \cap Apps : TellA(a) = Grant(told[a], parts[a].kind)
    BY <2>3 DEF Grant, Kinds
  <2> HIDE DEF TellA, parts, held
  <2>5. policy' \in [Apps -> Policies]
    BY <1>0, <2>1, <2>3, GrantType
  <2>6. told' \in [Apps -> Policies]
    BY <1>0, <2>1, <2>3, <2>4, GrantType
  <2>7. AlwaysKeepsTheRest'
    BY <2>1, <2>4 DEF AlwaysKeepsTheRest
  <2> QED
    BY <2>5, <2>6, <2>7
<1>3. ASSUME NEW a \in Apps, SetPolicy(a) PROVE Goal
  <2>1. PICK ch \in Settings :
           /\ policy' = [policy EXCEPT ![a] = [policy[a] EXCEPT !.read = ch.read, !.change = ch.change,
                                                               !.send = ch.send, !.cap = Clamp(ch.cap)]]
           /\ told' = [told EXCEPT ![a].read = ch.read, ![a].change = ch.change,
                                   ![a].send = ch.send, ![a].cap = Clamp(ch.cap)]
    BY <1>3 DEF SetPolicy
  <2>2. /\ ch.read \in {"run", "ask"} /\ ch.change \in {"ask", "allow"} /\ ch.send \in {"ask", "allow"}
        /\ Clamp(ch.cap) \in 1..MaxCap
    BY GateAssumption, Records
  <2> DEFINE With(p) == [p EXCEPT !.read = ch.read, !.change = ch.change, !.send = ch.send,
                                  !.cap = Clamp(ch.cap)]
  <2>3. \A p \in Policies : With(p) \in Policies
    BY <2>2 DEF Policies
  <2>4. policy' = [policy EXCEPT ![a] = With(policy[a])] /\ told' = [told EXCEPT ![a] = With(told[a])]
    BY <1>0, <2>1
  <2>5. blurred' = blurred
    BY <1>3 DEF SetPolicy
  <2> HIDE DEF With
  <2> QED
    BY <1>0, <2>3, <2>4, <2>5 DEF AlwaysKeepsTheRest
<1>4. ASSUME NEW t \in Tools, SetToolKind(t) PROVE Goal
  <2>1. PICK k \in Kinds \cup {None} :
           /\ policy' = [policy EXCEPT ![AppOf[t]].kind[t] = k]
           /\ told' = [told EXCEPT ![AppOf[t]].kind[t] = k]
    BY <1>4 DEF SetToolKind
  <2> DEFINE With(p) == [p EXCEPT !.kind = [p.kind EXCEPT ![t] = k]]
  <2>2. \A p \in Policies : With(p) \in Policies
    BY DEF Policies, None
  <2>3. AppOf[t] \in Apps
    BY GateAssumption
  <2>4. /\ policy' = [policy EXCEPT ![AppOf[t]] = With(policy[AppOf[t]])]
        /\ told' = [told EXCEPT ![AppOf[t]] = With(told[AppOf[t]])]
    BY <1>0, <2>1, <2>3
  <2>5. blurred' = blurred
    BY <1>4 DEF SetToolKind
  <2> HIDE DEF With
  <2> QED
    BY <1>0, <2>2, <2>3, <2>4, <2>5 DEF AlwaysKeepsTheRest
<1>5. ASSUME NEW c \in Calls,
             \/ Plan(c) \/ WeighRefused(c) \/ WeighAllowed(c) \/ LeaveForApproval(c) \/ OpenRequest(c)
             \/ \E d \in {"deny", "once", "chat", "forever"} : Resolve(c, d)
             \/ StopRun(c) \/ GiveUp(c) \/ Declined(c) \/ SaidOnce(c)
             \/ CountSends(c) \/ CallTool(c) \/ SendMail(c) \/ Dismiss(c)
      PROVE  Goal
  BY <1>1, <1>5 DEF Plan, WeighRefused, WeighAllowed, LeaveForApproval, OpenRequest, Resolve, StopRun,
     GiveUp, Declined, SaidOnce, CountSends, CallTool, SendMail, Dismiss, person
<1>6. ASSUME NEW k \in Accepts, (\E c \in Calls : Accept(k, c)) \/ StartApproved(k) \/ CallApproved(k)
                                 \/ CloseApproved(k)
      PROVE  Goal
  BY <1>1, <1>6 DEF Accept, StartApproved, CallApproved, CloseApproved, person
<1>7. CASE SetRung \/ UNCHANGED vars
  BY <1>1, <1>7 DEF SetRung, vars, person
<1> QED
  BY <1>2, <1>3, <1>4, <1>5, <1>6, <1>7 DEF Next

\* An accept under way is about a call that has a card, and only a call that is
\* over has one.
Cards ==
    /\ \A c \in Calls : prop[c].status # "none" => call[c].pc = "end"
    /\ \A k \in Accepts : acc[k].pc # "free" => acc[k].of \in Calls /\ prop[acc[k].of].status # "none"

\* The cards and the accepts keep their types, and each accept its card.
LEMMA CardStep ==
    ASSUME Types, Shape, Cards, [Next]_vars
    PROVE  /\ prop' \in [Calls -> PropType] /\ acc' \in [Accepts -> AccType]
           /\ clicks' \in 0..MaxClicks /\ Cards'
<1> DEFINE Goal == /\ prop' \in [Calls -> PropType] /\ acc' \in [Accepts -> AccType]
                   /\ clicks' \in 0..MaxClicks /\ Cards'
<1>0. /\ prop \in [Calls -> PropType] /\ acc \in [Accepts -> AccType] /\ clicks \in 0..MaxClicks
      /\ call \in [Calls -> CallType] /\ call' \in [Calls -> CallType]
  BY CallMoves DEF Types
<1>00. \A c \in Calls : call[c].pc = "end" => call'[c].pc = "end"
  BY CallMoves, Records DEF Goes
<1>1. ASSUME UNCHANGED <<prop, acc, clicks>> PROVE Goal
  BY <1>0, <1>00, <1>1 DEF Cards
<1>2. ASSUME NEW c \in Calls, NEW p \in PropType, p.status # "none",
             prop' = [prop EXCEPT ![c] = p], UNCHANGED acc, clicks' \in 0..MaxClicks, call'[c].pc = "end"
      PROVE  Goal
  <2>1. \A d \in Calls : prop'[d] = IF d = c THEN p ELSE prop[d]
    BY <1>0, <1>2
  <2> QED
    BY <1>0, <1>00, <1>2, <2>1 DEF Cards
<1>3. ASSUME NEW c \in Calls, LeaveForApproval(c) PROVE Goal
  <2> DEFINE p == [status |-> "pending", target |-> "app", batch |-> call[c].batch,
                   kind |-> KindOf(call[c].parts)]
  <2>1. KindOf(call[c].parts) \in Kinds /\ call[c].batch \in SUBSET Tools
    BY <1>0, <1>3, KindOfType DEF LeaveForApproval, Shape, CallType
  <2>2. p \in PropType
    BY <2>1 DEF PropType
  <2>3. call'[c].pc = "end" /\ acc' = acc /\ clicks' = clicks /\ prop' = [prop EXCEPT ![c] = p]
    BY <1>0, <1>3, Records DEF LeaveForApproval
  <2> QED
    BY <1>0, <1>2, <2>2, <2>3
<1>4. ASSUME NEW c \in Calls, SendMail(c) PROVE Goal
  <2> DEFINE p == [status |-> "pending", target |-> "email", batch |-> {}, kind |-> None]
  <2>1. p \in PropType
    BY DEF PropType
  <2>2. call'[c].pc = "end" /\ acc' = acc /\ clicks' = clicks
    BY <1>0, <1>4, Records DEF SendMail
  <2>3. prop' = prop \/ prop' = [prop EXCEPT ![c] = p]
    BY <1>4 DEF SendMail
  <2> QED
    BY <1>0, <1>1, <1>2, <2>1, <2>2, <2>3
<1>5. ASSUME NEW c \in Calls, Dismiss(c) PROVE Goal
  <2> DEFINE p == [prop[c] EXCEPT !.status = "dismissed"]
  <2>1. p \in PropType /\ p.status # "none" /\ prop' = [prop EXCEPT ![c] = p]
    BY <1>0, <1>5 DEF Dismiss, PropType
  <2>2. acc' = acc /\ clicks' \in 0..MaxClicks
    BY <1>0, <1>5, GateAssumption DEF Dismiss
  <2>3. call'[c].pc = "end"
    BY <1>00, <1>5 DEF Dismiss, Cards
  <2> HIDE DEF p
  <2> QED
    BY <1>2, <2>1, <2>2, <2>3
<1>6. ASSUME NEW k \in Accepts, NEW r \in AccType, acc' = [acc EXCEPT ![k] = r], UNCHANGED prop,
             clicks' \in 0..MaxClicks,
             r.pc # "free" => r.of \in Calls /\ prop[r.of].status # "none"
      PROVE  Goal
  <2>1. \A j \in Accepts : acc'[j] = IF j = k THEN r ELSE acc[j]
    BY <1>0, <1>6
  <2>2. acc' \in [Accepts -> AccType]
    BY <1>0, <1>6
  <2> QED
    BY <1>0, <1>00, <1>6, <2>1, <2>2 DEF Cards
<1>7. ASSUME NEW k \in Accepts, NEW c \in Calls, Accept(k, c) PROVE Goal
  <2> DEFINE r == [FreeAcc EXCEPT !.pc = "start", !.of = c]
  <2>1. r \in AccType /\ r.of = c
    BY PartsAre DEF FreeAcc, AccType
  <2>2. acc' = [acc EXCEPT ![k] = r] /\ prop' = prop /\ prop[c].status = "pending"
    BY <1>7 DEF Accept
  <2>3. clicks' \in 0..MaxClicks
    BY <1>0, <1>7, GateAssumption DEF Accept
  <2> HIDE DEF r
  <2> QED
    BY <1>6, <2>1, <2>2, <2>3
<1>8. ASSUME NEW k \in Accepts, StartApproved(k) PROVE Goal
  <2> DEFINE counts == SendCounts(prop[acc[k].of])
             r == [acc[k] EXCEPT !.pc = "calling", !.sends = counts]
  <2>1. prop' = prop /\ clicks' = clicks /\ acc[k].pc = "start"
    BY <1>8 DEF StartApproved
  <2>2. acc[k].of \in Calls /\ prop[acc[k].of].status # "none" /\ prop[acc[k].of] \in PropType
    BY <1>0, <2>1 DEF Cards
  <2>3. counts \in PartsSet
    BY <2>2, SendCountsType DEF Types
  <2>4. acc' = [acc EXCEPT ![k] = FreeAcc] \/ acc' = [acc EXCEPT ![k] = r]
    BY <1>0, <1>8 DEF StartApproved
  <2> HIDE DEF counts
  <2>5. r \in AccType /\ r.of = acc[k].of
    BY <1>0, <2>3 DEF AccType
  <2> HIDE DEF r
  <2> QED
    BY <1>0, <1>6, <2>1, <2>2, <2>4, <2>5, Records
<1>9. ASSUME NEW k \in Accepts, CallApproved(k) PROVE Goal
  <2> DEFINE r == [acc[k] EXCEPT !.pc = "close"]
  <2>1. prop' = prop /\ clicks' = clicks /\ acc[k].pc = "calling"
    BY <1>9 DEF CallApproved
  <2>2. acc[k].of \in Calls /\ prop[acc[k].of].status # "none"
    BY <2>1 DEF Cards
  <2>3. acc' = [acc EXCEPT ![k] = FreeAcc] \/ acc' = [acc EXCEPT ![k] = r]
    BY <1>0, <1>9 DEF CallApproved
  <2>4. r \in AccType /\ r.of = acc[k].of
    BY <1>0 DEF AccType
  <2> HIDE DEF r
  <2> QED
    BY <1>0, <1>6, <2>1, <2>2, <2>3, <2>4, Records
<1>10. ASSUME NEW k \in Accepts, CloseApproved(k) PROVE Goal
  <2>1. acc[k].of \in Calls /\ prop[acc[k].of].status # "none" /\ call[acc[k].of].pc = "end"
    BY <1>10 DEF Cards, CloseApproved
  <2> DEFINE c == acc[k].of
             p == [prop[c] EXCEPT !.status = "applied"]
  <2>2. p \in PropType /\ p.status # "none" /\ prop' = [prop EXCEPT ![c] = p]
    BY <1>0, <1>10, <2>1 DEF CloseApproved, PropType
  <2>3. acc' = [acc EXCEPT ![k] = FreeAcc] /\ clicks' = clicks /\ call' = call
    BY <1>10 DEF CloseApproved
  <2> HIDE DEF p
  <2>4. \A d \in Calls : prop'[d] = IF d = c THEN p ELSE prop[d]
    BY <1>0, <2>2
  <2>5. \A j \in Accepts : acc'[j] = IF j = k THEN FreeAcc ELSE acc[j]
    BY <1>0, <2>3
  <2>6. prop' \in [Calls -> PropType] /\ acc' \in [Accepts -> AccType]
    BY <1>0, <2>2, <2>3, Records
  <2>7. \A d \in Calls : prop'[d].status # "none" => call'[d].pc = "end"
    BY <2>1, <2>3, <2>4 DEF Cards
  <2>8. \A j \in Accepts : acc'[j].pc # "free" => acc'[j].of \in Calls /\ prop'[acc'[j].of].status # "none"
    BY <2>2, <2>4, <2>5, Records DEF Cards
  <2> QED
    BY <1>0, <2>3, <2>6, <2>7, <2>8 DEF Cards
<1>11. ASSUME NEW c \in Calls,
             \/ Plan(c) \/ WeighRefused(c) \/ WeighAllowed(c) \/ OpenRequest(c)
             \/ \E d \in {"deny", "once", "chat", "forever"} : Resolve(c, d)
             \/ StopRun(c) \/ GiveUp(c) \/ Declined(c) \/ SaidOnce(c) \/ SaidForever(c)
             \/ CountSends(c) \/ CallTool(c)
      PROVE  Goal
  BY <1>1, <1>11 DEF Plan, WeighRefused, WeighAllowed, OpenRequest, Resolve, StopRun,
     GiveUp, Declined, SaidOnce, SaidForever, CountSends, CallTool, inbox
<1>12. CASE (\E a \in Apps : SetPolicy(a)) \/ (\E t \in Tools : SetToolKind(t)) \/ SetRung \/ UNCHANGED vars
  BY <1>1, <1>12 DEF SetPolicy, SetToolKind, SetRung, vars, inbox
<1> QED
  BY <1>3, <1>4, <1>5, <1>7, <1>8, <1>9, <1>10, <1>11, <1>12 DEF Next

\* The counts stay counts, and the day's count never falls.
LEMMA LedgerStep ==
    ASSUME Types, Cards, [Next]_vars
    PROVE  /\ sent' \in [Apps -> Nat] /\ left' \in [Apps -> Nat] /\ quiet' \in [Apps -> Nat]
           /\ ran' \in [Calls -> Nat]
<1> DEFINE Goal == /\ sent' \in [Apps -> Nat] /\ left' \in [Apps -> Nat] /\ quiet' \in [Apps -> Nat]
                   /\ ran' \in [Calls -> Nat]
<1>0. /\ sent \in [Apps -> Nat] /\ left \in [Apps -> Nat] /\ quiet \in [Apps -> Nat]
      /\ ran \in [Calls -> Nat] /\ call \in [Calls -> CallType] /\ prop \in [Calls -> PropType]
      /\ acc \in [Accepts -> AccType] /\ policy \in [Apps -> Policies]
  BY DEF Types
<1>1. ASSUME UNCHANGED <<ledger, ran>> PROVE Goal
  BY <1>0, <1>1 DEF ledger
<1>2. ASSUME NEW c \in Calls, CountSends(c) PROVE Goal
  <2>1. call[c].parts \in PartsSet
    BY <1>0 DEF CallType
  <2>2. \A a \in Apps : SendsOf(call[c].parts, a) \in Nat
    BY <2>1, SendsOfType
  <2>3. sent' \in [Apps -> Nat]
    BY <1>0, <1>2, <2>2 DEF CountSends
  <2>4. quiet' \in [Apps -> Nat]
    <3>1. \A a \in DOMAIN call[c].parts : call[c].parts[a].sends \in Nat
      BY <2>1, PartsAre DEF PartType
    <3> QED
      BY <1>0, <1>2, <3>1 DEF CountSends
  <2> QED
    BY <1>0, <1>2, <2>3, <2>4 DEF CountSends
<1>3. ASSUME NEW c \in Calls, CallTool(c) PROVE Goal
  <2>1. call[c].parts \in PartsSet
    BY <1>0 DEF CallType
  <2>2. \A a \in Apps : SendsOf(call[c].parts, a) \in Nat
    BY <2>1, SendsOfType
  <2> QED
    BY <1>0, <1>3, <2>2 DEF CallTool
<1>4. ASSUME NEW c \in Calls, SendMail(c) PROVE Goal
  BY <1>0, <1>4 DEF SendMail, ledger
<1>5. ASSUME NEW k \in Accepts, StartApproved(k) PROVE Goal
  <2> DEFINE counts == SendCounts(prop[acc[k].of])
  <2>1. acc[k].of \in Calls /\ prop[acc[k].of] \in PropType
    BY <1>0, <1>5 DEF Cards, StartApproved
  <2>2. counts \in PartsSet
    BY <1>0, <2>1, SendCountsType
  <2> HIDE DEF counts
  <2>3. \A a \in Apps : SendsOf(counts, a) \in Nat
    BY <2>2, SendsOfType
  <2>4. sent' = sent \/ sent' = [a \in Apps |-> sent[a] + SendsOf(counts, a)]
    BY <1>5 DEF StartApproved, counts
  <2>5. UNCHANGED <<left, quiet, ran>>
    BY <1>5 DEF StartApproved
  <2> QED
    BY <1>0, <2>3, <2>4, <2>5
<1>6. ASSUME NEW k \in Accepts, CallApproved(k) PROVE Goal
  <2>1. acc[k].sends \in PartsSet
    BY <1>0 DEF AccType
  <2>2. \A a \in Apps : SendsOf(acc[k].sends, a) \in Nat
    BY <2>1, SendsOfType
  <2> QED
    BY <1>0, <1>6, <2>2 DEF CallApproved
<1>7. ASSUME NEW c \in Calls,
             \/ Plan(c) \/ WeighRefused(c) \/ WeighAllowed(c) \/ LeaveForApproval(c) \/ OpenRequest(c)
             \/ \E d \in {"deny", "once", "chat", "forever"} : Resolve(c, d)
             \/ StopRun(c) \/ GiveUp(c) \/ Declined(c) \/ SaidOnce(c) \/ SaidForever(c) \/ Dismiss(c)
      PROVE  Goal
  BY <1>1, <1>7 DEF Plan, WeighRefused, WeighAllowed, LeaveForApproval, OpenRequest, Resolve, StopRun,
     GiveUp, Declined, SaidOnce, SaidForever, Dismiss
<1>8. ASSUME NEW k \in Accepts, (\E c \in Calls : Accept(k, c)) \/ CloseApproved(k) PROVE Goal
  BY <1>1, <1>8 DEF Accept, CloseApproved
<1>9. CASE (\E a \in Apps : SetPolicy(a)) \/ (\E t \in Tools : SetToolKind(t)) \/ SetRung \/ UNCHANGED vars
  BY <1>1, <1>9 DEF SetPolicy, SetToolKind, SetRung, vars
<1> QED
  BY <1>2, <1>3, <1>4, <1>5, <1>6, <1>7, <1>8, <1>9 DEF Next

\* The settings and the histories keep their types.
LEMMA SettingsStep ==
    ASSUME Types, [Next]_vars
    PROVE  /\ rung' \in [{"app_send", "email_send"} -> Rungs] /\ top' \in [Apps -> 1..MaxCap]
           /\ edits' \in 0..MaxEdits /\ blurred' \subseteq Apps /\ refused' \subseteq Calls
<1> DEFINE Goal == /\ rung' \in [{"app_send", "email_send"} -> Rungs] /\ top' \in [Apps -> 1..MaxCap]
                   /\ edits' \in 0..MaxEdits /\ blurred' \subseteq Apps /\ refused' \subseteq Calls
<1>0. /\ rung \in [{"app_send", "email_send"} -> Rungs] /\ top \in [Apps -> 1..MaxCap]
      /\ edits \in 0..MaxEdits /\ blurred \subseteq Apps /\ refused \subseteq Calls
      /\ call \in [Calls -> CallType] /\ policy \in [Apps -> Policies]
  BY DEF Types
<1>1. ASSUME UNCHANGED <<person>>, refused' \subseteq Calls PROVE Goal
  BY <1>0, <1>1 DEF person
<1>2. ASSUME NEW c \in Calls, SaidForever(c) PROVE Goal
  <2>1. DOMAIN call[c].parts \subseteq Apps
    BY <1>0, PartsAre DEF CallType
  <2> QED
    BY <1>0, <1>2, <2>1 DEF SaidForever
<1>3. ASSUME NEW a \in Apps, SetPolicy(a) PROVE Goal
  <2>1. edits' \in 0..MaxEdits
    BY <1>0, <1>3, GateAssumption DEF SetPolicy
  <2>2. PICK ch \in Settings :
           LET p == [policy[a] EXCEPT !.read = ch.read, !.change = ch.change,
                                      !.send = ch.send, !.cap = Clamp(ch.cap)]
           IN  top' = [top EXCEPT ![a] = IF p.cap > @ THEN p.cap ELSE @]
    BY <1>3 DEF SetPolicy
  <2> DEFINE p == [policy[a] EXCEPT !.read = ch.read, !.change = ch.change,
                                    !.send = ch.send, !.cap = Clamp(ch.cap)]
  <2>3. p.cap = Clamp(ch.cap)
    BY <1>0 DEF Policies
  <2>4. p.cap \in 1..MaxCap
    BY <2>3, GateAssumption, Records
  <2> HIDE DEF p
  <2>5. top' = [top EXCEPT ![a] = IF p.cap > top[a] THEN p.cap ELSE top[a]]
    BY <2>2 DEF p
  <2>6. top' \in [Apps -> 1..MaxCap]
    BY <1>0, <2>4, <2>5
  <2> QED
    BY <1>0, <1>3, <2>1, <2>6 DEF SetPolicy
<1>4. ASSUME NEW t \in Tools, SetToolKind(t) PROVE Goal
  <2>1. edits' \in 0..MaxEdits
    BY <1>0, <1>4, GateAssumption DEF SetToolKind
  <2> QED
    BY <1>0, <1>4, <2>1 DEF SetToolKind
<1>5. CASE SetRung
  <2>1. edits' \in 0..MaxEdits
    BY <1>0, <1>5, GateAssumption DEF SetRung
  <2>2. rung' \in [{"app_send", "email_send"} -> Rungs]
    BY <1>0, <1>5 DEF SetRung
  <2> QED
    BY <1>0, <1>5, <2>1, <2>2 DEF SetRung
<1>6. ASSUME NEW c \in Calls,
             \/ Plan(c) \/ WeighRefused(c) \/ WeighAllowed(c) \/ LeaveForApproval(c) \/ OpenRequest(c)
             \/ \E d \in {"deny", "once", "chat", "forever"} : Resolve(c, d)
             \/ StopRun(c) \/ GiveUp(c) \/ Declined(c) \/ SaidOnce(c)
             \/ CountSends(c) \/ CallTool(c) \/ SendMail(c) \/ Dismiss(c)
      PROVE  Goal
  <2>1. refused' \in {refused, refused \cup {c}} /\ UNCHANGED person
    BY <1>6 DEF Plan, WeighRefused, WeighAllowed, LeaveForApproval, OpenRequest, Resolve, StopRun,
       GiveUp, Declined, SaidOnce, CountSends, CallTool, SendMail, Dismiss
  <2> QED
    BY <1>0, <1>1, <2>1
<1>7. ASSUME NEW k \in Accepts, (\E c \in Calls : Accept(k, c)) \/ StartApproved(k) \/ CallApproved(k)
                                 \/ CloseApproved(k)
      PROVE  Goal
  BY <1>0, <1>1, <1>7 DEF Accept, StartApproved, CallApproved, CloseApproved
<1>8. CASE UNCHANGED vars
  BY <1>0, <1>1, <1>8 DEF vars
<1> QED
  BY <1>2, <1>3, <1>4, <1>5, <1>6, <1>7, <1>8 DEF Next

\* An open question belongs to a call that was asked about and may have been
\* given up; an answer came to a call that was asked about, and closed the question.
Asking ==
    /\ pending \subseteq {c \in Calls : call[c].pc \in {"asked", "end"}}
    /\ \A c \in Calls : answer[c] # None => c \notin pending /\ call[c].pc \notin {"idle", "weigh"}

\* Every step keeps the questions and their answers in step.
LEMMA AskStep ==
    ASSUME Types, Asking, [Next]_vars
    PROVE  /\ pending' \subseteq Calls /\ stopped' \subseteq Calls
           /\ answer' \in [Calls -> {None, "deny", "once", "chat", "forever"}] /\ Asking'
<1> DEFINE Goal == /\ pending' \subseteq Calls /\ stopped' \subseteq Calls
                   /\ answer' \in [Calls -> {None, "deny", "once", "chat", "forever"}] /\ Asking'
<1>0. /\ pending \subseteq Calls /\ stopped \subseteq Calls
      /\ answer \in [Calls -> {None, "deny", "once", "chat", "forever"}]
      /\ call \in [Calls -> CallType]
  BY DEF Types
<1>1. ASSUME UNCHANGED perms,
             \A c \in Calls : \/ call'[c] = call[c] \/ call'[c].pc = "end"
                              \/ answer[c] = None /\ c \notin pending
                              \/ c \notin pending /\ call'[c].pc \notin {"idle", "weigh"}
      PROVE  Goal
  BY <1>0, <1>1 DEF perms, Asking
<1>2. ASSUME NEW c \in Calls, Plan(c) PROVE Goal
  <2>1. answer[c] = None /\ c \notin pending
    BY <1>2 DEF Plan, Asking
  <2>2. UNCHANGED perms /\ \A d \in Calls \ {c} : call'[d] = call[d]
    BY <1>2, PlanMoves DEF Plan
  <2> QED
    BY <1>1, <2>1, <2>2
<1>3. ASSUME NEW c \in Calls, WeighAllowed(c) PROVE Goal
  <2>1. answer[c] = None /\ c \notin pending
    BY <1>3 DEF WeighAllowed, Asking
  <2>2. UNCHANGED perms /\ \A d \in Calls \ {c} : call'[d] = call[d]
    BY <1>3, WeighMoves DEF WeighAllowed
  <2> QED
    BY <1>1, <2>1, <2>2
<1>4. ASSUME NEW c \in Calls, OpenRequest(c) PROVE Goal
  <2>1. answer[c] = None
    BY <1>4 DEF OpenRequest, Asking
  <2>2. call'[c].pc = "asked" /\ \A d \in Calls \ {c} : call'[d] = call[d]
    BY <1>4, WeighMoves
  <2> QED
    BY <1>0, <1>4, <2>1, <2>2 DEF OpenRequest, Asking
<1>5. ASSUME NEW c \in Calls, NEW d \in {"deny", "once", "chat", "forever"}, Resolve(c, d) PROVE Goal
  <2>1. call' = call /\ stopped' = stopped /\ pending' = pending \ {c} /\ c \in pending
    BY <1>5 DEF Resolve
  <2>2. answer' = answer \/ (call[c].pc = "asked" /\ answer' = [answer EXCEPT ![c] = d])
    BY <1>5 DEF Resolve
  <2>3. answer' \in [Calls -> {None, "deny", "once", "chat", "forever"}]
    BY <1>0, <2>2
  <2>4. \A e \in Calls : answer'[e] = answer[e] \/ (e = c /\ call[c].pc = "asked")
    BY <1>0, <2>2
  <2> QED
    BY <1>0, <2>1, <2>3, <2>4 DEF Asking
<1>6. ASSUME NEW c \in Calls, WeighRefused(c) \/ LeaveForApproval(c) \/ GiveUp(c) \/ Declined(c)
                               \/ CallTool(c) \/ SendMail(c)
      PROVE  Goal
  <2>1. call' = [call EXCEPT ![c] = Ended] /\ UNCHANGED perms
    BY <1>6 DEF WeighRefused, LeaveForApproval, GiveUp, Declined, CallTool, SendMail
  <2>2. \A d \in Calls : call'[d] = call[d] \/ call'[d].pc = "end"
    BY <1>0, <2>1, Records
  <2> QED
    BY <1>1, <2>1, <2>2
<1>7. ASSUME NEW c \in Calls, SaidOnce(c) \/ SaidForever(c) PROVE Goal
  <2>1. /\ call' = [call EXCEPT ![c] = Admitted(c)] /\ UNCHANGED perms
        /\ answer[c] \in {"once", "chat", "forever"}
    BY <1>7 DEF SaidOnce, SaidForever
  <2>2. c \notin pending
    BY <2>1 DEF Asking, None
  <2>3. call'[c].pc = "count" /\ \A d \in Calls \ {c} : call'[d] = call[d]
    BY <1>0, <2>1, CallRecords
  <2> QED
    BY <1>1, <2>1, <2>2, <2>3
<1>8. ASSUME NEW c \in Calls, CountSends(c) PROVE Goal
  <2>1. c \notin pending /\ UNCHANGED perms
    BY <1>8 DEF CountSends, Asking
  <2>2. call'[c].pc = "go" /\ \A d \in Calls \ {c} : call'[d] = call[d]
    BY <1>0, <1>8 DEF CountSends, Idle
  <2> QED
    BY <1>1, <2>1, <2>2
<1>9. ASSUME NEW c \in Calls, StopRun(c) PROVE Goal
  BY <1>0, <1>9 DEF StopRun, Asking
<1>10. ASSUME UNCHANGED <<call, perms>> PROVE Goal
  BY <1>1, <1>10
<1>11. ASSUME NEW c \in Calls, Dismiss(c) PROVE Goal
  BY <1>10, <1>11 DEF Dismiss
<1>12. ASSUME NEW k \in Accepts, (\E c \in Calls : Accept(k, c)) \/ StartApproved(k) \/ CallApproved(k)
                                 \/ CloseApproved(k)
      PROVE  Goal
  BY <1>10, <1>12 DEF Accept, StartApproved, CallApproved, CloseApproved
<1>13. CASE (\E a \in Apps : SetPolicy(a)) \/ (\E t \in Tools : SetToolKind(t)) \/ SetRung \/ UNCHANGED vars
  BY <1>10, <1>13 DEF SetPolicy, SetToolKind, SetRung, vars
<1> QED
  BY <1>2, <1>3, <1>4, <1>5, <1>6, <1>7, <1>8, <1>9, <1>11, <1>12, <1>13 DEF Next

-----------------------------------------------------------------------------
(****************************** a no is final ******************************)

\* What the proofs below stand on.
BaseInv == Types /\ Shape /\ Cards /\ Asking /\ AlwaysKeepsTheRest

\* It holds in every reachable state.
LEMMA BaseStep == BaseInv /\ [Next]_vars => BaseInv'
<1> SUFFICES ASSUME BaseInv, [Next]_vars PROVE BaseInv'
  OBVIOUS
<1>0. Types /\ Shape /\ Cards /\ Asking /\ AlwaysKeepsTheRest
  BY DEF BaseInv
<1>1. call' \in [Calls -> CallType] /\ Shape'
  BY <1>0, CallMoves, ShapeStep
<1>2. policy' \in [Apps -> Policies] /\ told' \in [Apps -> Policies] /\ AlwaysKeepsTheRest'
  BY <1>0, PolicyStep
<1>3. /\ prop' \in [Calls -> PropType] /\ acc' \in [Accepts -> AccType]
      /\ clicks' \in 0..MaxClicks /\ Cards'
  BY <1>0, CardStep
<1>4. /\ sent' \in [Apps -> Nat] /\ left' \in [Apps -> Nat] /\ quiet' \in [Apps -> Nat]
      /\ ran' \in [Calls -> Nat]
  BY <1>0, LedgerStep
<1>5. /\ rung' \in [{"app_send", "email_send"} -> Rungs] /\ top' \in [Apps -> 1..MaxCap]
      /\ edits' \in 0..MaxEdits /\ blurred' \subseteq Apps /\ refused' \subseteq Calls
  BY <1>0, SettingsStep
<1>6. /\ pending' \subseteq Calls /\ stopped' \subseteq Calls
      /\ answer' \in [Calls -> {None, "deny", "once", "chat", "forever"}] /\ Asking'
  BY <1>0, AskStep
<1>7. Types'
  BY <1>1, <1>2, <1>3, <1>4, <1>5, <1>6 DEF Types
<1> QED
  BY <1>1, <1>2, <1>3, <1>6, <1>7 DEF BaseInv

\* The initial state satisfies it.
LEMMA BaseInit == Init => BaseInv
<1> SUFFICES ASSUME Init PROVE BaseInv
  OBVIOUS
<1>1. Types
  BY InitTypes
<1>2. \A c \in Calls : /\ call[c].pc = "idle" /\ call[c].parts = NoParts
                       /\ prop[c].status = "none" /\ answer[c] = None
  BY DEF Init, Idle, NoProp
<1>3. Shape
  BY <1>2, PartsAre DEF Shape
<1>4. Cards
  BY <1>2, Records DEF Init, Cards
<1>5. Asking
  BY <1>2 DEF Init, Asking
<1>6. AlwaysKeepsTheRest
  BY DEF Init, AlwaysKeepsTheRest
<1> QED
  BY <1>1, <1>3, <1>4, <1>5, <1>6 DEF BaseInv

\* The accepts of a card that have not carried it out yet.
Busy(c) == {k \in Accepts : acc[k].pc \in {"start", "calling"} /\ acc[k].of = c}

\* A call under way has not been carried out, one without a card at most once,
\* and one with a card at most as often as somebody clicked.
Carried ==
    \A c \in Calls :
        /\ IsFiniteSet(Busy(c))
        /\ call[c].pc # "end" => ran[c] = 0
        /\ prop[c].status = "none" => ran[c] <= 1
        /\ prop[c].status # "none" => ran[c] + Cardinality(Busy(c)) <= clicks

\* A refused call is over, was not carried out, and nobody is accepting it; a
\* card that is still pending after it was carried out is about to be closed.
Refusals ==
    /\ \A c \in refused :
          /\ call[c].pc = "end" /\ ran[c] = 0 /\ prop[c].status \in {"none", "dismissed"}
          /\ \A k \in Accepts : acc[k].pc # "free" => acc[k].of # c
    /\ \A c \in Calls : (prop[c].status = "pending" /\ ran[c] > 0)
          => \E k \in Accepts : acc[k].pc = "close" /\ acc[k].of = c

\* What a call's own step does to its card, its run and its refusal.
LEMMA OwnStep ==
    ASSUME BaseInv, Carried, Refusals, NEW c \in Calls,
           UNCHANGED <<acc, clicks>>, call[c].pc # "end", call' = [call EXCEPT ![c] = call'[c]],
           \/ UNCHANGED <<prop, ran>> /\ (refused' = refused \/ (refused' = refused \cup {c} /\ call'[c].pc = "end"))
           \/ /\ call'[c].pc = "end" /\ UNCHANGED <<prop, refused>>
              /\ ran' = [ran EXCEPT ![c] = ran[c] + 1]
           \/ /\ call'[c].pc = "end" /\ UNCHANGED <<ran, refused>>
              /\ \E p \in PropType : p.status = "pending" /\ prop' = [prop EXCEPT ![c] = p]
    PROVE  Carried' /\ Refusals'
<1>0. /\ call \in [Calls -> CallType] /\ prop \in [Calls -> PropType] /\ ran \in [Calls -> Nat]
      /\ acc \in [Accepts -> AccType] /\ clicks \in Nat /\ refused \subseteq Calls
  BY GateAssumption DEF BaseInv, Types
<1>1. ran[c] = 0 /\ prop[c].status = "none" /\ c \notin refused
  BY DEF Carried, BaseInv, Cards, Refusals
<1>2. \A k \in Accepts : acc[k].pc # "free" => acc[k].of # c
  BY <1>1 DEF BaseInv, Cards
<1>3. Busy(c) = {}
  BY <1>2 DEF Busy
<1>4. Cardinality(Busy(c)) = 0 /\ IsFiniteSet(Busy(c))
  BY <1>3, FS_EmptySet
<1>5. \A d \in Calls : Busy(d)' = Busy(d)
  BY DEF Busy
<1>6. \A d \in Calls \ {c} : call'[d] = call[d] /\ prop'[d] = prop[d] /\ ran'[d] = ran[d]
  BY <1>0
<1>7. ran'[c] \in {0, 1} /\ (call'[c].pc # "end" => ran'[c] = 0) /\ (prop'[c].status # "none" => ran'[c] = 0)
  BY <1>0, <1>1
<1>8. Carried'
  <2> SUFFICES ASSUME NEW d \in Calls
               PROVE  /\ IsFiniteSet(Busy(d))
                      /\ call'[d].pc # "end" => ran'[d] = 0
                      /\ prop'[d].status = "none" => ran'[d] <= 1
                      /\ prop'[d].status # "none" => ran'[d] + Cardinality(Busy(d)) <= clicks
    BY <1>5 DEF Carried
  <2>1. CASE d = c
    BY <1>0, <1>4, <1>7, <2>1
  <2>2. CASE d # c
    BY <1>6, <2>2 DEF Carried
  <2> QED
    BY <2>1, <2>2
<1>9. Refusals'
  <2>1. ASSUME NEW d \in refused'
        PROVE  /\ call'[d].pc = "end" /\ ran'[d] = 0 /\ prop'[d].status \in {"none", "dismissed"}
               /\ \A k \in Accepts : acc[k].pc # "free" => acc[k].of # d
    <3>1. CASE d = c
      BY <1>1, <1>2, <2>1, <3>1
    <3>2. CASE d # c
      <4>1. d \in refused /\ d \in Calls
        BY <1>0, <2>1, <3>2
      <4> QED
        BY <1>6, <3>2, <4>1 DEF Refusals
    <3> QED
      BY <3>1, <3>2
  <2>2. ASSUME NEW d \in Calls, prop'[d].status = "pending", ran'[d] > 0
        PROVE  \E k \in Accepts : acc[k].pc = "close" /\ acc[k].of = d
    <3>1. d # c
      BY <1>7, <2>2
    <3> QED
      BY <1>6, <2>2, <3>1 DEF Refusals
  <2> QED
    BY <2>1, <2>2 DEF Refusals
<1> QED
  BY <1>8, <1>9

\* Every step keeps the count of what was carried out, and the refusals.
LEMMA RefusalStep == BaseInv /\ Carried /\ Refusals /\ [Next]_vars => Carried' /\ Refusals'
<1> SUFFICES ASSUME BaseInv, Carried, Refusals, [Next]_vars PROVE Carried' /\ Refusals'
  OBVIOUS
<1> DEFINE Goal == Carried' /\ Refusals'
<1>0. /\ call \in [Calls -> CallType] /\ prop \in [Calls -> PropType] /\ ran \in [Calls -> Nat]
      /\ acc \in [Accepts -> AccType] /\ clicks \in Nat /\ refused \subseteq Calls
      /\ Types /\ Cards
  BY GateAssumption DEF BaseInv, Types
<1>1. \A c \in Calls : Cardinality(Busy(c)) \in Nat
  BY FS_CardinalityType DEF Carried
<1>2. ASSUME UNCHANGED <<call, prop, acc, clicks, ran, refused>> PROVE Goal
  BY <1>2 DEF Carried, Refusals, Busy
<1>3. ASSUME NEW c \in Calls, Plan(c) PROVE Goal
  <2>1. call' = [call EXCEPT ![c] = call'[c]] /\ UNCHANGED <<acc, clicks, prop, ran, refused>>
    BY <1>0, <1>3 DEF Plan, inbox
  <2>2. call[c].pc # "end"
    BY <1>3 DEF Plan
  <2> QED
    BY <2>1, <2>2, OwnStep
<1>4. ASSUME NEW c \in Calls,
             \/ WeighRefused(c) \/ WeighAllowed(c) \/ OpenRequest(c) \/ GiveUp(c) \/ Declined(c)
             \/ SaidOnce(c) \/ SaidForever(c) \/ CountSends(c)
      PROVE  Goal
  <2>1. /\ call' = [call EXCEPT ![c] = call'[c]] /\ UNCHANGED <<acc, clicks, prop, ran>>
        /\ call[c].pc # "end"
    BY <1>0, <1>4 DEF WeighRefused, WeighAllowed, OpenRequest, GiveUp, Declined, SaidOnce, SaidForever,
       CountSends, inbox
  <2>2. refused' = refused \/ (refused' = refused \cup {c} /\ call'[c].pc = "end")
    BY <1>0, <1>4, Records DEF WeighRefused, WeighAllowed, OpenRequest, GiveUp, Declined, SaidOnce,
       SaidForever, CountSends
  <2> QED
    BY <2>1, <2>2, OwnStep
<1>5. ASSUME NEW c \in Calls, LeaveForApproval(c) PROVE Goal
  <2> DEFINE p == [status |-> "pending", target |-> "app", batch |-> call[c].batch,
                   kind |-> KindOf(call[c].parts)]
  <2>1. KindOf(call[c].parts) \in Kinds /\ call[c].batch \in SUBSET Tools
    BY <1>0, <1>5, KindOfType DEF LeaveForApproval, BaseInv, Shape, CallType
  <2>2. p \in PropType /\ p.status = "pending"
    BY <2>1 DEF PropType
  <2>3. /\ call' = [call EXCEPT ![c] = Ended] /\ UNCHANGED <<acc, clicks, ran, refused>>
        /\ call[c].pc # "end" /\ prop' = [prop EXCEPT ![c] = p]
    BY <1>5 DEF LeaveForApproval
  <2>4. call' = [call EXCEPT ![c] = call'[c]] /\ call'[c].pc = "end"
    BY <1>0, <2>3, Records
  <2> QED
    BY <2>2, <2>3, <2>4, OwnStep
<1>6. ASSUME NEW c \in Calls, SendMail(c) PROVE Goal
  <2> DEFINE p == [status |-> "pending", target |-> "email", batch |-> {}, kind |-> None]
  <2>1. p \in PropType /\ p.status = "pending"
    BY DEF PropType
  <2>2. /\ call' = [call EXCEPT ![c] = Ended] /\ UNCHANGED <<acc, clicks>> /\ call[c].pc # "end"
    BY <1>6 DEF SendMail
  <2>3. call' = [call EXCEPT ![c] = call'[c]] /\ call'[c].pc = "end"
    BY <1>0, <2>2, Records
  <2>4. \/ UNCHANGED <<prop, ran>> /\ (refused' = refused \/ refused' = refused \cup {c})
        \/ UNCHANGED <<prop, refused>> /\ ran' = [ran EXCEPT ![c] = ran[c] + 1]
        \/ UNCHANGED <<ran, refused>> /\ prop' = [prop EXCEPT ![c] = p]
    BY <1>6 DEF SendMail
  <2> HIDE DEF p
  <2> QED
    BY <2>1, <2>2, <2>3, <2>4, OwnStep
<1>7. ASSUME NEW c \in Calls, CallTool(c) PROVE Goal
  <2>1. /\ call' = [call EXCEPT ![c] = Ended] /\ UNCHANGED <<acc, clicks, prop, refused>>
        /\ call[c].pc # "end"
    BY <1>7 DEF CallTool, inbox
  <2>2. call' = [call EXCEPT ![c] = call'[c]] /\ call'[c].pc = "end"
    BY <1>0, <2>1, Records
  <2>3. ran' = ran \/ ran' = [ran EXCEPT ![c] = ran[c] + 1]
    BY <1>7 DEF CallTool
  <2> QED
    BY <2>1, <2>2, <2>3, OwnStep
<1>8. ASSUME NEW c \in Calls, StopRun(c) \/ \E d \in {"deny", "once", "chat", "forever"} : Resolve(c, d)
      PROVE  Goal
  BY <1>2, <1>8 DEF StopRun, Resolve, inbox
<1>9. ASSUME NEW c \in Calls, Dismiss(c) PROVE Goal
  <2>1. /\ prop' = [prop EXCEPT ![c].status = "dismissed"] /\ clicks' = clicks + 1
        /\ UNCHANGED <<call, acc, ran>> /\ prop[c].status = "pending"
    BY <1>9 DEF Dismiss
  <2>2. prop'[c].status = "dismissed" /\ \A d \in Calls \ {c} : prop'[d] = prop[d]
    BY <1>0, <2>1 DEF PropType
  <2>3. \A d \in Calls : Busy(d)' = Busy(d)
    BY <2>1 DEF Busy
  <2>4. Carried'
    BY <1>0, <1>1, <2>1, <2>2, <2>3 DEF Carried
  <2>5. refused' = refused \/ (refused' = refused \cup {c} /\ \A k \in Accepts : acc[k].of # c)
    BY <1>9 DEF Dismiss
  <2>6. (\A k \in Accepts : acc[k].of # c) => ran[c] = 0
    BY <1>0, <2>1 DEF Refusals
  <2>7. call[c].pc = "end" /\ c \notin refused
    BY <1>0, <2>1 DEF Cards, Refusals
  <2>8. Refusals'
    BY <1>0, <2>1, <2>2, <2>5, <2>6, <2>7 DEF Refusals
  <2> QED
    BY <2>4, <2>8
<1>10. ASSUME NEW k \in Accepts, NEW c \in Calls, Accept(k, c) PROVE Goal
  <2>1. /\ acc' = [acc EXCEPT ![k] = [FreeAcc EXCEPT !.pc = "start", !.of = c]] /\ clicks' = clicks + 1
        /\ UNCHANGED <<call, prop, ran, refused>> /\ prop[c].status = "pending" /\ acc[k].pc = "free"
    BY <1>10 DEF Accept
  <2>2. acc'[k].pc = "start" /\ acc'[k].of = c /\ \A j \in Accepts \ {k} : acc'[j] = acc[j]
    BY <1>0, <2>1 DEF FreeAcc
  <2>3. Busy(c)' = Busy(c) \cup {k} /\ \A d \in Calls \ {c} : Busy(d)' = Busy(d)
    BY <2>1, <2>2 DEF Busy
  <2>4. k \notin Busy(c)
    BY <2>1 DEF Busy
  <2>5. IsFiniteSet(Busy(c)') /\ Cardinality(Busy(c)') = Cardinality(Busy(c)) + 1
    BY <2>3, <2>4, FS_AddElement DEF Carried
  <2>6. Carried'
    <3> SUFFICES ASSUME NEW d \in Calls
                 PROVE  /\ IsFiniteSet(Busy(d)')
                        /\ call[d].pc # "end" => ran[d] = 0
                        /\ prop[d].status = "none" => ran[d] <= 1
                        /\ prop[d].status # "none" => ran[d] + Cardinality(Busy(d)') <= clicks'
      BY <2>1 DEF Carried
    <3>1. CASE d = c
      BY <1>0, <1>1, <2>1, <2>5, <3>1 DEF Carried
    <3>2. CASE d # c
      BY <1>0, <1>1, <2>1, <2>3, <3>2 DEF Carried
    <3> QED
      BY <3>1, <3>2
  <2>7. c \notin refused
    BY <2>1 DEF Refusals
  <2>8. Refusals'
    BY <1>0, <2>1, <2>2, <2>7 DEF Refusals
  <2> QED
    BY <2>6, <2>8
<1>11. ASSUME NEW k \in Accepts, StartApproved(k) \/ CallApproved(k) \/ CloseApproved(k) PROVE Goal
  <2>0. acc[k].of \in Calls /\ acc[k].pc # "free" /\ prop[acc[k].of].status # "none"
    BY <1>0, <1>11 DEF StartApproved, CallApproved, CloseApproved, Cards
  <2> PICK c \in Calls : c = acc[k].of
    BY <2>0
  <2>1. acc[k].pc # "free" /\ c = acc[k].of /\ prop[c].status # "none"
    BY <2>0
  <2>2. c \notin refused
    BY <2>1 DEF Refusals
  <2>3. UNCHANGED <<call, clicks, refused>> /\ \A j \in Accepts \ {k} : acc'[j] = acc[j]
    BY <1>0, <1>11 DEF StartApproved, CallApproved, CloseApproved
  <2>4. acc'[k].pc = "free" \/ (acc'[k].of = c /\ acc'[k].pc \in {"calling", "close"})
    BY <1>0, <1>11, Records DEF StartApproved, CallApproved, CloseApproved, AccType
  <2>5. \A d \in Calls \ {c} : Busy(d)' = Busy(d)
    BY <2>3, <2>4 DEF Busy
  <2>6. CASE StartApproved(k) /\ acc'[k].pc # "free"
    <3>1. UNCHANGED <<prop, ran>> /\ acc[k].pc = "start" /\ acc'[k].pc = "calling" /\ acc'[k].of = c
      BY <1>0, <2>4, <2>6, Records DEF StartApproved, AccType
    <3>2. Busy(c)' = Busy(c)
      BY <2>3, <3>1 DEF Busy
    <3>3. Carried'
      BY <2>3, <2>5, <3>1, <3>2 DEF Carried
    <3>4. Refusals'
      BY <2>2, <2>3, <3>1 DEF Refusals
    <3> QED
      BY <3>3, <3>4
  <2>7. CASE (StartApproved(k) /\ acc'[k].pc = "free") \/ CallApproved(k)
    <3>1. /\ prop' = prop /\ acc[k].pc \in {"start", "calling"}
          /\ acc'[k].pc = "free" \/ (acc'[k].pc = "close" /\ acc'[k].of = c)
          /\ ran' = ran \/ (ran' = [ran EXCEPT ![c] = ran[c] + 1] /\ acc'[k].pc = "close")
      BY <1>0, <2>4, <2>7, Records DEF StartApproved, CallApproved, AccType
    <3>2. k \in Busy(c) /\ Busy(c)' = Busy(c) \ {k}
      BY <2>3, <3>1 DEF Busy
    <3>3. IsFiniteSet(Busy(c)') /\ Cardinality(Busy(c)') = Cardinality(Busy(c)) - 1
      BY <2>1, <3>2, FS_RemoveElement DEF Carried
    <3>4. ran'[c] \in {ran[c], ran[c] + 1} /\ \A d \in Calls \ {c} : ran'[d] = ran[d]
      BY <1>0, <2>1, <3>1
    <3>5. call[c].pc = "end"
      BY <1>0, <2>1 DEF Cards
    <3>6. Carried'
      <4> SUFFICES ASSUME NEW d \in Calls
                   PROVE  /\ IsFiniteSet(Busy(d)')
                          /\ call[d].pc # "end" => ran'[d] = 0
                          /\ prop[d].status = "none" => ran'[d] <= 1
                          /\ prop[d].status # "none" => ran'[d] + Cardinality(Busy(d)') <= clicks
        BY <2>3, <3>1 DEF Carried
      <4>1. CASE d = c
        <5>1. ran[c] + Cardinality(Busy(c)) <= clicks /\ ran[c] \in Nat /\ Cardinality(Busy(c)) \in Nat
          BY <1>0, <1>1, <2>1 DEF Carried
        <5>2. ran'[c] + Cardinality(Busy(c)') <= clicks
          BY <1>0, <3>3, <3>4, <5>1
        <5> QED
          BY <2>1, <3>3, <3>5, <4>1, <5>2
      <4>2. CASE d # c
        BY <2>5, <3>4, <4>2 DEF Carried
      <4> QED
        BY <4>1, <4>2
    <3>7. \A d \in refused : ran'[d] = 0 /\ \A j \in Accepts : acc'[j].pc # "free" => acc'[j].of # d
      BY <1>0, <2>2, <2>3, <3>1, <3>4 DEF Refusals
    <3>8. ASSUME NEW d \in Calls, prop[d].status = "pending", ran'[d] > 0
          PROVE  \E j \in Accepts : acc'[j].pc = "close" /\ acc'[j].of = d
      <4>1. CASE ran'[d] = ran[d]
        <5>1. PICK j \in Accepts : acc[j].pc = "close" /\ acc[j].of = d
          BY <3>8, <4>1 DEF Refusals
        <5>2. j # k
          BY <3>1, <5>1
        <5> QED
          BY <2>3, <5>1, <5>2
      <4>2. CASE ran'[d] # ran[d]
        BY <3>1, <3>4, <4>2
      <4> QED
        BY <4>1, <4>2
    <3>9. Refusals'
      BY <2>3, <3>1, <3>7, <3>8 DEF Refusals
    <3> QED
      BY <3>6, <3>9
  <2>8. CASE CloseApproved(k)
    <3>1. /\ ran' = ran /\ acc[k].pc = "close" /\ acc'[k].pc = "free"
          /\ prop' = [prop EXCEPT ![c].status = "applied"]
      BY <1>0, <2>8, Records DEF CloseApproved
    <3>2. prop'[c].status = "applied" /\ \A d \in Calls \ {c} : prop'[d] = prop[d]
      BY <1>0, <2>1, <3>1 DEF PropType
    <3>3. Busy(c)' = Busy(c)
      BY <2>3, <3>1 DEF Busy
    <3>4. Carried'
      BY <1>0, <1>1, <2>1, <2>3, <2>5, <3>1, <3>2, <3>3 DEF Carried
    <3>5. ASSUME NEW d \in Calls, prop'[d].status = "pending", ran[d] > 0
          PROVE  \E j \in Accepts : acc'[j].pc = "close" /\ acc'[j].of = d
      <4>1. d # c
        BY <3>2, <3>5
      <4>2. PICK j \in Accepts : acc[j].pc = "close" /\ acc[j].of = d
        BY <3>2, <3>5, <4>1 DEF Refusals
      <4> QED
        BY <2>3, <4>1, <4>2, <2>1
    <3>6. Refusals'
      BY <1>0, <2>2, <2>3, <3>1, <3>2, <3>5 DEF Refusals
    <3> QED
      BY <3>4, <3>6
  <2> QED
    BY <1>11, <2>6, <2>7, <2>8
<1>12. CASE (\E a \in Apps : SetPolicy(a)) \/ (\E t \in Tools : SetToolKind(t)) \/ SetRung \/ UNCHANGED vars
  BY <1>2, <1>12 DEF SetPolicy, SetToolKind, SetRung, vars, inbox
<1> QED
  BY <1>3, <1>4, <1>5, <1>6, <1>7, <1>8, <1>9, <1>10, <1>11, <1>12 DEF Next

-----------------------------------------------------------------------------
(******************************** the cap **********************************)

\* No policy, stored or held by an open question, has a cap above the highest one
\* there was; what was counted without a question is in the count and below that
\* cap; and a call that was let through unasked fits under it on top of the count
\* it saw.
Caps ==
    /\ \A a \in Apps : policy[a].cap <= top[a] /\ quiet[a] <= sent[a] /\ quiet[a] <= top[a]
    /\ \A c \in Calls : \A a \in DOMAIN call[c].held : call[c].held[a].cap <= top[a]
    /\ \A c \in Calls : (call[c].pc = "count" /\ call[c].quiet) =>
          /\ DOMAIN call[c].seen = DOMAIN call[c].parts
          /\ \A a \in DOMAIN call[c].parts :
                call[c].parts[a].sends > 0 => call[c].seen[a] + call[c].parts[a].sends <= top[a]

\* What a call may become, as far as the caps go.
LEMMA CapsOfCalls ==
    ASSUME BaseInv, Caps, [Next]_vars, \A a \in Apps : top[a] <= top'[a]
    PROVE  /\ \A c \in Calls : \A a \in DOMAIN call'[c].held : call'[c].held[a].cap <= top'[a]
           /\ \A c \in Calls : (call'[c].pc = "count" /\ call'[c].quiet) =>
                /\ DOMAIN call'[c].seen = DOMAIN call'[c].parts
                /\ \A a \in DOMAIN call'[c].parts :
                      call'[c].parts[a].sends > 0 => call'[c].seen[a] + call'[c].parts[a].sends <= top'[a]
<1>0. /\ Types /\ Shape /\ call \in [Calls -> CallType] /\ call' \in [Calls -> CallType]
      /\ policy \in [Apps -> Policies] /\ sent \in [Apps -> Nat] /\ top \in [Apps -> 1..MaxCap]
      /\ \A a \in Apps : top[a] \in Int /\ top'[a] \in Int
  BY BaseStep, GateAssumption DEF BaseInv, Types
<1>1. ASSUME NEW c \in Calls, NEW a \in DOMAIN call'[c].held
      PROVE  call'[c].held[a].cap <= top'[a]
  <2>1. CASE call'[c] = call[c]
    <3>1. call[c].held \in HeldSet
      BY <1>0 DEF CallType
    <3>2. a \in Apps /\ call[c].held[a] \in Policies
      BY <1>1, <2>1, <3>1, PartsAre
    <3>3. call[c].held[a].cap \in Int
      BY <3>2, GateAssumption DEF Policies
    <3> QED
      BY <1>0, <1>1, <2>1, <3>2, <3>3 DEF Caps
  <2>2. CASE call'[c] # call[c]
    <3>1. Goes(c)
      BY <1>0, <2>2, CallMoves
    <3>2. DOMAIN call'[c].held = {} \/ call'[c].held = Restrict(policy, DOMAIN call[c].parts)
      <4>1. Ended.held = NoParts
        BY DEF Ended, Idle
      <4> QED
        BY <3>1, <4>1, PartsAre DEF Goes
    <3>3. a \in DOMAIN call[c].parts /\ call'[c].held[a] = policy[a]
      BY <1>1, <3>2 DEF Restrict
    <3>4. call[c].parts \in PartsSet
      BY <1>0 DEF CallType
    <3>5. a \in Apps
      BY <3>3, <3>4, PartsAre
    <3>6. policy[a].cap \in Int /\ policy[a].cap <= top[a]
      BY <1>0, <3>5, GateAssumption DEF Caps, Policies
    <3> QED
      BY <1>0, <3>3, <3>5, <3>6
  <2> QED
    BY <2>1, <2>2
<1>2. ASSUME NEW c \in Calls, call'[c].pc = "count", call'[c].quiet
      PROVE  \/ call'[c] = call[c]
             \/ /\ WeighAllowed(c) /\ call'[c].parts = call[c].parts
                /\ call'[c].seen = Restrict(sent, DOMAIN call[c].parts)
  <2>1. call'[c] # call[c] => Goes(c)
    BY <1>0, CallMoves
  <2> QED
    BY <1>2, <2>1, Records DEF Goes
<1>3. ASSUME NEW c \in Calls, call'[c].pc = "count", call'[c].quiet
      PROVE  DOMAIN call'[c].seen = DOMAIN call'[c].parts
  BY <1>2, <1>3 DEF Caps, Restrict
<1>4. ASSUME NEW c \in Calls, call'[c].pc = "count", call'[c].quiet, NEW a \in DOMAIN call'[c].parts,
             call'[c].parts[a].sends > 0
      PROVE  call'[c].seen[a] + call'[c].parts[a].sends <= top'[a]
  <2>0. call'[c].parts \in PartsSet /\ call'[c].seen \in SeenSet
    BY <1>0 DEF CallType
  <2>1. /\ a \in Apps /\ call'[c].parts[a].sends \in Nat /\ call'[c].parts[a] \in PartType
        /\ call'[c].seen[a] \in Nat
    BY <1>3, <1>4, <2>0, PartsAre DEF PartType
  <2>3. CASE call'[c] = call[c]
    <3>1. call[c].seen[a] + call[c].parts[a].sends <= top[a]
      BY <1>4, <2>3 DEF Caps
    <3>2. top[a] <= top'[a] /\ top[a] \in Int /\ top'[a] \in Int
      BY <1>0, <2>1
    <3> QED
      BY <2>1, <2>3, <3>1, <3>2
  <2>4. CASE /\ WeighAllowed(c) /\ call'[c].parts = call[c].parts
             /\ call'[c].seen = Restrict(sent, DOMAIN call[c].parts)
    <3>1. call'[c].seen[a] = sent[a]
      BY <1>4, <2>4 DEF Restrict
    <3>2. call[c].parts[a].kind = "send"
      BY <1>0, <1>4, <2>1, <2>4 DEF Shape
    <3>3. Allowed(c, a)
      BY <1>4, <2>4 DEF WeighAllowed, AllAllowed
    <3>4. sent[a] + call[c].parts[a].sends <= policy[a].cap
      BY <3>2, <3>3 DEF Allowed
    <3>5. policy[a].cap \in Int /\ policy[a].cap <= top[a] /\ sent[a] \in Int
      BY <1>0, <2>1, GateAssumption DEF Caps, Policies
    <3>6. top[a] <= top'[a] /\ top[a] \in Int /\ top'[a] \in Int
      BY <1>0, <2>1
    <3> QED
      BY <2>1, <2>4, <3>1, <3>4, <3>5, <3>6
  <2> QED
    BY <1>2, <1>4, <2>3, <2>4
<1> QED
  BY <1>1, <1>3, <1>4

\* Every step keeps the caps.
LEMMA CapsStep == BaseInv /\ Caps /\ [Next]_vars => Caps'
<1> SUFFICES ASSUME BaseInv, Caps, [Next]_vars PROVE Caps'
  OBVIOUS
<1> DEFINE Goal == \A a \in Apps : /\ policy'[a].cap <= top'[a] /\ quiet'[a] <= sent'[a]
                                  /\ quiet'[a] <= top'[a] /\ top[a] <= top'[a]
<1>0. /\ policy \in [Apps -> Policies] /\ sent \in [Apps -> Nat] /\ quiet \in [Apps -> Nat]
      /\ top \in [Apps -> 1..MaxCap] /\ call \in [Calls -> CallType] /\ Types /\ Shape /\ Cards
      /\ acc \in [Accepts -> AccType] /\ prop \in [Calls -> PropType]
      /\ \A a \in Apps : /\ policy[a] \in Policies /\ policy[a].cap \in Int /\ top[a] \in Int
                        /\ sent[a] \in Nat /\ quiet[a] \in Nat
  BY GateAssumption DEF BaseInv, Types, Policies
<1>1. ASSUME UNCHANGED <<policy, quiet, sent, top>> PROVE Goal
  BY <1>0, <1>1 DEF Caps
<1>2. ASSUME NEW c \in Calls, CountSends(c) PROVE Goal
  <2> SUFFICES ASSUME NEW a \in Apps
               PROVE  /\ policy'[a].cap <= top'[a] /\ quiet'[a] <= sent'[a]
                      /\ quiet'[a] <= top'[a] /\ top[a] <= top'[a]
    OBVIOUS
  <2> DEFINE n == SendsOf(call[c].parts, a)
             seen == call[c].quiet /\ a \in DOMAIN call[c].parts /\ call[c].seen[a] = sent[a]
  <2>1. UNCHANGED <<policy, top>> /\ call[c].pc = "count"
    BY <1>2 DEF CountSends, person
  <2>2. n \in Nat
    BY <1>0, SendsOfType DEF CallType
  <2>3. sent'[a] = sent[a] + n
    BY <1>0, <1>2 DEF CountSends
  <2>4. quiet'[a] = quiet[a] + (IF seen THEN call[c].parts[a].sends ELSE 0)
    BY <1>0, <1>2 DEF CountSends
  <2>5. seen => n = call[c].parts[a].sends
    BY DEF SendsOf
  <2>6. seen /\ n > 0 => sent[a] + n <= top[a]
    BY <2>1, <2>5 DEF Caps
  <2> HIDE DEF n, seen
  <2>7. quiet'[a] = quiet[a] \/ (quiet'[a] = quiet[a] + n /\ (n > 0 => sent[a] + n <= top[a]))
    BY <1>0, <2>4, <2>5, <2>6
  <2>8. quiet[a] <= sent[a] /\ quiet[a] <= top[a] /\ policy[a].cap <= top[a]
    BY DEF Caps
  <2> QED
    BY <1>0, <2>1, <2>2, <2>3, <2>7, <2>8
<1>3. ASSUME NEW k \in Accepts, StartApproved(k) PROVE Goal
  <2> DEFINE counts == SendCounts(prop[acc[k].of])
  <2>1. acc[k].of \in Calls /\ prop[acc[k].of] \in PropType
    BY <1>0, <1>3 DEF Cards, StartApproved
  <2>2. counts \in PartsSet
    BY <1>0, <2>1, SendCountsType
  <2>3. sent' = sent \/ sent' = [a \in Apps |-> sent[a] + SendsOf(counts, a)]
    BY <1>3 DEF StartApproved
  <2> HIDE DEF counts
  <2>4. \A a \in Apps : SendsOf(counts, a) \in Nat
    BY <2>2, SendsOfType
  <2>5. \A a \in Apps : sent'[a] \in Nat /\ sent[a] <= sent'[a]
    BY <1>0, <2>3, <2>4
  <2>6. UNCHANGED <<policy, quiet, top>>
    BY <1>3 DEF StartApproved, person
  <2> QED
    BY <1>0, <2>5, <2>6 DEF Caps
<1>4. ASSUME NEW c \in Calls, SaidForever(c) PROVE Goal
  <2>1. /\ policy' = [a \in Apps |-> IF a \in DOMAIN call[c].parts
                                     THEN Grant(call[c].held[a], call[c].parts[a].kind) ELSE policy[a]]
        /\ UNCHANGED <<top, quiet, sent>>
    BY <1>4 DEF SaidForever, ledger
  <2>2. /\ call[c].parts \in PartsSet /\ call[c].held \in HeldSet
        /\ DOMAIN call[c].held = DOMAIN call[c].parts
    BY <1>0, <1>4 DEF CallType, Shape, SaidForever
  <2>3. \A a \in DOMAIN call[c].parts : call[c].parts[a].kind \in Kinds /\ call[c].held[a] \in Policies
    BY <2>2, PartsAre DEF PartType
  <2>4. \A a \in DOMAIN call[c].parts : Grant(call[c].held[a], call[c].parts[a].kind).cap = call[c].held[a].cap
    BY <2>3, GrantType
  <2>5. \A a \in DOMAIN call[c].parts : call[c].held[a].cap <= top[a]
    BY <2>2 DEF Caps
  <2> QED
    BY <1>0, <2>1, <2>4, <2>5 DEF Caps
<1>5. ASSUME NEW a \in Apps, SetPolicy(a) PROVE Goal
  <2>1. PICK ch \in Settings :
           LET p == [policy[a] EXCEPT !.read = ch.read, !.change = ch.change,
                                      !.send = ch.send, !.cap = Clamp(ch.cap)]
           IN  /\ policy' = [policy EXCEPT ![a] = p]
               /\ top' = [top EXCEPT ![a] = IF p.cap > @ THEN p.cap ELSE @]
    BY <1>5 DEF SetPolicy
  <2> DEFINE p == [policy[a] EXCEPT !.read = ch.read, !.change = ch.change,
                                    !.send = ch.send, !.cap = Clamp(ch.cap)]
  <2>2. p.cap = Clamp(ch.cap)
    BY <1>0 DEF Policies
  <2>3. p.cap \in Int
    BY <2>2, GateAssumption, Records
  <2>4. policy' = [policy EXCEPT ![a] = p] /\ top' = [top EXCEPT ![a] = IF p.cap > top[a] THEN p.cap ELSE top[a]]
    BY <2>1
  <2> HIDE DEF p
  <2>5. UNCHANGED <<quiet, sent>>
    BY <1>5 DEF SetPolicy, ledger
  <2>6. \A b \in Apps : policy'[b].cap <= top'[b] /\ top[b] <= top'[b] /\ top'[b] \in Int
    BY <1>0, <2>3, <2>4 DEF Caps
  <2> QED
    BY <1>0, <2>5, <2>6 DEF Caps
<1>6. ASSUME NEW t \in Tools, SetToolKind(t) PROVE Goal
  <2>1. PICK k \in Kinds \cup {None} : policy' = [policy EXCEPT ![AppOf[t]].kind[t] = k]
    BY <1>6 DEF SetToolKind
  <2>2. \A a \in Apps : policy'[a].cap = policy[a].cap
    BY <1>0, <2>1 DEF Policies
  <2>3. UNCHANGED <<quiet, sent, top>>
    BY <1>6 DEF SetToolKind, ledger
  <2> QED
    BY <1>0, <2>2, <2>3 DEF Caps
<1>7. ASSUME NEW c \in Calls,
             \/ Plan(c) \/ WeighRefused(c) \/ WeighAllowed(c) \/ LeaveForApproval(c) \/ OpenRequest(c)
             \/ \E d \in {"deny", "once", "chat", "forever"} : Resolve(c, d)
             \/ StopRun(c) \/ GiveUp(c) \/ Declined(c) \/ SaidOnce(c)
             \/ CallTool(c) \/ SendMail(c) \/ Dismiss(c)
      PROVE  Goal
  BY <1>1, <1>7 DEF Plan, WeighRefused, WeighAllowed, LeaveForApproval, OpenRequest, Resolve, StopRun,
     GiveUp, Declined, SaidOnce, CallTool, SendMail, Dismiss, person, ledger
<1>8. ASSUME NEW k \in Accepts, (\E c \in Calls : Accept(k, c)) \/ CallApproved(k) \/ CloseApproved(k)
      PROVE  Goal
  BY <1>1, <1>8 DEF Accept, CallApproved, CloseApproved, person, ledger
<1>9. ASSUME SetRung \/ UNCHANGED vars PROVE Goal
  BY <1>1, <1>9 DEF SetRung, vars, person, ledger
<1>10. Goal
  BY <1>2, <1>3, <1>4, <1>5, <1>6, <1>7, <1>8, <1>9 DEF Next
<1>11. /\ \A c \in Calls : \A a \in DOMAIN call'[c].held : call'[c].held[a].cap <= top'[a]
       /\ \A c \in Calls : (call'[c].pc = "count" /\ call'[c].quiet) =>
             /\ DOMAIN call'[c].seen = DOMAIN call'[c].parts
             /\ \A a \in DOMAIN call'[c].parts :
                   call'[c].parts[a].sends > 0 => call'[c].seen[a] + call'[c].parts[a].sends <= top'[a]
  BY <1>10, CapsOfCalls
<1> QED
  BY <1>10, <1>11 DEF Caps

\* As many units as a function from S to the naturals adds up to.
Units(S, f) == {u \in S \X Nat : 1 <= u[2] /\ u[2] <= f[u[1]]}

\* A column of m units.
LEMMA ColumnSize ==
    ASSUME NEW x, NEW m \in Nat
    PROVE  IsFiniteSet({x} \X (1..m)) /\ Cardinality({x} \X (1..m)) = m
<1>1. IsFiniteSet({x}) /\ Cardinality({x}) = 1
  BY FS_Singleton
<1>2. IsFiniteSet(1..m) /\ Cardinality(1..m) = m
  BY FS_Interval
<1>3. IsFiniteSet({x} \X (1..m)) /\ Cardinality({x} \X (1..m)) = Cardinality({x}) * Cardinality(1..m)
  BY <1>1, <1>2, FS_Product
<1> QED
  BY <1>1, <1>2, <1>3

\* Changing the function at one point changes their number by the difference.
LEMMA UnitsChange ==
    ASSUME NEW S, NEW f \in [S -> Nat], NEW g \in [S -> Nat], NEW x \in S,
           \A y \in S \ {x} : g[y] = f[y], IsFiniteSet(Units(S, f))
    PROVE  /\ IsFiniteSet(Units(S, g))
           /\ Cardinality(Units(S, g)) = Cardinality(Units(S, f)) - f[x] + g[x]
<1> DEFINE U == Units(S, f)
           V == Units(S, g)
           n == g[x]
           At(m) == {x} \X (1..m)
           Rest == U \ At(f[x])
<1>0. n \in Nat
  OBVIOUS
<1>1. \A m \in Nat : IsFiniteSet(At(m)) /\ Cardinality(At(m)) = m
  BY ColumnSize
<1>2. U \cap At(f[x]) = At(f[x])
  BY DEF Units
<1>3. IsFiniteSet(Rest) /\ Cardinality(Rest) = Cardinality(U) - f[x]
  <2>1. f[x] \in Nat
    OBVIOUS
  <2>2. IsFiniteSet(At(f[x])) /\ Cardinality(At(f[x])) = f[x]
    BY <1>1, <2>1
  <2>3. IsFiniteSet(U)
    OBVIOUS
  <2> HIDE DEF U, At
  <2>4. /\ IsFiniteSet(U \ At(f[x]))
        /\ Cardinality(U \ At(f[x])) = Cardinality(U) - Cardinality(U \cap At(f[x]))
    BY <2>2, <2>3, FS_Difference
  <2> QED
    BY <1>2, <2>2, <2>4
<1>4. V = Rest \cup At(n)
  <2>1. ASSUME NEW u \in V PROVE u \in Rest \cup At(n)
    <3>1. u \in S \X Nat /\ 1 <= u[2] /\ u[2] <= g[u[1]]
      BY <2>1 DEF Units
    <3>2. CASE u[1] = x
      BY <3>1, <3>2
    <3>3. CASE u[1] # x
      BY <3>1, <3>3 DEF Units
    <3> QED
      BY <3>2, <3>3
  <2>2. ASSUME NEW u \in At(n) PROVE u \in V
    BY <2>2 DEF Units
  <2>3. ASSUME NEW u \in Rest PROVE u \in V
    <3>1. u \in S \X Nat /\ 1 <= u[2] /\ u[2] <= f[u[1]] /\ u \notin At(f[x])
      BY <2>3 DEF Units
    <3>2. u[1] # x
      BY <3>1
    <3> QED
      BY <3>1, <3>2 DEF Units
  <2> QED
    BY <2>1, <2>2, <2>3
<1>5. Rest \cap At(n) = {}
  <2> SUFFICES ASSUME NEW u \in Rest, u \in At(n) PROVE FALSE
    OBVIOUS
  <2>1. u \in S \X Nat /\ 1 <= u[2] /\ u[2] <= f[u[1]] /\ u \notin At(f[x])
    BY DEF Units
  <2> QED
    BY <2>1
<1>6. IsFiniteSet(Rest \cup At(n)) /\ Cardinality(Rest \cup At(n)) = Cardinality(Rest) + n - Cardinality(Rest \cap At(n))
  <2>1. IsFiniteSet(At(n)) /\ Cardinality(At(n)) = n /\ IsFiniteSet(Rest)
    BY <1>0, <1>1, <1>3
  <2> HIDE DEF At, Rest, n
  <2>2. /\ IsFiniteSet(Rest \cup At(n))
        /\ Cardinality(Rest \cup At(n)) = Cardinality(Rest) + Cardinality(At(n)) - Cardinality(Rest \cap At(n))
    BY <2>1, FS_Union
  <2> QED
    BY <2>1, <2>2
<1>7. Cardinality(Rest \cap At(n)) = 0
  BY <1>5, FS_EmptySet
<1>8. Cardinality(U) \in Nat
  BY FS_CardinalityType
<1> HIDE DEF U, V, Rest, At, n
<1>9. IsFiniteSet(V) /\ Cardinality(V) = Cardinality(U) - f[x] + n
  BY <1>0, <1>3, <1>4, <1>6, <1>7, <1>8
<1> QED
  BY <1>9 DEF U, V, n
\* The sends of an app that were counted and may still leave: those of the calls
\* that go, and those of the accepts that are calling.
Going(a) == [c \in Calls |-> IF call[c].pc = "go" THEN SendsOf(call[c].parts, a) ELSE 0]
Accepting(a) == [k \in Accepts |-> IF acc[k].pc = "calling" THEN SendsOf(acc[k].sends, a) ELSE 0]

\* What left and what may still leave was counted, app by app.
Counted(a) ==
    /\ IsFiniteSet(Units(Calls, Going(a))) /\ IsFiniteSet(Units(Accepts, Accepting(a)))
    /\ left[a] + Cardinality(Units(Calls, Going(a))) + Cardinality(Units(Accepts, Accepting(a))) <= sent[a]

Underway == \A a \in Apps : Counted(a)

\* The two are functions to the naturals.
LEMMA UnderwayTypes ==
    ASSUME Types, NEW a \in Apps
    PROVE  Going(a) \in [Calls -> Nat] /\ Accepting(a) \in [Accepts -> Nat]
<1>1. call \in [Calls -> CallType] /\ acc \in [Accepts -> AccType]
  BY DEF Types
<1>2. \A c \in Calls : SendsOf(call[c].parts, a) \in Nat
  BY <1>1, SendsOfType DEF CallType
<1>3. \A k \in Accepts : SendsOf(acc[k].sends, a) \in Nat
  BY <1>1, SendsOfType DEF AccType
<1> QED
  BY <1>2, <1>3 DEF Going, Accepting

\* A step of one call keeps the account when what leaves, and what that call may
\* still send, grow by no more than the count.
LEMMA CallAccount ==
    ASSUME BaseInv, BaseInv', NEW a \in Apps, Counted(a), NEW c \in Calls, NEW n \in Nat,
           Going(a)' = [Going(a) EXCEPT ![c] = n], Accepting(a)' = Accepting(a),
           left'[a] + n - Going(a)[c] - left[a] <= sent'[a] - sent[a]
    PROVE  Counted(a)'
<1>1. Going(a) \in [Calls -> Nat] /\ IsFiniteSet(Units(Calls, Going(a)))
  BY UnderwayTypes DEF BaseInv, Counted
<1>2. /\ IsFiniteSet(Units(Calls, Going(a)'))
      /\ Cardinality(Units(Calls, Going(a)')) = Cardinality(Units(Calls, Going(a))) - Going(a)[c] + n
  <2> PICK f \in [Calls -> Nat] : f = Going(a)
    BY <1>1
  <2> PICK g \in [Calls -> Nat] : g = [f EXCEPT ![c] = n]
    OBVIOUS
  <2>1. IsFiniteSet(Units(Calls, f)) /\ g[c] = n /\ \A y \in Calls \ {c} : g[y] = f[y]
    BY <1>1
  <2>2. IsFiniteSet(Units(Calls, g)) /\ Cardinality(Units(Calls, g)) = Cardinality(Units(Calls, f)) - f[c] + g[c]
    BY ONLY <2>1, UnitsChange, f \in [Calls -> Nat], g \in [Calls -> Nat], c \in Calls
  <2> QED
    BY <2>1, <2>2
<1>3. /\ Cardinality(Units(Calls, Going(a))) \in Nat /\ Going(a)[c] \in Nat
      /\ Cardinality(Units(Accepts, Accepting(a))) \in Nat
  BY <1>1, FS_CardinalityType DEF Counted
<1>4. left[a] \in Nat /\ left'[a] \in Nat /\ sent[a] \in Nat /\ sent'[a] \in Nat
  BY DEF BaseInv, Types
<1>5. left[a] + Cardinality(Units(Calls, Going(a))) + Cardinality(Units(Accepts, Accepting(a))) <= sent[a]
  BY DEF Counted
<1>6. left'[a] + Cardinality(Units(Calls, Going(a)')) + Cardinality(Units(Accepts, Accepting(a))) <= sent'[a]
  BY <1>2, <1>3, <1>4, <1>5
<1>7. Units(Calls, Going(a))' = Units(Calls, Going(a)') /\ Units(Accepts, Accepting(a))' = Units(Accepts, Accepting(a))
  BY DEF Units
<1> QED
  BY <1>2, <1>6, <1>7 DEF Counted

\* The same for a step of one accept.
LEMMA AcceptAccount ==
    ASSUME BaseInv, BaseInv', NEW a \in Apps, Counted(a), NEW k \in Accepts, NEW n \in Nat,
           Accepting(a)' = [Accepting(a) EXCEPT ![k] = n], Going(a)' = Going(a),
           left'[a] + n - Accepting(a)[k] - left[a] <= sent'[a] - sent[a]
    PROVE  Counted(a)'
<1>1. Accepting(a) \in [Accepts -> Nat] /\ IsFiniteSet(Units(Accepts, Accepting(a)))
  BY UnderwayTypes DEF BaseInv, Counted
<1>2. /\ IsFiniteSet(Units(Accepts, Accepting(a)'))
      /\ Cardinality(Units(Accepts, Accepting(a)')) = Cardinality(Units(Accepts, Accepting(a))) - Accepting(a)[k] + n
  <2> PICK f \in [Accepts -> Nat] : f = Accepting(a)
    BY <1>1
  <2> PICK g \in [Accepts -> Nat] : g = [f EXCEPT ![k] = n]
    OBVIOUS
  <2>1. IsFiniteSet(Units(Accepts, f)) /\ g[k] = n /\ \A y \in Accepts \ {k} : g[y] = f[y]
    BY <1>1
  <2>2. IsFiniteSet(Units(Accepts, g)) /\ Cardinality(Units(Accepts, g)) = Cardinality(Units(Accepts, f)) - f[k] + g[k]
    BY ONLY <2>1, UnitsChange, f \in [Accepts -> Nat], g \in [Accepts -> Nat], k \in Accepts
  <2> QED
    BY <2>1, <2>2
<1>3. /\ Cardinality(Units(Calls, Going(a))) \in Nat /\ Accepting(a)[k] \in Nat
      /\ Cardinality(Units(Accepts, Accepting(a))) \in Nat
  BY <1>1, FS_CardinalityType DEF Counted
<1>4. left[a] \in Nat /\ left'[a] \in Nat /\ sent[a] \in Nat /\ sent'[a] \in Nat
  BY DEF BaseInv, Types
<1>5. left[a] + Cardinality(Units(Calls, Going(a))) + Cardinality(Units(Accepts, Accepting(a))) <= sent[a]
  BY DEF Counted
<1>6. left'[a] + Cardinality(Units(Calls, Going(a))) + Cardinality(Units(Accepts, Accepting(a)')) <= sent'[a]
  BY <1>2, <1>3, <1>4, <1>5
<1>7. Units(Calls, Going(a))' = Units(Calls, Going(a)) /\ Units(Accepts, Accepting(a))' = Units(Accepts, Accepting(a)')
  BY DEF Units
<1> QED
  BY <1>2, <1>6, <1>7 DEF Counted

\* Every step keeps the account: count_sends comes before the call it counts, and
\* run_approved counts before it calls.
LEMMA UnderwayStep == BaseInv /\ Underway /\ [Next]_vars => Underway'
<1> SUFFICES ASSUME BaseInv, Underway, [Next]_vars, NEW a \in Apps PROVE Counted(a)'
  BY DEF Underway
<1>0. /\ call \in [Calls -> CallType] /\ acc \in [Accepts -> AccType] /\ prop \in [Calls -> PropType]
      /\ policy \in [Apps -> Policies] /\ sent \in [Apps -> Nat] /\ left \in [Apps -> Nat]
      /\ left[a] \in Nat /\ sent[a] \in Nat /\ Types /\ Shape /\ Cards
  BY DEF BaseInv, Types
<1>1. BaseInv' /\ Counted(a) /\ Types'
  BY BaseStep DEF Underway, BaseInv
<1>2. ASSUME Going(a)' = Going(a), Accepting(a)' = Accepting(a), UNCHANGED <<left, sent>> PROVE Counted(a)'
  <2>1. Units(Calls, Going(a))' = Units(Calls, Going(a)) /\ Units(Accepts, Accepting(a))' = Units(Accepts, Accepting(a))
    BY <1>2 DEF Units
  <2> QED
    BY <1>1, <1>2, <2>1 DEF Counted
<1>3. ASSUME UNCHANGED <<call, acc, left, sent>> PROVE Counted(a)'
  BY <1>2, <1>3 DEF Going, Accepting
<1>4. ASSUME NEW c \in Calls, call[c].pc # "go", call'[c].pc # "go",
             \A d \in Calls \ {c} : call'[d] = call[d], UNCHANGED <<acc, left, sent>>
      PROVE  Counted(a)'
  <2>1. Going(a)' = Going(a) /\ Accepting(a)' = Accepting(a)
    BY <1>4 DEF Going, Accepting
  <2> QED
    BY <1>2, <1>4, <2>1
<1>5. ASSUME NEW c \in Calls, Plan(c) PROVE Counted(a)'
  <2>1. call[c].pc # "go" /\ UNCHANGED <<acc, left, sent>>
    BY <1>5 DEF Plan, inbox, ledger
  <2>2. call'[c].pc # "go" /\ \A d \in Calls \ {c} : call'[d] = call[d]
    BY <1>0, <1>5, PlanMoves, Records
  <2> QED
    BY <1>4, <2>1, <2>2
<1>6. ASSUME NEW c \in Calls, WeighAllowed(c) \/ OpenRequest(c) PROVE Counted(a)'
  <2>1. UNCHANGED <<acc, left, sent>>
    BY <1>6 DEF WeighAllowed, OpenRequest, inbox, ledger
  <2>2. call[c].pc # "go" /\ call'[c].pc # "go" /\ \A d \in Calls \ {c} : call'[d] = call[d]
    BY <1>0, <1>6, WeighMoves
  <2> QED
    BY <1>4, <2>1, <2>2
<1>7. ASSUME NEW c \in Calls, WeighRefused(c) \/ LeaveForApproval(c) \/ GiveUp(c) \/ Declined(c) \/ SendMail(c)
      PROVE  Counted(a)'
  <2>1. call[c].pc # "go" /\ call' = [call EXCEPT ![c] = Ended] /\ UNCHANGED <<acc, left, sent>>
    BY <1>7 DEF WeighRefused, LeaveForApproval, GiveUp, Declined, SendMail, inbox, ledger
  <2>2. call'[c].pc # "go" /\ \A d \in Calls \ {c} : call'[d] = call[d]
    BY <1>0, <2>1, Records
  <2> QED
    BY <1>4, <2>1, <2>2
<1>8. ASSUME NEW c \in Calls, SaidOnce(c) \/ SaidForever(c) PROVE Counted(a)'
  <2>1. call[c].pc # "go" /\ call' = [call EXCEPT ![c] = Admitted(c)] /\ UNCHANGED <<acc, left, sent>>
    BY <1>8 DEF SaidOnce, SaidForever, inbox, ledger
  <2>2. call'[c].pc # "go" /\ \A d \in Calls \ {c} : call'[d] = call[d]
    BY <1>0, <2>1, CallRecords
  <2> QED
    BY <1>4, <2>1, <2>2
<1>9. ASSUME NEW c \in Calls, CountSends(c) PROVE Counted(a)'
  <2> DEFINE n == SendsOf(call[c].parts, a)
  <2>1. n \in Nat
    BY <1>0, SendsOfType DEF CallType
  <2>2. call'[c].pc = "go" /\ call'[c].parts = call[c].parts /\ call[c].pc = "count"
    BY <1>0, <1>9 DEF CountSends, Idle
  <2>3. (\A d \in Calls \ {c} : call'[d] = call[d]) /\ UNCHANGED <<acc, left>>
    BY <1>0, <1>9 DEF CountSends, inbox
  <2>4. Going(a)' = [Going(a) EXCEPT ![c] = n] /\ Accepting(a)' = Accepting(a) /\ Going(a)[c] = 0
    BY <2>2, <2>3 DEF Going, Accepting
  <2>5. sent'[a] = sent[a] + n
    BY <1>0, <1>9 DEF CountSends
  <2> HIDE DEF n
  <2>6. left'[a] + n - Going(a)[c] - left[a] <= sent'[a] - sent[a]
    BY <1>0, <2>1, <2>3, <2>4, <2>5
  <2> QED
    BY <1>1, <2>1, <2>4, <2>6, CallAccount
<1>10. ASSUME NEW c \in Calls, CallTool(c) PROVE Counted(a)'
  <2> DEFINE n == SendsOf(call[c].parts, a)
  <2>1. n \in Nat
    BY <1>0, SendsOfType DEF CallType
  <2>2. call[c].pc = "go" /\ call' = [call EXCEPT ![c] = Ended] /\ UNCHANGED <<acc, sent>>
    BY <1>10 DEF CallTool, inbox
  <2>3. call'[c].pc = "end" /\ \A d \in Calls \ {c} : call'[d] = call[d]
    BY <1>0, <2>2, Records
  <2>4. Going(a)' = [Going(a) EXCEPT ![c] = 0] /\ Accepting(a)' = Accepting(a) /\ Going(a)[c] = n
    <3>1. Going(a)' = [Going(a) EXCEPT ![c] = 0]
      BY <2>3 DEF Going
    <3>2. Going(a)[c] = n /\ Accepting(a)' = Accepting(a)
      BY <2>2 DEF Going, Accepting
    <3> QED
      BY <3>1, <3>2
  <2>5. left'[a] = left[a] + n \/ left'[a] = left[a]
    BY <1>0, <1>10 DEF CallTool
  <2> HIDE DEF n
  <2>6. left'[a] + 0 - Going(a)[c] - left[a] <= sent'[a] - sent[a]
    BY <1>0, <2>1, <2>2, <2>4, <2>5
  <2> QED
    BY <1>1, <2>4, <2>6, CallAccount
<1>11. ASSUME NEW k \in Accepts, NEW n \in Nat, acc[k].pc # "calling", acc'[k].pc = "calling",
              SendsOf(acc'[k].sends, a) = n, \A j \in Accepts \ {k} : acc'[j] = acc[j],
              UNCHANGED <<call, left>>, sent'[a] = sent[a] + n
       PROVE  Counted(a)'
  <2>1. Accepting(a)' = [Accepting(a) EXCEPT ![k] = n] /\ Going(a)' = Going(a) /\ Accepting(a)[k] = 0
    BY <1>11 DEF Going, Accepting
  <2>2. left'[a] + n - Accepting(a)[k] - left[a] <= sent'[a] - sent[a]
    BY <1>0, <1>11, <2>1
  <2> QED
    BY <1>1, <1>11, <2>1, <2>2, AcceptAccount
<1>12. ASSUME NEW k \in Accepts, acc[k].pc # "calling", acc'[k].pc # "calling",
              \A j \in Accepts \ {k} : acc'[j] = acc[j], UNCHANGED <<call, left, sent>>
       PROVE  Counted(a)'
  <2>1. Going(a)' = Going(a) /\ Accepting(a)' = Accepting(a)
    BY <1>12 DEF Going, Accepting
  <2> QED
    BY <1>2, <1>12, <2>1
<1>13. ASSUME NEW k \in Accepts, StartApproved(k) PROVE Counted(a)'
  <2> DEFINE counts == SendCounts(prop[acc[k].of])
             n      == SendsOf(counts, a)
  <2>1. acc[k].of \in Calls /\ prop[acc[k].of] \in PropType /\ acc[k].pc = "start"
    BY <1>0, <1>13 DEF Cards, StartApproved
  <2>2. counts \in PartsSet
    BY <1>0, <2>1, SendCountsType
  <2>3. n \in Nat
    BY <2>2, SendsOfType
  <2>4. UNCHANGED <<call, left>>
    BY <1>13 DEF StartApproved
  <2>5. \/ acc' = [acc EXCEPT ![k] = FreeAcc] /\ UNCHANGED sent
        \/ /\ acc' = [acc EXCEPT ![k].pc = "calling", ![k].sends = counts]
           /\ sent' = [b \in Apps |-> sent[b] + SendsOf(counts, b)]
    BY <1>13 DEF StartApproved
  <2> HIDE DEF counts
  <2>6. CASE acc' = [acc EXCEPT ![k] = FreeAcc] /\ UNCHANGED sent
    <3>1. acc'[k].pc = "free" /\ \A j \in Accepts \ {k} : acc'[j] = acc[j]
      BY <1>0, <2>6, Records
    <3> QED
      BY <1>12, <2>1, <2>4, <2>6, <3>1
  <2>7. CASE /\ acc' = [acc EXCEPT ![k].pc = "calling", ![k].sends = counts]
             /\ sent' = [b \in Apps |-> sent[b] + SendsOf(counts, b)]
    <3>1. acc'[k].pc = "calling" /\ acc'[k].sends = counts /\ \A j \in Accepts \ {k} : acc'[j] = acc[j]
      BY <1>0, <2>7 DEF AccType
    <3>2. sent'[a] = sent[a] + n
      BY <2>7
    <3>3. SendsOf(acc'[k].sends, a) = n
      BY <3>1
    <3> HIDE DEF n
    <3> QED
      BY <1>11, <2>1, <2>3, <2>4, <3>1, <3>2, <3>3
  <2> QED
    BY <2>5, <2>6, <2>7
<1>14. ASSUME NEW k \in Accepts, CallApproved(k) PROVE Counted(a)'
  <2> DEFINE n == SendsOf(acc[k].sends, a)
  <2>1. n \in Nat
    BY <1>0, SendsOfType DEF AccType
  <2>2. acc[k].pc = "calling" /\ UNCHANGED <<call, sent>>
    BY <1>14 DEF CallApproved
  <2>3. acc'[k].pc # "calling" /\ \A j \in Accepts \ {k} : acc'[j] = acc[j]
    BY <1>0, <1>14, Records DEF CallApproved, AccType
  <2>4. Accepting(a)' = [Accepting(a) EXCEPT ![k] = 0] /\ Going(a)' = Going(a) /\ Accepting(a)[k] = n
    BY <2>2, <2>3 DEF Going, Accepting
  <2>5. left'[a] = left[a] + n \/ left'[a] = left[a]
    BY <1>0, <1>14 DEF CallApproved
  <2> HIDE DEF n
  <2>6. left'[a] + 0 - Accepting(a)[k] - left[a] <= sent'[a] - sent[a]
    BY <1>0, <2>1, <2>2, <2>4, <2>5
  <2> QED
    BY <1>1, <2>4, <2>6, AcceptAccount
<1>15. ASSUME NEW k \in Accepts, (\E c \in Calls : Accept(k, c)) \/ CloseApproved(k) PROVE Counted(a)'
  <2>1. acc[k].pc # "calling" /\ UNCHANGED <<call, left, sent>>
    BY <1>15 DEF Accept, CloseApproved, ledger
  <2>2. acc'[k].pc # "calling" /\ \A j \in Accepts \ {k} : acc'[j] = acc[j]
    BY <1>0, <1>15, Records DEF Accept, CloseApproved, FreeAcc
  <2> QED
    BY <1>12, <2>1, <2>2
<1>16. ASSUME NEW c \in Calls, StopRun(c) \/ Dismiss(c) \/ \E d \in {"deny", "once", "chat", "forever"} : Resolve(c, d)
       PROVE  Counted(a)'
  BY <1>3, <1>16 DEF StopRun, Dismiss, Resolve, inbox, ledger
<1>17. CASE (\E b \in Apps : SetPolicy(b)) \/ (\E t \in Tools : SetToolKind(t)) \/ SetRung \/ UNCHANGED vars
  BY <1>3, <1>17 DEF SetPolicy, SetToolKind, SetRung, vars, inbox, ledger
<1> QED
  BY <1>5, <1>6, <1>7, <1>8, <1>9, <1>10, <1>13, <1>14, <1>15, <1>16, <1>17 DEF Next

-----------------------------------------------------------------------------
(******************************* the theorems ******************************)

\* The inductive invariant.
GateInv == BaseInv /\ Carried /\ Refusals /\ Caps /\ Underway

\* The initial state satisfies it.
LEMMA GateInit == Init => GateInv
<1> SUFFICES ASSUME Init PROVE GateInv
  OBVIOUS
<1>1. BaseInv
  BY BaseInit
<1>2. /\ \A c \in Calls : /\ call[c].pc = "idle" /\ call[c].held = NoParts /\ prop[c].status = "none"
                          /\ ran[c] = 0
      /\ \A k \in Accepts : acc[k].pc = "free"
      /\ refused = {} /\ clicks = 0
  BY DEF Init, Idle, NoProp, FreeAcc
<1>3. \A c \in Calls : Busy(c) = {}
  BY <1>2 DEF Busy
<1>4. Carried
  BY <1>2, <1>3, FS_EmptySet DEF Carried
<1>5. Refusals
  BY <1>2 DEF Refusals
<1>6. \A a \in Apps : policy[a].cap = DefaultCap /\ top[a] = DefaultCap /\ quiet[a] = 0 /\ sent[a] = 0
  BY DEF Init, Defaults
<1>7. Caps
  BY <1>2, <1>6, GateAssumption, PartsAre DEF Caps
<1>8. Underway
  <2> SUFFICES ASSUME NEW a \in Apps PROVE Counted(a)
    BY DEF Underway
  <2>1. Units(Calls, Going(a)) = {} /\ Units(Accepts, Accepting(a)) = {}
    BY <1>2 DEF Units, Going, Accepting
  <2>2. left[a] = 0 /\ sent[a] = 0
    BY DEF Init
  <2> QED
    BY <2>1, <2>2, FS_EmptySet DEF Counted
<1> QED
  BY <1>1, <1>4, <1>5, <1>7, <1>8 DEF GateInv

\* The inductive invariant holds in every reachable state: the types, that a
\* card is of a call that is over, the account of what was counted and what may
\* still leave, and that a refused call is out of everyone's hands.
THEOREM GateInvariant == Spec => []GateInv
<1>1. GateInv /\ [Next]_vars => GateInv'
  BY BaseStep, RefusalStep, CapsStep, UnderwayStep DEF GateInv
<1> QED
  BY GateInit, <1>1, PTL DEF Spec

\* The variables keep the types the code gives them: every stored policy has a
\* cap within 1..MAX_SEND_CAP, an open question belongs to a call that asked,
\* and no call is carried out more often than once and once per click.
THEOREM GateTypes == Spec => []TypeOK
<1>1. ASSUME GateInv PROVE TypeOK
  <2>0. Types /\ Shape /\ Cards /\ Asking /\ Carried
    BY <1>1 DEF GateInv, BaseInv
  <2>1. ASSUME NEW c \in Calls
        PROVE  /\ call[c].pc \in {"idle", "weigh", "asked", "count", "go", "end"}
               /\ DOMAIN call[c].parts \subseteq Apps
               /\ call[c].pc \in {"weigh", "asked", "count", "go"} => call[c].parts # NoParts
               /\ \A a \in DOMAIN call[c].held : call[c].held[a] \in Policies
               /\ prop[c].status \in {"none", "pending", "applied", "dismissed"}
    <3>1. call[c] \in CallType /\ prop[c] \in PropType
      BY <2>0 DEF Types
    <3>2. call[c].pc \in CallPcs /\ call[c].parts \in PartsSet /\ call[c].held \in HeldSet
      BY <3>1 DEF CallType
    <3> QED
      BY <2>0, <3>1, <3>2, PartsAre DEF Shape, CallPcs, PropType
  <2>2. ran \in [Calls -> 0..(1 + MaxClicks)]
    <3>1. ran \in [Calls -> Nat] /\ clicks \in 0..MaxClicks /\ MaxClicks \in Nat
      BY <2>0, GateAssumption DEF Types
    <3>2. ASSUME NEW c \in Calls PROVE ran[c] \in 0..(1 + MaxClicks)
      <4>1. Cardinality(Busy(c)) \in Nat
        BY <2>0, FS_CardinalityType DEF Carried
      <4>2. ran[c] <= 1 \/ ran[c] + Cardinality(Busy(c)) <= clicks
        BY <2>0 DEF Carried
      <4> QED
        BY <3>1, <4>1, <4>2
    <3> QED
      BY <3>1, <3>2
  <2>3. pending \subseteq {c \in Calls : call[c].pc \in {"asked", "end"}}
    BY <2>0 DEF Types, Asking
  <2>4. \A k \in Accepts : acc[k].pc # "free" => prop[acc[k].of].status # "none"
    BY <2>0 DEF Cards
  <2>5. \A a \in Apps : policy[a] \in Policies /\ told[a] \in Policies
    BY <2>0 DEF Types
  <2> QED
    BY <2>0, <2>1, <2>2, <2>3, <2>4, <2>5 DEF TypeOK, Types
<1> QED
  BY GateInvariant, <1>1, PTL

\* The daily cap holds, for any number of calls, accepts and edits: count_sends
\* and run_approved count before they call, so what left is in the count, and
\* what admit let through without a question, on a count nobody raised since,
\* stays under the highest cap the person had set.
THEOREM CapHoldsAlways == Spec => []CapHolds
<1>1. ASSUME GateInv PROVE CapHolds
  <2> SUFFICES ASSUME NEW a \in Apps PROVE left[a] <= sent[a] /\ quiet[a] <= top[a]
    BY DEF CapHolds
  <2>1. /\ left[a] \in Nat /\ sent[a] \in Nat
        /\ Counted(a) /\ quiet[a] <= top[a]
    BY <1>1 DEF GateInv, BaseInv, Types, Underway, Caps
  <2>2. /\ Cardinality(Units(Calls, Going(a))) \in Nat
        /\ Cardinality(Units(Accepts, Accepting(a))) \in Nat
        /\ left[a] + Cardinality(Units(Calls, Going(a))) + Cardinality(Units(Accepts, Accepting(a))) <= sent[a]
    BY <2>1, FS_CardinalityType DEF Counted
  <2> QED
    BY <2>1, <2>2
<1> QED
  BY GateInvariant, <1>1, PTL

\* A no is final: a call that was declined, given up, refused or dismissed while
\* nobody was accepting it is never carried out, whatever is clicked later.
THEOREM NoIsFinal == Spec => []NoMeansNo
<1>1. GateInv => NoMeansNo
  BY DEF GateInv, Refusals, NoMeansNo
<1> QED
  BY GateInvariant, <1>1, PTL

\* An "always" is about one kind of call: but for an app whose settings moved
\* under the open question, the stored policy is what the person last said.
THEOREM AlwaysIsNarrow == Spec => []AlwaysKeepsTheRest
<1>1. GateInv => AlwaysKeepsTheRest
  BY DEF GateInv, BaseInv
<1> QED
  BY GateInvariant, <1>1, PTL
=============================================================================
